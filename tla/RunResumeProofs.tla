--------------------------- MODULE RunResumeProofs ---------------------------
(***************************************************************************)
(* A run over several legs, proved for every validated graph and any       *)
(* number of legs: what a leg keeps (WavefrontProofs), every leg a resume opens  *)
(* keeps too, and no decision of a human is lost or assumed on the way.    *)
(*                                                                         *)
(* RunInv is the inductive invariant.  While a process lives it is the     *)
(* leg's own, LegInv; what crosses from one leg to the next is Snapshot,   *)
(* a property of the records alone, for a crash leaves nothing else: a     *)
(* verdict that stands has all its inputs, however the rounds are seeded   *)
(* from the markers.                                                       *)
(***************************************************************************)
EXTENDS RunResume, WavefrontProofs

USE DEF goroutines, loopVars, pauseVars, haltVars, options, gateSnap, records, runVars

----------------------------------------------------------------------------
(* Types. *)

\* The seeded rounds of a snapshot: a loop half-way through a round is at its
\* marker's, any other node at none.
LEMMA SeedsOf ==
    ASSUME NEW recs \in [Node -> NodeRecord]
    PROVE  /\ SeedRounds(recs) \in [Node -> Nat]
           /\ \A d \in Declarers : \A n \in Body[d] :
                SeedRounds(recs)[n] = IF recs[d].verdict = "marker" THEN recs[d].round ELSE 0
           /\ \A n \in Node : (\A d \in Declarers : n \notin Body[d]) => SeedRounds(recs)[n] = 0
<1>1. MidLoop(recs) \subseteq Declarers /\ Declarers \subseteq Node
  BY FeedbackAssumption DEF MidLoop
<1>2. \A n \in Node : SeedRounds(recs)[n] =
            IF \E d \in MidLoop(recs) : n \in Body[d]
            THEN recs[CHOOSE d \in MidLoop(recs) : n \in Body[d]].round ELSE 0
  BY DEF SeedRounds
<1>3. ASSUME NEW d \in Declarers, NEW n \in Body[d]
      PROVE  SeedRounds(recs)[n] = IF recs[d].verdict = "marker" THEN recs[d].round ELSE 0
  <2>1. n \in Node /\ \A e \in Declarers : n \in Body[e] => e = d
    BY <1>3, BodyShape
  <2>2. CASE recs[d].verdict = "marker"
    <3>1. d \in MidLoop(recs)
      BY <2>2 DEF MidLoop
    <3>2. (CHOOSE e \in MidLoop(recs) : n \in Body[e]) = d
      BY <1>1, <2>1, <3>1
    <3> QED
      BY <1>2, <2>1, <2>2, <3>1, <3>2
  <2>3. CASE recs[d].verdict # "marker"
    <3>1. ~\E e \in MidLoop(recs) : n \in Body[e]
      BY <1>1, <2>1, <2>3 DEF MidLoop
    <3> QED
      BY <1>2, <2>1, <2>3, <3>1
  <2> QED
    BY <2>2, <2>3
<1>4. \A n \in Node : (\A d \in Declarers : n \notin Body[d]) => SeedRounds(recs)[n] = 0
  BY <1>1, <1>2
<1>5. ASSUME NEW n \in Node PROVE SeedRounds(recs)[n] \in Nat
  BY <1>1, <1>3, <1>4 DEF NodeRecord
<1> QED
  BY <1>3, <1>4, <1>5 DEF SeedRounds

RunTypes == RunTypeOK /\ LoopPhases

\* The records a retry retains are records.
LEMMA RetainedTyped ==
    ASSUME TypeOK
    PROVE  /\ nodes \in [Node -> NodeRecord] /\ Retained \in [Node -> NodeRecord]
           /\ \A n \in Node : Retained[n] = IF n \in Cleared THEN NoRecord ELSE nodes[n]
BY DEF TypeOK, NodeRecord, Retained, NoRecord, Verdict

LEMMA OpenLegTyped ==
    ASSUME RunTypeOK, NEW recs \in [Node -> NodeRecord], NEW ds \in [Gates -> Decision],
           OpenLeg(recs, ds), answered' \subseteq Gates
    PROVE  RunTypes'
<1>1. /\ \A S \in SUBSET Node : LegInDegree(S) \in [Node -> Int]
      /\ Passed(recs) \ Superseded(recs) \subseteq Node /\ LegSettled(recs) \subseteq Node
  BY DegreeType DEF Passed, LegSettled, Settled
<1>2. inDegree' \in [Node -> Int] /\ settledNodes' \subseteq Node
  BY <1>1 DEF OpenLeg
<1>3. queued' \in [Node -> Nat] /\ phase' \in [Node -> Phase] /\ attempt' \in [Node -> Nat]
      /\ todo' \in [Node -> SUBSET Node]
  BY DEF OpenLeg, LegQueued, Phase
<1>4. controller' \in [Gates -> Decision \ {"none"}]
  BY DEF OpenLeg, LegController, Decision
<1>5. rounds' \in [Node -> Nat]
  BY SeedsOf DEF OpenLeg
<1>6. nodes' \in [Node -> NodeRecord] /\ ledger' \in [Node -> Nat]
  BY DEF OpenLeg, NodeRecord
<1>7. TypeOK'
  BY <1>2, <1>3, <1>4, <1>5, <1>6 DEF OpenLeg, LegPause, TypeOK, NodeRecord, Outcome
<1>8. process' \in {"leg", "gone"} /\ finished' \in {"none", "passed", "paused", "failed"}
      /\ autoApprove' \subseteq Gates /\ legs' \in 1..MaxLegs
  BY LegAssumption DEF OpenLeg, RunTypeOK
<1> QED
  BY <1>7, <1>8 DEF OpenLeg, RunTypes, RunTypeOK, LoopPhases

LEMMA RunTypesStep == RunTypes /\ [RunNext]_allVars => RunTypes'
<1> SUFFICES ASSUME RunTypes, [RunNext]_allVars PROVE RunTypes'
  OBVIOUS
<1>1. IInv /\ RunTypeOK /\ TypeOK
  BY DEF RunTypes, IInv, RunTypeOK
<1>2. CASE LegStep \/ UNCHANGED allVars
  <2>1. IInv'
    BY <1>1, <1>2, StepTyped DEF LegStep, allVars
  <2>2. UNCHANGED runVars
    BY <1>2 DEF LegStep, allVars
  <2> QED
    BY <1>1, <2>1, <2>2 DEF RunTypes, RunTypeOK, IInv
<1>3. CASE CloseLeg
  <2>1. decisions' \in [Gates -> Decision] /\ limitPause' \subseteq Node
        /\ gatePausedAt' \in Gates \cup {Nobody}
    <3>1. CASE UNCHANGED gateSnap
      BY <1>1, <3>1 DEF TypeOK
    <3>2. CASE ClearPause
      BY <1>1, <3>2 DEF ClearPause, TypeOK, Decision
    <3> QED
      BY <1>3, <3>1, <3>2 DEF CloseLeg
  <2>2. finished' \in {"none", "passed", "paused", "failed"} /\ process' = "gone"
    BY <1>3 DEF CloseLeg
  <2> QED
    BY <1>1, <1>3, <2>1, <2>2 DEF CloseLeg, RunTypes, RunTypeOK, TypeOK, LoopPhases
<1>4. CASE Crash
  BY <1>1, <1>4 DEF Crash, RunTypes, RunTypeOK, TypeOK, LoopPhases, Phase
<1>5. ASSUME NEW g \in Gates, NEW decision \in {"approve", "reject"}, ResumeGate(g, decision)
      PROVE  RunTypes'
  <2>1. [decisions EXCEPT ![g] = decision] \in [Gates -> Decision]
    BY <1>1 DEF TypeOK, Decision
  <2>2. answered' \subseteq Gates
    BY <1>1, <1>5 DEF ResumeGate, RunTypeOK
  <2> QED
    BY <1>1, <1>5, <2>1, <2>2, RetainedTyped, OpenLegTyped DEF ResumeGate
<1>6. CASE ResumeRetry
  BY <1>1, <1>6, RetainedTyped, OpenLegTyped DEF ResumeRetry, RunTypeOK, TypeOK
<1> QED
  BY <1>2, <1>3, <1>4, <1>5, <1>6 DEF RunNext

\* Every variable of a run keeps its type: whatever leg, crash or resume comes
\* next finds a snapshot, rounds and in-degrees it can start from.
THEOREM RunTypesKept == RunSpec => []RunTypeOK
<1>1. RunInit => RunTypes
  <2> SUFFICES ASSUME RunInit PROVE RunTypes
    OBVIOUS
  <2>1. IInv
    BY InitTyped DEF RunInit
  <2> QED
    BY <2>1, LegAssumption DEF RunInit, RunTypes, RunTypeOK, IInv
<1>2. RunTypes => RunTypeOK
  BY DEF RunTypes
<1> QED
  BY <1>1, <1>2, RunTypesStep, PTL DEF RunSpec
----------------------------------------------------------------------------
(* What crosses from one leg to the next. *)

\* The nodes whose pass stands in a leg opened over recs.
Standing(recs) == Passed(recs) \ Superseded(recs)

\* What a leg may be opened over: a verdict that stands has parents whose pass
\* stands; only declarers hold markers, of rounds their loops have; a record of
\* a body is ahead of the seeded round only behind its declarer's own verdict.
Snapshot(recs) ==
    /\ \A n \in LegSettled(recs) : Parents[n] \subseteq Standing(recs)
    /\ \A n \in Node : recs[n].verdict = "none" => recs[n].round = 0
    /\ \A n \in Node : recs[n].verdict = "marker" =>
        n \in Declarers /\ recs[n].round <= FeedbackMax[n]
    /\ \A d \in Declarers : \A n \in Body[d] :
        \/ recs[n].round <= SeedRounds(recs)[n]
        \/ recs[d].verdict \in {"PASS", "FAIL"} /\ recs[n].round <= recs[d].round
    /\ \A n \in Node : (\A d \in Declarers : n \notin Body[d]) => recs[n].round = 0

\* Membership in the sets a leg opens with.
LEMMA OpeningSets ==
    ASSUME NEW recs \in [Node -> NodeRecord], NEW n \in Node
    PROVE  /\ n \in Standing(recs) <=>
                recs[n].verdict = "PASS" /\ recs[n].round >= SeedRounds(recs)[n]
           /\ n \in LegSettled(recs) <=>
                recs[n].verdict \in {"PASS", "FAIL"} /\ recs[n].round >= SeedRounds(recs)[n]
<1>1. recs[n].round \in Nat /\ SeedRounds(recs)[n] \in Nat
  BY SeedsOf DEF NodeRecord
<1> QED
  BY <1>1 DEF Standing, LegSettled, Passed, Settled, Superseded, Carried

\* A leg opened over such a snapshot starts out like any leg.
LEMMA OpenedLeg ==
    ASSUME RunTypes', NEW recs \in [Node -> NodeRecord], NEW ds, OpenLeg(recs, ds), Snapshot(recs)
    PROVE  Opened' /\ Coherent' /\ EndInv'
<1>1. /\ nodes' = recs /\ rounds' = SeedRounds(recs) /\ settledNodes' = LegSettled(recs)
      /\ phase' = [n \in Node |-> "idle"] /\ pausedAt' = Nobody /\ limitedNodes' = {}
      /\ outcome' = "open" /\ gatePausedAt' = Nobody /\ limitPause' = {}
  BY DEF OpenLeg, LegPause
<1>2. ASSUME NEW n \in Node
      PROVE  /\ queued'[n] = IF Parents[n] \subseteq Standing(recs) /\ n \notin Standing(recs)
                                 /\ n \notin LegSettled(recs)
                              THEN 1 ELSE 0
             /\ inDegree'[n] = Cardinality(Parents[n] \ Standing(recs))
  BY DEF OpenLeg, LegQueued, LegInDegree, ReadyGiven, Standing
<1>3. ASSUME NEW n \in Node
      PROVE  /\ Done(n)' <=> n \in Standing(recs)
             /\ Final(n)' <=> n \in LegSettled(recs)
  BY <1>1, OpeningSets DEF Done, Failed, Final
<1>4. DoneNodes' = Standing(recs)
  BY <1>3 DEF DoneNodes, Standing, Passed
<1>5. RoundsInv'
  <2>1. \A n \in Node : (\A d \in Declarers : n \notin Body[d]) => rounds'[n] = 0
    BY <1>1, SeedsOf
  <2>2. ASSUME NEW n \in Node, nodes'[n].verdict = "marker"
        PROVE  n \in Declarers /\ nodes'[n].round = rounds'[n]
    BY <1>1, <2>2, SeedsOf, BodyType DEF Snapshot
  <2> QED
    BY <2>1, <2>2 DEF RoundsInv
<1>6. Opened'
  <2>1. ASSUME NEW n \in Node
        PROVE  /\ queued'[n] = IF Parents[n] \subseteq DoneNodes' /\ ~Final(n)' THEN 1 ELSE 0
               /\ Final(n)' => Parents[n] \subseteq DoneNodes'
    <3>1. n \in Standing(recs) => n \in LegSettled(recs)
      BY OpeningSets
    <3>2. Final(n)' => Parents[n] \subseteq DoneNodes'
      BY <1>3, <1>4 DEF Snapshot
    <3>3. queued'[n] = IF Parents[n] \subseteq DoneNodes' /\ n \notin LegSettled(recs) THEN 1 ELSE 0
      BY <1>2, <1>4, <3>1
    <3>4. CASE n \in LegSettled(recs)
      BY <1>3, <3>2, <3>3, <3>4
    <3>5. CASE n \notin LegSettled(recs)
      BY <1>3, <3>2, <3>3, <3>5
    <3> QED
      BY <3>4, <3>5
  <2>2. \A n \in settledNodes' : n \in Node /\ Final(n)'
    BY <1>1, <1>3 DEF LegSettled, Settled
  <2> QED
    BY <1>1, <1>2, <1>4, <1>5, <2>1, <2>2 DEF Opened
<1>7. Coherent'
  <2>1. ASSUME NEW d \in Declarers, NEW n \in Body[d]
        PROVE  /\ rounds'[n] = rounds'[d] /\ rounds'[d] <= FeedbackMax[d]
               /\ nodes'[n].round <= rounds'[n] \/ (Final(d)' /\ nodes'[n].round <= nodes'[d].round)
    <3>1. d \in Node /\ d \in Body[d] /\ n \in Node /\ FeedbackMax[d] \in Nat
      BY BodyShape, FeedbackAssumption
    <3>2. recs[d].round \in Nat
      BY <3>1 DEF NodeRecord
    <3>3. CASE recs[d].verdict = "marker"
      BY <1>1, <3>1, <3>3, SeedsOf DEF Snapshot
    <3>4. CASE recs[d].verdict # "marker"
      <4>1. SeedRounds(recs)[d] = 0 /\ SeedRounds(recs)[n] = 0
        BY <3>1, <3>4, SeedsOf
      <4>2. recs[d].verdict \in {"PASS", "FAIL"} => Final(d)'
        BY <1>3, <3>1, <3>2, <4>1, OpeningSets
      <4> QED
        BY <1>1, <3>1, <4>1, <4>2 DEF Snapshot
    <3> QED
      BY <3>3, <3>4
  <2>2. ASSUME NEW d \in Declarers, rounds'[d] > 0 PROVE nodes'[d].verdict = "marker"
    BY <1>1, <2>2, SeedsOf, BodyShape
  <2>3. \A n \in Node : (\A d \in Declarers : n \notin Body[d]) => nodes'[n].round = 0
    BY <1>1 DEF Snapshot
  <2> QED
    BY <2>1, <2>2, <2>3 DEF Coherent
<1> QED
  BY <1>1, <1>6, <1>7 DEF EndInv

\* What a retry retains is such a snapshot too: a failure goes with whatever was
\* built on it, and a loop that ran past its first round goes as a whole.
LEMMA RetainedSnapshot ==
    ASSUME TypeOK, Snapshot(nodes)
    PROVE  Snapshot(Retained)
<1>1. /\ nodes \in [Node -> NodeRecord] /\ Retained \in [Node -> NodeRecord]
      /\ \A n \in Node : Retained[n] = IF n \in Cleared THEN NoRecord ELSE nodes[n]
  BY RetainedTyped
<1>2. ASSUME NEW d \in Declarers, d \in Cleared PROVE d \in FailedToRetry /\ d \in Node
  BY <1>2, BodyShape DEF Cleared, FailedToRetry
<1>3. \A d \in Declarers : Retained[d].verdict = "marker" <=> nodes[d].verdict = "marker"
  BY <1>1, <1>2, BodyShape DEF NoRecord, FailedToRetry
<1>4. ASSUME NEW n \in Node PROVE SeedRounds(Retained)[n] = SeedRounds(nodes)[n]
  <2>1. CASE \E d \in Declarers : n \in Body[d]
    <3>1. PICK d \in Declarers : n \in Body[d]
      BY <2>1
    <3>2. Retained[d].verdict = "marker" => Retained[d] = nodes[d]
      BY <1>1, <3>1, BodyShape DEF NoRecord
    <3> QED
      BY <1>1, <1>3, <3>1, <3>2, SeedsOf
  <2>2. CASE \A d \in Declarers : n \notin Body[d]
    BY <1>1, <2>2, SeedsOf
  <2> QED
    BY <2>1, <2>2
<1>5. ASSUME NEW n \in Node
      PROVE  /\ n \in Standing(Retained) <=> n \in Standing(nodes) /\ n \notin Cleared
             /\ n \in LegSettled(Retained) <=> n \in LegSettled(nodes) /\ n \notin Cleared
  <2>1. CASE n \in Cleared
    <3>1. Retained[n].verdict = "none"
      BY <1>1, <2>1 DEF NoRecord
    <3> QED
      BY <1>1, <2>1, <3>1, OpeningSets
  <2>2. CASE n \notin Cleared
    <3>1. Retained[n] = nodes[n]
      BY <1>1, <2>2
    <3> QED
      BY <1>1, <1>4, <2>2, <3>1, OpeningSets
  <2> QED
    BY <2>1, <2>2
<1>6. ASSUME NEW n \in LegSettled(Retained), NEW p \in Parents[n] PROVE p \in Standing(Retained)
  <2>1. n \in Node /\ p \in Node /\ n \in DependentsOf(p)
    BY GraphAssumption DEF LegSettled, Settled, DependentsOf
  <2>2. n \in LegSettled(nodes) /\ n \notin Cleared /\ p \in Standing(nodes)
    BY <1>5, <2>1 DEF Snapshot
  <2>3. nodes[p].verdict = "PASS" /\ n \in Carried(nodes)
    BY <1>1, <2>1, <2>2, OpeningSets DEF Carried
  <2>4. ASSUME p \in Cleared PROVE FALSE
    <3>1. p \notin FailedToRetry
      BY <2>3 DEF FailedToRetry
    <3>2. PICK d \in Declarers \cap FailedToRetry : nodes[d].round > 0 /\ p \in Body[d]
      BY <2>4, <3>1 DEF Cleared
    <3>3. n \in Body[d]
      BY <2>1, <3>1, <3>2, BodyShape
    <3> QED
      BY <2>2, <2>3, <3>2, <3>3 DEF Cleared
  <2> QED
    BY <1>5, <2>1, <2>2, <2>4
<1>7. ASSUME NEW d \in Declarers, NEW n \in Body[d]
      PROVE  \/ Retained[n].round <= SeedRounds(Retained)[n]
             \/ Retained[d].verdict \in {"PASS", "FAIL"} /\ Retained[n].round <= Retained[d].round
  <2>1. d \in Node /\ n \in Node
    BY BodyShape
  <2>2. /\ SeedRounds(Retained)[n] \in Nat /\ Retained[n].round \in Nat
        /\ nodes[n].round \in Nat /\ nodes[d].round \in Nat
    BY <1>1, <2>1, SeedsOf DEF NodeRecord
  <2>3. CASE n \in Cleared
    BY <1>1, <2>1, <2>2, <2>3 DEF NoRecord
  <2>4. CASE n \notin Cleared /\ d \notin Cleared
    BY <1>1, <1>4, <2>1, <2>4 DEF Snapshot
  <2>5. CASE n \notin Cleared /\ d \in Cleared
    <3>1. d \in FailedToRetry /\ Retained[n] = nodes[n]
      BY <1>1, <1>2, <2>1, <2>5
    <3>2. nodes[d].round > 0 => n \notin Carried(nodes)
      BY <2>5, <3>1 DEF Cleared
    <3>3. n \notin Carried(nodes) => nodes[n].round = 0
      BY <2>1 DEF Carried, Snapshot
    <3>4. nodes[n].round <= SeedRounds(nodes)[n] \/ nodes[n].round <= nodes[d].round
      BY DEF Snapshot
    <3>5. Retained[n].round <= SeedRounds(Retained)[n]
      BY <1>4, <2>1, <2>2, <3>1, <3>2, <3>3, <3>4
    <3> QED
      BY <3>5
  <2> QED
    BY <2>3, <2>4, <2>5
<1>8. /\ \A n \in Node : Retained[n].verdict = "none" => Retained[n].round = 0
      /\ \A n \in Node : Retained[n].verdict = "marker" =>
            n \in Declarers /\ Retained[n].round <= FeedbackMax[n]
      /\ \A n \in Node : (\A d \in Declarers : n \notin Body[d]) => Retained[n].round = 0
  BY <1>1 DEF Snapshot, NoRecord
<1> QED
  BY <1>6, <1>7, <1>8 DEF Snapshot
----------------------------------------------------------------------------
(* A leg keeps its snapshot one a later leg can be opened over. *)

\* In a leg the seeds of its own snapshot never run ahead of its rounds.
LEMMA SeedsInALeg ==
    ASSUME LegInv, NEW n \in Node
    PROVE  /\ nodes \in [Node -> NodeRecord] /\ SeedRounds(nodes)[n] \in Nat /\ rounds[n] \in Nat
           /\ SeedRounds(nodes)[n] <= rounds[n]
           /\ \A d \in Declarers : n \in Body[d] =>
                /\ nodes[d].verdict = "marker" => SeedRounds(nodes)[n] = rounds[n]
                /\ rounds[n] > 0 => nodes[d].verdict = "marker" \/ Final(d)
<1>1. nodes \in [Node -> NodeRecord] /\ rounds \in [Node -> Nat]
  BY DEF LegInv, IInv, TypeOK, NodeRecord
<1>2. ASSUME NEW d \in Declarers, n \in Body[d]
      PROVE  /\ SeedRounds(nodes)[n] = rounds[n] \/ SeedRounds(nodes)[n] = 0
             /\ nodes[d].verdict = "marker" => SeedRounds(nodes)[n] = rounds[n]
             /\ rounds[n] > 0 => nodes[d].verdict = "marker" \/ Final(d)
  <2>1. rounds[n] = rounds[d] /\ d \in Node
    BY <1>2, BodyShape DEF LegInv, Coherent
  <2>2. nodes[d].verdict = "marker" => nodes[d].round = rounds[d]
    BY <2>1 DEF LegInv, Wave, RoundsInv
  <2>3. rounds[d] > 0 => nodes[d].verdict = "marker" \/ Final(d)
    BY DEF LegInv, Coherent
  <2> QED
    BY <1>1, <1>2, <2>1, <2>2, <2>3, SeedsOf
<1> QED
  BY <1>1, <1>2, SeedsOf

\* A node at work has no pass that stands, and its inputs have.
LEMMA AtWork ==
    ASSUME LegInv, NEW n \in Node, phase[n] \in {"running", "rejecting"}, ~Final(n)
    PROVE  /\ n \notin Standing(nodes) /\ \A a \in Ancestors[n] : Done(a)
           /\ \A p \in Parents[n] : p \in Node /\ p # n /\ Done(p)
<1>1. Started(n) /\ (n \in Declarers => ~Quiet(n))
  BY DEF Started, Live, Quiet
<1>2. \A a \in Ancestors[n] : Done(a)
  BY <1>1, AncestorsDone DEF LegInv
<1>3. \A p \in Parents[n] : p \in Node /\ p # n /\ Done(p)
  BY <1>2, ParentIsAncestor, GraphAssumption
<1>4. ASSUME n \in Standing(nodes) PROVE FALSE
  <2>1. nodes[n].verdict = "PASS" /\ nodes[n].round >= SeedRounds(nodes)[n] /\ nodes[n].round \in Nat
    BY <1>4, SeedsInALeg, OpeningSets DEF NodeRecord
  <2>2. nodes[n].round < rounds[n]
    BY <2>1, SeedsInALeg DEF Final, Done
  <2>3. rounds[n] > 0
    BY <2>1, <2>2, SeedsInALeg
  <2>4. PICK d \in Declarers : n \in Body[d]
    BY <2>3 DEF LegInv, Wave, RoundsInv
  <2>5. nodes[d].verdict # "marker"
    BY <2>1, <2>2, <2>4, SeedsInALeg
  <2>6. Final(d) /\ d # n /\ d \in Node
    BY <2>3, <2>4, <2>5, SeedsInALeg, BodyShape
  <2>7. ~Quiet(d)
    BY <2>4, <2>6 DEF Quiet
  <2>8. Done(n)
    BY <2>4, <2>6, <2>7, BodyShape, AncestorsDone DEF LegInv, Started
  <2> QED
    BY <2>8 DEF Final
<1> QED
  BY <1>2, <1>3, <1>4

\* n gets its verdict: in its loop or, for a declarer, over it, seeds only fall.
Closes(n) ==
    /\ phase[n] \in {"running", "rejecting"} /\ ~Final(n)
    /\ nodes'[n].verdict \in {"PASS", "FAIL"}
    /\ \A m \in Node \ {n} : nodes'[m] = nodes[m]

LEMMA ClosesStanding ==
    ASSUME LegInv, nodes' \in [Node -> NodeRecord], Snapshot(nodes), NEW n \in Node, Closes(n)
    PROVE  \A x \in LegSettled(nodes') : Parents[x] \subseteq Standing(nodes')
<1>1. nodes \in [Node -> NodeRecord]
  BY SeedsInALeg
<1>2. ASSUME NEW m \in Node
      PROVE  /\ SeedRounds(nodes')[m] <= SeedRounds(nodes)[m]
             /\ SeedRounds(nodes')[m] # SeedRounds(nodes)[m] => n \in Declarers /\ m \in Body[n]
  <2>1. CASE \A d \in Declarers : m \notin Body[d]
    BY <1>1, <2>1, SeedsOf
  <2>2. ASSUME NEW d \in Declarers, m \in Body[d], d # n
        PROVE  SeedRounds(nodes')[m] = SeedRounds(nodes)[m]
    <3>1. nodes'[d] = nodes[d]
      BY <2>2, BodyShape DEF Closes
    <3> QED
      BY <1>1, <2>2, <3>1, SeedsOf
  <2>3. ASSUME n \in Declarers, m \in Body[n] PROVE SeedRounds(nodes')[m] = 0
    BY <1>1, <2>3, SeedsOf DEF Closes
  <2>4. SeedRounds(nodes)[m] \in Nat
    BY <1>1, SeedsOf
  <2> QED
    BY <2>1, <2>2, <2>3, <2>4
<1>3. n \notin Standing(nodes) /\ (\A a \in Ancestors[n] : Done(a))
      /\ \A p \in Parents[n] : p \in Node /\ p # n /\ Done(p)
  BY AtWork DEF Closes
<1>4. ASSUME NEW p \in Node, p # n, p \in Standing(nodes) \/ Done(p)
      PROVE  p \in Standing(nodes')
  <2>1. nodes'[p] = nodes[p] /\ nodes[p].round \in Nat
    BY <1>1, <1>4 DEF Closes, NodeRecord
  <2>2. nodes[p].verdict = "PASS" /\ nodes[p].round >= SeedRounds(nodes)[p]
    BY <1>1, <1>4, <2>1, OpeningSets, SeedsInALeg DEF Done
  <2>3. SeedRounds(nodes)[p] \in Nat /\ SeedRounds(nodes')[p] \in Nat
    BY <1>1, SeedsOf
  <2> QED
    BY <1>2, <2>1, <2>2, <2>3, OpeningSets
<1>5. ASSUME NEW x \in LegSettled(nodes'), NEW p \in Parents[x] PROVE p \in Standing(nodes')
  <2>1. x \in Node /\ p \in Node
    BY GraphAssumption DEF LegSettled, Settled
  <2>2. CASE x = n
    BY <1>3, <1>4, <2>1, <2>2
  <2>3. CASE x # n /\ x \in LegSettled(nodes)
    <3>1. p \in Standing(nodes)
      BY <2>3 DEF Snapshot
    <3>2. p # n
      BY <1>3, <3>1
    <3> QED
      BY <1>4, <2>1, <3>1, <3>2
  <2>4. CASE x # n /\ x \notin LegSettled(nodes)
    <3>1. nodes'[x] = nodes[x] /\ nodes[x].verdict \in {"PASS", "FAIL"} /\ nodes[x].round \in Nat
      BY <1>1, <2>1, <2>4, OpeningSets DEF Closes, NodeRecord
    <3>2. nodes[x].round < SeedRounds(nodes)[x] /\ nodes[x].round >= SeedRounds(nodes')[x]
      BY <1>1, <2>1, <2>4, <3>1, OpeningSets, SeedsOf
    <3>3. n \in Declarers /\ x \in Body[n] \ {n}
      <4>1. SeedRounds(nodes)[x] \in Nat /\ SeedRounds(nodes')[x] \in Nat
        BY <1>1, <2>1, SeedsOf
      <4>2. SeedRounds(nodes')[x] # SeedRounds(nodes)[x]
        BY <3>1, <3>2, <4>1
      <4> QED
        BY <1>2, <2>1, <2>4, <4>2
    <3>4. Done(x)
      BY <1>3, <3>3, BodyShape
    <3> QED
      BY <2>1, <3>1, <3>2, <3>4, SeedsInALeg DEF Done
  <2> QED
    BY <2>2, <2>3, <2>4
<1> QED
  BY <1>5

\* An arc that fires withdraws every verdict of its body at one stroke.
LEMMA FiresStanding ==
    ASSUME LegInv, nodes' \in [Node -> NodeRecord], Snapshot(nodes), NEW n \in Declarers, Fires(n)
    PROVE  \A x \in LegSettled(nodes') : Parents[x] \subseteq Standing(nodes')
<1>1. /\ n \in Node /\ n \in Body[n] /\ Body[n] \subseteq Node
      /\ \A m \in Body[n] \ {n} : DependentsOf(m) \subseteq Body[n]
      /\ \A e \in Declarers \ {n} : Body[n] \cap Body[e] = {}
  BY BodyShape
<1>2. nodes \in [Node -> NodeRecord] /\ rounds \in [Node -> Nat]
  BY DEF LegInv, IInv, TypeOK, NodeRecord
<1>3. /\ nodes'[n].round = rounds[n] + 1 /\ nodes'[n].verdict = "marker"
      /\ \A m \in Node \ {n} : nodes'[m] = nodes[m]
  <2>1. Record(n, "marker", rounds[n] + 1, "own") /\ rounds[n] + 1 \in Nat
    BY <1>1, <1>2 DEF Fires
  <2> QED
    BY <1>1, <2>1, RecordEffect DEF LegInv, IInv, Verdict
<1>4. \A m \in Body[n] : SeedRounds(nodes')[m] = rounds[n] + 1
  BY <1>3, SeedsOf
<1>5. ASSUME NEW m \in Node \ Body[n] PROVE SeedRounds(nodes')[m] = SeedRounds(nodes)[m]
  <2>1. CASE \A d \in Declarers : m \notin Body[d]
    BY <1>2, <2>1, SeedsOf
  <2>2. ASSUME NEW d \in Declarers, m \in Body[d]
        PROVE  SeedRounds(nodes')[m] = SeedRounds(nodes)[m]
    <3>1. d # n /\ nodes'[d] = nodes[d]
      BY <1>3, <1>5, <2>2, BodyShape
    <3> QED
      BY <1>2, <2>2, <3>1, SeedsOf
  <2> QED
    BY <2>1, <2>2
<1>6. n \notin Standing(nodes)
  BY <1>1, AtWork DEF Fires
<1>7. \A m \in Body[n] : nodes[m].round <= rounds[n] /\ nodes[m].round \in Nat
  BY BodyRounds DEF Fires, LegInv
<1>8. ASSUME NEW x \in LegSettled(nodes'), NEW p \in Parents[x] PROVE p \in Standing(nodes')
  <2>1. x \in Node /\ p \in Node /\ x \in DependentsOf(p)
    BY GraphAssumption DEF LegSettled, Settled, DependentsOf
  <2>2. x # n
    BY <1>1, <1>3, <1>8, OpeningSets
  <2>3. x \notin Body[n]
    <3>1. nodes'[x] = nodes[x] /\ nodes'[x].round >= SeedRounds(nodes')[x] /\ rounds[n] \in Nat
      BY <1>1, <1>2, <1>3, <1>8, <2>1, <2>2, OpeningSets
    <3> QED
      BY <1>4, <1>7, <3>1
  <2>4. x \in LegSettled(nodes)
    BY <1>2, <1>3, <1>5, <1>8, <2>1, <2>2, <2>3, OpeningSets
  <2>5. p \in Standing(nodes) /\ p # n
    BY <1>6, <2>4 DEF Snapshot
  <2>6. p \notin Body[n]
    BY <1>1, <2>1, <2>3, <2>5
  <2> QED
    BY <1>2, <1>3, <1>5, <2>1, <2>5, <2>6, OpeningSets
<1> QED
  BY <1>8

LEMMA SnapshotStep ==
    ASSUME LegInv, LegInv', Snapshot(nodes), [Next]_vars
    PROVE  Snapshot(nodes')
<1>1. nodes \in [Node -> NodeRecord] /\ nodes' \in [Node -> NodeRecord] /\ TypeOK
  BY DEF LegInv, IInv, TypeOK, NodeRecord
<1>2. \/ UNCHANGED nodes
      \/ \E n \in Node : Settles(n) \/ Fires(n) \/ FiresUnwritten(n)
  BY RecordingSteps DEF LegInv
<1>3. ASSUME NEW n \in Node, Settles(n) PROVE Closes(n)
  <2>1. PICK verdict \in {"PASS", "FAIL"}, detail \in Node \cup {Nobody, "own"} :
            Record(n, verdict, rounds[n], detail)
    BY <1>3 DEF Settles
  <2>2. rounds[n] \in Nat
    BY DEF LegInv, IInv, TypeOK
  <2> QED
    BY <1>1, <1>3, <2>1, <2>2, RecordEffect DEF Settles, Closes, Verdict
<1>4. ASSUME NEW n \in Node, FiresUnwritten(n) PROVE Closes(n)
  BY <1>4 DEF FiresUnwritten, Closes
<1>5. \A x \in LegSettled(nodes') : Parents[x] \subseteq Standing(nodes')
  <2>1. CASE UNCHANGED nodes
    BY <2>1 DEF Snapshot
  <2>2. CASE \E n \in Node : Settles(n) \/ FiresUnwritten(n)
    BY <1>1, <1>3, <1>4, <2>2, ClosesStanding
  <2>3. CASE \E n \in Node : Fires(n)
    BY <1>1, <2>3, FiresStanding DEF Fires
  <2> QED
    BY <1>2, <2>1, <2>2, <2>3
<1>6. \A n \in Node : nodes'[n].verdict = "none" => nodes'[n].round = 0
  <2>1. ASSUME NEW n \in Node, Fires(n)
        PROVE  nodes'[n].verdict = "marker" /\ \A m \in Node \ {n} : nodes'[m] = nodes[m]
    <3>1. Record(n, "marker", rounds[n] + 1, "own") /\ rounds[n] + 1 \in Nat
      BY <2>1 DEF Fires, LegInv, IInv, TypeOK
    <3> QED
      BY <1>1, <3>1, RecordEffect DEF Verdict
  <2>2. ASSUME NEW n \in Node, Settles(n) \/ Fires(n) \/ FiresUnwritten(n)
        PROVE  nodes'[n].verdict # "none" /\ \A m \in Node \ {n} : nodes'[m] = nodes[m]
    BY <1>3, <1>4, <2>1, <2>2 DEF Closes
  <2> QED
    BY <1>2, <2>2 DEF Snapshot
<1>7. ASSUME NEW n \in Node, nodes'[n].verdict = "marker"
      PROVE  n \in Declarers /\ nodes'[n].round <= FeedbackMax[n]
  <2>1. n \in Declarers /\ nodes'[n].round = rounds'[n]
    BY <1>7 DEF LegInv, Wave, RoundsInv
  <2> QED
    BY <2>1, BodyType DEF LegInv, Coherent
<1>8. ASSUME NEW d \in Declarers, NEW n \in Body[d]
      PROVE  \/ nodes'[n].round <= SeedRounds(nodes')[n]
             \/ nodes'[d].verdict \in {"PASS", "FAIL"} /\ nodes'[n].round <= nodes'[d].round
  <2>1. d \in Node /\ n \in Node /\ d \in Body[d]
    BY BodyShape
  <2>2. /\ rounds'[n] \in Nat /\ nodes'[n].round \in Nat /\ nodes'[d].round \in Nat
        /\ rounds'[n] = rounds'[d]
        /\ nodes'[n].round <= rounds'[n] \/ (Final(d)' /\ nodes'[n].round <= nodes'[d].round)
        /\ rounds'[d] > 0 => nodes'[d].verdict = "marker" \/ Final(d)'
        /\ nodes'[d].verdict = "marker" => nodes'[d].round = rounds'[d]
    BY <2>1 DEF LegInv, IInv, TypeOK, Coherent, Wave, RoundsInv
  <2>3. SeedRounds(nodes')[n] = IF nodes'[d].verdict = "marker" THEN nodes'[d].round ELSE 0
    BY <1>1, SeedsOf
  <2>4. Final(d)' => nodes'[d].verdict \in {"PASS", "FAIL"} /\ nodes'[d].round >= rounds'[d]
    BY DEF Final, Done, Failed
  <2> QED
    BY <2>2, <2>3, <2>4
<1>9. \A n \in Node : (\A d \in Declarers : n \notin Body[d]) => nodes'[n].round = 0
  BY DEF LegInv, Coherent
<1> QED
  BY <1>5, <1>6, <1>7, <1>8, <1>9 DEF Snapshot
----------------------------------------------------------------------------
(* Decisions at gates, over all legs. *)

\* Every gate behind which n lies has passed.
Allowed(n, recs) == \A g \in Gates \cap Ancestors[n] : recs[g].verdict = "PASS"

\* Nothing is launched or recorded behind a gate that did not pass.
BehindGates ==
    /\ \A n \in Node : nodes[n].verdict # "none" => Allowed(n, nodes)
    /\ \A n \in Node : Live(n) => Allowed(n, nodes)

\* A gate passes on an approval given to this run, and never once rejected;
\* only a gate whose answer is to wait pauses a leg.
Decided ==
    /\ \A g \in Gates :
        /\ \/ controller[g] = "approve" \/ decisions[g] = "approve"
           \/ nodes[g].verdict = "PASS"
           => g \in autoApprove \cup answered
        /\ decisions[g] = "reject" => controller[g] = "reject"
        /\ controller[g] = "reject" => nodes[g].verdict # "PASS"
        /\ pausedAt = g => controller[g] = "pause"
    /\ gatePausedAt # Nobody => decisions[gatePausedAt] = "pause"

\* A node behind what passed is behind no other gate than that has passed.
LEMMA AllowedByParents ==
    ASSUME NEW n \in Node, NEW recs,
           \A p \in Parents[n] : recs[p].verdict = "PASS" /\ Allowed(p, recs)
    PROVE  Allowed(n, recs)
<1> SUFFICES ASSUME NEW g \in Gates, g \in Ancestors[n] PROVE recs[g].verdict = "PASS"
  BY DEF Allowed
<1>1. PICK p \in Parents[n] : p = g \/ g \in Ancestors[p]
  BY ThroughAParent
<1> QED
  BY <1>1 DEF Allowed

\* No step of a leg takes a gate's pass back, and one passes on an approval only.
LEMMA GatePasses ==
    ASSUME LegInv, [Next]_vars, NEW g \in Gates
    PROVE  /\ nodes[g].verdict = "PASS" => nodes'[g] = nodes[g]
           /\ nodes'[g].verdict = "PASS" => nodes[g].verdict = "PASS" \/ controller[g] = "approve"
<1>1. /\ g \in Node /\ rounds[g] = 0 /\ nodes[g].round \in Nat /\ TypeOK
      /\ nodes \in [Node -> NodeRecord] /\ Explain \in Node \cup {Nobody}
  BY GateRounds, GraphAssumption DEF LegInv, Wave, IInv, TypeOK, NodeRecord, Explain
<1>2. ASSUME NEW n \in Node, Settles(n) \/ Fires(n) \/ FiresUnwritten(n)
      PROVE  ~Final(n) /\ \A m \in Node \ {n} : nodes'[m] = nodes[m]
  BY <1>1, <1>2 DEF Settles, Fires, FiresUnwritten, Record, RecordNode
<1>3. nodes[g].verdict = "PASS" => Final(g)
  BY <1>1 DEF Final, Done
<1>4. nodes[g].verdict = "PASS" => nodes'[g] = nodes[g]
  BY <1>1, <1>2, <1>3, RecordingSteps DEF LegInv
<1>5. ASSUME NEW n \in Node,
             Pass(n) \/ \E kind \in FailKind : Fail(n, kind) \/ FireArc(n, kind) \/ MarkerUnwritten(n, kind)
      PROVE  nodes'[g] = nodes[g]
  BY <1>1, <1>5 DEF Pass, Fail, FireArc, MarkerUnwritten, Running, Record, RecordNode
<1>6. ASSUME NEW n \in Node, GateRejected(n)
      PROVE  nodes'[g] = nodes[g] \/ nodes'[g].verdict = "FAIL"
  <2>1. nodes'[n].verdict = "FAIL" /\ \A m \in Node \ {n} : nodes'[m] = nodes[m]
    BY <1>1, <1>6, RecordEffect DEF GateRejected, Verdict, LegInv, IInv, TypeOK
  <2> QED
    BY <1>1, <2>1
<1>7. ASSUME NEW n \in Node, GateApprove(n)
      PROVE  nodes'[g] = nodes[g] \/ controller[g] = "approve"
  BY <1>1, <1>7 DEF GateApprove, Record, RecordNode
<1>8. ASSUME NEW n \in Node,
             \/ Start(n) \/ Skip(n) \/ Limited(n)
             \/ \E kind \in FailKind : RetryAttempt(n, kind)
             \/ ReadPauseFired(n) \/ Rearm(n) \/ GateApproved(n) \/ GateReject(n)
             \/ GatePause(n) \/ ReadPause(n) \/ (\E d \in Node : Release(n, d))
             \/ Prune(n) \/ HaltNote(n) \/ HaltReturn(n)
      PROVE  UNCHANGED nodes
  BY <1>8 DEF Start, Skip, Limited, RetryAttempt, ReadPauseFired, Rearm, GateApproved,
     GateReject, GatePause, ReadPause, Release, Prune, HaltNote, HaltReturn
<1>9. ASSUME Interrupt \/ Finish \/ Returned \/ UNCHANGED vars PROVE UNCHANGED nodes
  BY <1>9 DEF Interrupt, Finish, Returned, vars
<1> QED
  BY <1>4, <1>5, <1>6, <1>7, <1>8, <1>9 DEF Next, NodeStep

\* A goroutine appears where there was none only by a release or a re-arming,
\* and a node that has none gets no record.
LEMMA Launches ==
    ASSUME LegInv, [Next]_vars, NEW n \in Node, ~Live(n)
    PROVE  nodes'[n] = nodes[n] /\ (Live(n)' => UNCHANGED nodes /\ queued'[n] > 0)
<1>1. /\ queued \in [Node -> Nat] /\ phase \in [Node -> Phase] /\ nodes \in [Node -> NodeRecord]
      /\ queued[n] = 0 /\ phase[n] = "idle"
  BY DEF LegInv, IInv, TypeOK, NodeRecord, Live
<1>2. nodes'[n] = nodes[n]
  <2>1. ASSUME NEW m \in Node, Settles(m) \/ Fires(m) \/ FiresUnwritten(m)
        PROVE  phase[m] # "idle" /\ \A k \in Node \ {m} : nodes'[k] = nodes[k]
    BY <1>1, <2>1 DEF Settles, Fires, FiresUnwritten, Record, RecordNode
  <2> QED
    BY <1>1, <2>1, RecordingSteps DEF LegInv
<1>3. ASSUME NEW m \in Node, Rearm(m) \/ \E d \in Node : Release(m, d)
      PROVE  UNCHANGED nodes /\ (Live(n)' => queued'[n] > 0)
  <2>1. UNCHANGED nodes /\ m # n /\ phase' = [phase EXCEPT ![m] = phase'[m]]
    BY <1>1, <1>3 DEF Rearm, Release, Goto
  <2> QED
    BY <1>1, <2>1 DEF Live
<1>4. ASSUME NEW m \in Node, NodeStep(m), ~Rearm(m), ~\E d \in Node : Release(m, d)
      PROVE  ~Live(n)'
  <2>1. m # n
    BY <1>4, NodeStepNeeds
  <2>2. phase'[n] = phase[n] /\ queued'[n] = queued[n]
    BY <1>1, <1>4, <2>1 DEF NodeStep, Start, Skip, Pass, Limited, RetryAttempt, Fail, FireArc,
       MarkerUnwritten, ReadPauseFired, GateApprove, GateApproved, GateReject, GateRejected,
       GatePause, ReadPause, Prune, HaltNote, HaltReturn, Goto
  <2> QED
    BY <1>1, <2>2 DEF Live
<1>5. CASE Interrupt \/ Finish \/ Returned \/ UNCHANGED vars
  BY <1>1, <1>5 DEF Interrupt, Finish, Returned, vars, Live
<1> QED
  BY <1>2, <1>3, <1>4, <1>5 DEF Next

LEMMA BehindGatesStep ==
    ASSUME LegInv, LegInv', BehindGates, [Next]_vars
    PROVE  BehindGates'
<1>1. ASSUME NEW n \in Node, Allowed(n, nodes) PROVE Allowed(n, nodes')
  BY <1>1, GatePasses DEF Allowed
<1>2. ASSUME NEW n \in Node, nodes'[n].verdict # "none" \/ Live(n)' PROVE Allowed(n, nodes')
  <2>1. CASE nodes[n].verdict # "none" \/ Live(n)
    BY <1>1, <2>1 DEF BehindGates
  <2>2. CASE nodes[n].verdict = "none" /\ ~Live(n)
    <3>1. UNCHANGED nodes /\ queued'[n] > 0
      BY <1>2, <2>2, Launches
    <3>2. FreshInputs'
      <4>1. Wave'
        BY DEF LegInv
      <4> QED
        BY <4>1, WaveFresh, PTL
    <3>3. \A p \in Parents[n] : p \in Node /\ nodes'[p].verdict = "PASS"
      BY <3>1, <3>2, GraphAssumption DEF FreshInputs, Consuming
    <3>4. \A p \in Parents[n] : Allowed(p, nodes')
      BY <3>1, <3>3 DEF BehindGates
    <3> QED
      BY <3>3, <3>4, AllowedByParents
  <2> QED
    BY <2>1, <2>2
<1> QED
  BY <1>2 DEF BehindGates

LEMMA DecidedStep ==
    ASSUME LegInv, EndInv', Decided, [Next]_vars, UNCHANGED runVars
    PROVE  /\ Decided'
           /\ \A g \in Gates : decisions[g] = "reject" => decisions'[g] = "reject"
<1>1. /\ decisions \in [Gates -> Decision] /\ Gates \subseteq Node
      /\ gatePausedAt \in Gates \cup {Nobody} /\ pausedAt \in Gates \cup {Nobody}
      /\ Nobody \notin Gates
  BY GraphAssumption, NobodyAssumption DEF LegInv, IInv, TypeOK
<1>2. UNCHANGED controller
  BY DEF Next, NodeStep, Start, Skip, Pass, Limited, RetryAttempt, Fail, FireArc, MarkerUnwritten,
     ReadPauseFired, Rearm, GateApprove, GateApproved, GateReject, GateRejected, GatePause,
     ReadPause, Release, Prune, HaltNote, HaltReturn, Interrupt, Finish, Returned, vars
<1>3. ASSUME NEW g \in Gates, pausedAt' = g PROVE pausedAt = g \/ controller[g] = "pause"
  BY <1>1, <1>3 DEF Next, NodeStep, Start, Skip, Pass, Limited, RetryAttempt, Fail, FireArc,
     MarkerUnwritten, ReadPauseFired, Rearm, GateApprove, GateApproved, GateReject, GateRejected,
     GatePause, ReadPause, Release, Prune, HaltNote, HaltReturn, Interrupt, Finish, Returned, vars,
     AtGate
<1>4. ASSUME NEW g \in Gates
      PROVE  \/ decisions'[g] = decisions[g]
             \/ decisions'[g] = "approve" /\ nodes[g].verdict = "PASS"
             \/ decisions'[g] = "reject" /\ controller[g] = "reject"
             \/ decisions'[g] = "pause" /\ controller[g] = "pause"
  <2>1. ASSUME NEW n \in Node, GateApproved(n)
        PROVE  \/ decisions'[g] = decisions[g]
               \/ decisions'[g] = "approve" /\ nodes[g].verdict = "PASS"
    <3>1. Done(n)
      BY <2>1 DEF GateApproved, LegInv, Wave, Goroutine
    <3> QED
      BY <1>1, <2>1, <3>1 DEF GateApproved, Done
  <2>2. ASSUME NEW n \in Node, GateReject(n)
        PROVE  \/ decisions'[g] = decisions[g]
               \/ decisions'[g] = "reject" /\ controller[g] = "reject"
    BY <1>1, <2>2 DEF GateReject
  <2>3. ASSUME Finish
        PROVE  \/ decisions'[g] = decisions[g]
               \/ decisions'[g] = "pause" /\ controller[g] = "pause"
    BY <1>1, <2>3 DEF Finish, Decided
  <2>4. ASSUME NEW n \in Node, NodeStep(n), ~GateApproved(n), ~GateReject(n)
        PROVE  UNCHANGED decisions
    BY <2>4 DEF NodeStep, Start, Skip, Pass, Limited, RetryAttempt, Fail, FireArc, MarkerUnwritten,
       ReadPauseFired, Rearm, GateApprove, GateRejected, GatePause, ReadPause, Release, Prune,
       HaltNote, HaltReturn
  <2>5. ASSUME Interrupt \/ Returned \/ UNCHANGED vars PROVE UNCHANGED decisions
    BY <2>5 DEF Interrupt, Returned, vars
  <2> QED
    BY <2>1, <2>2, <2>3, <2>4, <2>5 DEF Next
<1>5. gatePausedAt' # Nobody => decisions'[gatePausedAt'] = "pause"
  BY DEF EndInv
<1>6. ASSUME NEW g \in Gates
      PROVE  /\ \/ controller'[g] = "approve" \/ decisions'[g] = "approve"
                \/ nodes'[g].verdict = "PASS"
                => g \in autoApprove' \cup answered'
             /\ decisions'[g] = "reject" => controller'[g] = "reject"
             /\ controller'[g] = "reject" => nodes'[g].verdict # "PASS"
             /\ pausedAt' = g => controller'[g] = "pause"
             /\ decisions[g] = "reject" => decisions'[g] = "reject"
  BY <1>2, <1>3, <1>4, GatePasses DEF Decided
<1> QED
  BY <1>5, <1>6 DEF Decided
----------------------------------------------------------------------------
(* The inductive invariant. *)

\* A gate the snapshot is paused at is still to be run, and can be.
PauseStands == gatePausedAt # Nobody =>
    /\ nodes[gatePausedAt].verdict = "none"
    /\ \A p \in Parents[gatePausedAt] : nodes[p].verdict = "PASS"

\* What the run's last word and its snapshot say of a pause.
OneAnswer == process = "gone" /\ finished # "none" =>
    (finished = "paused" <=> gatePausedAt # Nobody \/ limitPause # {})

RunInv ==
    /\ RunTypes
    /\ process = "leg" => Coherent /\ Wave /\ EndInv /\ finished = "none"
    /\ process = "gone" => AllReturned
    /\ Snapshot(nodes) /\ BehindGates /\ Decided
    /\ NothingForgotten /\ PauseStands /\ OneAnswer

LEMMA PauseStandsEnds == LegInv /\ EndInv => PauseStands
<1> SUFFICES ASSUME LegInv, EndInv, gatePausedAt # Nobody PROVE PauseStands
  BY DEF PauseStands
<1>1. outcome = "paused" /\ gatePausedAt \in Gates /\ gatePausedAt \in Node
  BY GraphAssumption DEF EndInv, LegInv, IInv, TypeOK
<1> DEFINE g == gatePausedAt
<1>2. /\ nodes[g].verdict \in {"none", "marker"} \/ nodes[g].round < rounds[g]
      /\ \A p \in Parents[g] : nodes[p].verdict = "PASS"
  BY <1>1, PausedIsResumableEnds DEF PausedIsResumable
<1>3. rounds[g] = 0 /\ nodes[g].round \in Nat
  BY <1>1, GateRounds DEF LegInv, IInv, TypeOK, Wave
<1>4. nodes[g].verdict # "marker"
  BY <1>1, FeedbackAssumption DEF LegInv, Wave, RoundsInv
<1> QED
  BY <1>2, <1>3, <1>4 DEF PauseStands

LEMMA RunInvInit == RunInit => RunInv
<1> SUFFICES ASSUME RunInit PROVE RunInv
  OBVIOUS
<1>1. Init /\ process = "leg" /\ finished = "none"
  BY DEF RunInit
<1>2. RunTypes
  BY <1>1, InitTyped, LegAssumption DEF RunInit, RunTypes, RunTypeOK, IInv
<1>3. LegInv
  BY <1>1, InitLeg
<1>4. \A n \in Node : /\ nodes[n].verdict = "none" /\ nodes[n].round = 0 /\ phase[n] = "idle"
                      /\ queued[n] > 0 => Parents[n] = {}
  BY <1>1 DEF Init, NothingDone, NoRecord, LegQueued, ReadyGiven
<1>5. EndInv /\ NothingForgotten
  BY <1>1 DEF Init, NothingDone, EndInv, NothingForgotten
<1>6. Snapshot(nodes)
  <2>1. LegSettled(nodes) = {} /\ \A n \in Node : SeedRounds(nodes)[n] \in Nat
    BY <1>3, <1>4, SeedsInALeg DEF LegSettled, Settled
  <2>2. \A d \in Declarers : \A n \in Body[d] : n \in Node
    BY BodyType
  <2> QED
    BY <1>4, <2>1, <2>2 DEF Snapshot
<1>7. BehindGates
  <2>1. ASSUME NEW n \in Node, Live(n) PROVE Allowed(n, nodes)
    <3>1. Parents[n] = {}
      BY <1>4, <2>1 DEF Live
    <3> QED
      BY <3>1, AllowedByParents
  <2> QED
    BY <1>4, <2>1 DEF BehindGates
<1>8. Decided
  <2>1. /\ \A g \in Gates : decisions[g] = "none" /\ controller[g] \in {"approve", "pause"}
        /\ pausedAt = Nobody /\ gatePausedAt = Nobody
        /\ autoApprove = {g \in Gates : controller[g] = "approve"}
    BY <1>1 DEF Init, NothingDone, AutoApprove, RunInit
  <2> QED
    BY <1>4, <2>1, GraphAssumption, NobodyAssumption DEF Decided
<1>9. PauseStands /\ OneAnswer
  BY <1>1 DEF Init, NothingDone, PauseStands, OneAnswer
<1> QED
  BY <1>1, <1>2, <1>3, <1>5, <1>6, <1>7, <1>8, <1>9 DEF RunInv, LegInv

\* While its process lives a leg keeps what every leg keeps.
LEMMA LegKeeps ==
    ASSUME RunInv, process = "leg", [Next]_vars, UNCHANGED runVars, RunTypes'
    PROVE  RunInv'
<1>1. LegInv /\ EndInv /\ finished = "none"
  BY DEF RunInv, RunTypes, RunTypeOK, LegInv, IInv
<1>2. LegInv' /\ EndInv'
  BY <1>1, LegInvStep, EndStep DEF LegInv
<1>3. NothingForgotten' /\ PauseStands'
  <2>1. LegInv' /\ EndInv'
    BY <1>2
  <2> QED
    BY <2>1, NothingForgottenEnds, PauseStandsEnds, PTL
<1>4. Snapshot(nodes')
  BY <1>1, <1>2, SnapshotStep DEF RunInv
<1>5. BehindGates' /\ Decided'
  BY <1>1, <1>2, BehindGatesStep, DecidedStep DEF RunInv
<1>6. Snapshot(nodes)' <=> Snapshot(nodes')
  BY DEF Snapshot
<1> QED
  BY <1>1, <1>2, <1>3, <1>4, <1>5, <1>6 DEF RunInv, LegInv, OneAnswer

\* When a process ends, what it recorded stands as it was written.
LEMMA GoneKeeps ==
    ASSUME RunInv, RunTypes', process' = "gone", AllReturned', OneAnswer',
           UNCHANGED <<nodes, rounds, controller, pausedAt, outcome, autoApprove, answered>>,
           UNCHANGED gateSnap \/ ClearPause
    PROVE  RunInv'
<1>1. TypeOK /\ Nobody \notin Gates
  BY NobodyAssumption, GraphAssumption DEF RunInv, RunTypes, RunTypeOK
<1>2. Snapshot(nodes)' /\ NothingForgotten'
  <2>1. Snapshot(nodes')
    BY DEF RunInv
  <2>2. Snapshot(nodes)' <=> Snapshot(nodes')
    BY DEF Snapshot
  <2>3. NothingForgotten'
    BY DEF RunInv, NothingForgotten
  <2> QED
    BY <2>1, <2>2, <2>3
<1>3. BehindGates'
  <2>1. \A n \in Node : ~Live(n)'
    BY DEF AllReturned, Live, RunTypes, RunTypeOK, TypeOK
  <2> QED
    BY <2>1 DEF RunInv, BehindGates, Allowed
<1>4. PauseStands'
  BY DEF RunInv, PauseStands, ClearPause
<1>5. \A g \in Gates : \/ decisions'[g] = decisions[g]
                       \/ decisions'[g] = "none" /\ decisions[g] = "pause"
  BY DEF ClearPause
<1>6. Decided'
  BY <1>1, <1>5 DEF RunInv, Decided, ClearPause
<1> QED
  BY <1>2, <1>3, <1>4, <1>6 DEF RunInv

LEMMA CloseKeeps ==
    ASSUME RunInv, RunTypes', CloseLeg
    PROVE  RunInv' /\ \A g \in Gates : decisions[g] = "reject" => decisions'[g] = "reject"
<1>1. EndInv /\ finished = "none" /\ outcome # "open" /\ TypeOK
  BY DEF RunInv, CloseLeg, RunTypes, RunTypeOK
<1>2. AllReturned' /\ process' = "gone"
  BY <1>1 DEF CloseLeg, EndInv, AllReturned
<1>3. UNCHANGED gateSnap \/ ClearPause
  BY DEF CloseLeg
<1>4. PICK late \in {FALSE, AllowInterrupt}, forbidden \in {FALSE, ForbidRemoteChanges} :
        LET overridden == (cancelled \/ late \/ forbidden)
                          /\ outcome \in {"passed", "paused", "limited"}
        IN /\ finished' = IF overridden \/ outcome \in {"halted", "pruned"} THEN "failed"
                          ELSE IF outcome = "passed" THEN "passed" ELSE "paused"
           /\ IF overridden THEN ClearPause ELSE UNCHANGED gateSnap
  BY DEF CloseLeg
<1>5. OneAnswer'
  <2>1. CASE (cancelled \/ late \/ forbidden) /\ outcome \in {"passed", "paused", "limited"}
    <3>1. finished' = "failed" /\ ClearPause
      BY <1>4, <2>1
    <3> QED
      BY <3>1 DEF OneAnswer, ClearPause
  <2>2. CASE ~((cancelled \/ late \/ forbidden) /\ outcome \in {"passed", "paused", "limited"})
    <3>1. /\ finished' = IF outcome \in {"halted", "pruned"} THEN "failed"
                         ELSE IF outcome = "passed" THEN "passed" ELSE "paused"
          /\ UNCHANGED gateSnap
      BY <1>4, <2>2
    <3>2. outcome = LegOutcome /\ outcome \in {"halted", "paused", "limited", "pruned", "passed"}
      BY <1>1 DEF EndInv, LegOutcome
    <3>3. gatePausedAt # Nobody <=> outcome = "paused"
      BY <1>1, <3>2 DEF EndInv, LegOutcome
    <3>4. outcome # "paused" => (limitPause # {} <=> outcome = "limited")
      BY <1>1, <3>2 DEF EndInv, LegOutcome
    <3> QED
      BY <3>1, <3>2, <3>3, <3>4 DEF OneAnswer
  <2> QED
    BY <2>1, <2>2
<1>6. RunInv'
  BY <1>2, <1>3, <1>5, GoneKeeps DEF CloseLeg
<1>7. \A g \in Gates : decisions[g] = "reject" => decisions'[g] = "reject"
  BY <1>3 DEF ClearPause
<1> QED
  BY <1>6, <1>7

LEMMA CrashKeeps ==
    ASSUME RunInv, RunTypes', Crash
    PROVE  RunInv'
<1>1. finished = "none" /\ UNCHANGED finished
  BY DEF RunInv, Crash
<1>2. AllReturned' /\ OneAnswer' /\ process' = "gone"
  BY <1>1 DEF Crash, AllReturned, OneAnswer
<1> QED
  BY <1>2, GoneKeeps DEF Crash

\* A leg opened over such a snapshot, on decisions that withdraw no rejection and
\* approve only what was approved, starts with all of it in order.
LEMMA OpenKeeps ==
    ASSUME RunInv, RunTypes', NEW recs \in [Node -> NodeRecord], NEW ds \in [Gates -> Decision],
           OpenLeg(recs, ds), Snapshot(recs),
           \A n \in Node : recs[n].verdict # "none" => Allowed(n, recs),
           \A g \in Gates :
                /\ ds[g] = "approve" \/ recs[g].verdict = "PASS" => g \in autoApprove \cup answered'
                /\ ds[g] = "reject" => recs[g].verdict # "PASS"
    PROVE  RunInv'
<1>1. Opened' /\ Coherent' /\ EndInv'
  BY OpenedLeg
<1>2. Wave'
  <2>1. Opened'
    BY <1>1
  <2> QED
    BY <2>1, OpenedWave, PTL
<1>3. /\ nodes' = recs /\ decisions' = ds /\ process' = "leg" /\ finished' = "none"
      /\ outcome' = "open" /\ gatePausedAt' = Nobody /\ pausedAt' = Nobody
      /\ UNCHANGED autoApprove
      /\ controller' = LegController(ds)
  BY DEF OpenLeg, LegPause
<1>4. Snapshot(nodes)' /\ NothingForgotten' /\ PauseStands' /\ OneAnswer'
  <2>1. Snapshot(nodes')
    BY <1>3
  <2>2. Snapshot(nodes)' <=> Snapshot(nodes')
    BY DEF Snapshot
  <2>3. NothingForgotten' /\ PauseStands' /\ OneAnswer'
    BY <1>3 DEF NothingForgotten, PauseStands, OneAnswer
  <2> QED
    BY <2>1, <2>2, <2>3
<1>5. BehindGates'
  <2>1. ASSUME NEW n \in Node, Live(n)' PROVE Allowed(n, recs)
    <3>1. Parents[n] \subseteq DoneNodes'
      <4>1. phase'[n] = "idle" /\ queued'[n] > 0
        BY <1>1, <2>1 DEF Opened, Live
      <4>2. queued'[n] = IF Parents[n] \subseteq DoneNodes' /\ ~Final(n)' THEN 1 ELSE 0
        BY <1>1 DEF Opened
      <4> QED
        BY <4>1, <4>2
    <3>2. \A p \in Parents[n] : p \in Node /\ recs[p].verdict = "PASS"
      BY <1>3, <3>1 DEF DoneNodes, Done
    <3> QED
      BY <3>2, AllowedByParents
  <2> QED
    BY <1>3, <2>1 DEF BehindGates, Allowed
<1>6. Decided'
  <2>1. ASSUME NEW g \in Gates
        PROVE  controller'[g] = IF ds[g] # "none" THEN ds[g]
                                ELSE IF g \in autoApprove THEN "approve" ELSE "pause"
    BY <1>3 DEF LegController
  <2>2. Nobody \notin Gates
    BY GraphAssumption, NobodyAssumption
  <2> QED
    BY <1>3, <2>1, <2>2 DEF Decided
<1> QED
  BY <1>1, <1>2, <1>3, <1>4, <1>5, <1>6 DEF RunInv

LEMMA ResumeGateKeeps ==
    ASSUME RunInv, RunTypes', NEW g \in Gates, NEW decision \in {"approve", "reject"},
           ResumeGate(g, decision)
    PROVE  RunInv' /\ \A h \in Gates : decisions[h] = "reject" => decisions'[h] = "reject"
<1> DEFINE ds == [decisions EXCEPT ![g] = decision]
<1>1. /\ nodes \in [Node -> NodeRecord] /\ decisions \in [Gates -> Decision]
      /\ g # Nobody /\ gatePausedAt = g
      /\ decisions[g] = "pause" /\ nodes[g].verdict = "none"
  BY NobodyAssumption, GraphAssumption, RetainedTyped
  DEF RunInv, RunTypes, RunTypeOK, TypeOK, ResumeGate, Decided, PauseStands
<1>2. ds \in [Gates -> Decision] /\ OpenLeg(nodes, ds) /\ answered \subseteq answered'
      /\ (decision = "approve" => g \in answered')
  BY <1>1 DEF ResumeGate, Decision
<1>3. \A h \in Gates : ds[h] = IF h = g THEN decision ELSE decisions[h]
  BY <1>1
<1> HIDE DEF ds
<1>4. ASSUME NEW h \in Gates
      PROVE  /\ ds[h] = "approve" \/ nodes[h].verdict = "PASS" => h \in autoApprove \cup answered'
             /\ ds[h] = "reject" => nodes[h].verdict # "PASS"
             /\ decisions[h] = "reject" => ds[h] = "reject"
  BY <1>1, <1>2, <1>3 DEF RunInv, Decided
<1>5. \A n \in Node : nodes[n].verdict # "none" => Allowed(n, nodes)
  BY DEF RunInv, BehindGates
<1>6. RunInv'
  BY <1>1, <1>2, <1>4, <1>5, OpenKeeps DEF RunInv
<1>7. decisions' = ds
  BY <1>2 DEF OpenLeg
<1> QED
  BY <1>4, <1>6, <1>7

LEMMA ResumeRetryKeeps ==
    ASSUME RunInv, RunTypes', ResumeRetry
    PROVE  RunInv' /\ UNCHANGED decisions
<1>1. /\ TypeOK /\ decisions \in [Gates -> Decision]
      /\ Retained \in [Node -> NodeRecord] /\ Snapshot(Retained)
      /\ \A n \in Node : Retained[n] = IF n \in Cleared THEN NoRecord ELSE nodes[n]
  BY RetainedTyped, RetainedSnapshot DEF RunInv, RunTypes, RunTypeOK, TypeOK
<1>2. OpenLeg(Retained, decisions) /\ answered' = answered
  BY DEF ResumeRetry
<1>3. ASSUME NEW g \in Gates
      PROVE  /\ g \in Node
             /\ nodes[g].verdict = "PASS" => Retained[g].verdict = "PASS"
             /\ Retained[g].verdict = "PASS" => nodes[g].verdict = "PASS"
  <2>1. g \in Node /\ \A d \in Declarers : g \notin Body[d]
    BY GraphAssumption, FeedbackAssumption
  <2> QED
    BY <1>1, <2>1 DEF Cleared, FailedToRetry, NoRecord
<1>4. ASSUME NEW n \in Node, Retained[n].verdict # "none" PROVE Allowed(n, Retained)
  <2>1. nodes[n].verdict # "none"
    BY <1>1, <1>4 DEF NoRecord
  <2> QED
    BY <1>3, <2>1 DEF RunInv, BehindGates, Allowed
<1>5. ASSUME NEW g \in Gates
      PROVE  /\ decisions[g] = "approve" \/ Retained[g].verdict = "PASS"
                => g \in autoApprove \cup answered'
             /\ decisions[g] = "reject" => Retained[g].verdict # "PASS"
  BY <1>2, <1>3 DEF RunInv, Decided
<1>6. RunInv'
  BY <1>1, <1>2, <1>4, <1>5, OpenKeeps
<1> QED
  BY <1>2, <1>6 DEF OpenLeg

\* Every step keeps the invariant, and no step withdraws a rejection.
LEMMA RunInvStep ==
    ASSUME RunInv, [RunNext]_allVars
    PROVE  RunInv' /\ \A g \in Gates : decisions[g] = "reject" => decisions'[g] = "reject"
<1>1. RunTypes'
  BY RunTypesStep DEF RunInv
<1>2. process \in {"leg", "gone"}
  BY DEF RunInv, RunTypes, RunTypeOK
<1>3. ASSUME process = "leg", [Next]_vars, UNCHANGED runVars
      PROVE  RunInv' /\ \A g \in Gates : decisions[g] = "reject" => decisions'[g] = "reject"
  <2>1. RunInv'
    BY <1>1, <1>3, LegKeeps
  <2>2. LegInv /\ EndInv' /\ Decided
    BY <1>3, <2>1 DEF RunInv, RunTypes, RunTypeOK, LegInv, IInv
  <2> QED
    BY <1>3, <2>1, <2>2, DecidedStep
<1>4. CASE LegStep
  BY <1>3, <1>4 DEF LegStep
<1>5. CASE UNCHANGED allVars /\ process = "leg"
  BY <1>3, <1>5 DEF allVars
<1>6. CASE UNCHANGED allVars /\ process = "gone"
  <2>1. /\ UNCHANGED <<nodes, rounds, controller, pausedAt, outcome, autoApprove, answered>>
        /\ UNCHANGED gateSnap /\ UNCHANGED <<phase, queued, process, finished, decisions>>
    BY <1>6 DEF allVars, vars
  <2>2. AllReturned' /\ OneAnswer' /\ process' = "gone"
    BY <1>6, <2>1 DEF RunInv, AllReturned, OneAnswer
  <2> QED
    BY <1>1, <2>1, <2>2, GoneKeeps
<1>7. CASE CloseLeg
  BY <1>1, <1>7, CloseKeeps
<1>8. CASE Crash
  BY <1>1, <1>8, CrashKeeps DEF Crash
<1>9. CASE \E g \in Gates, decision \in {"approve", "reject"} : ResumeGate(g, decision)
  BY <1>1, <1>9, ResumeGateKeeps
<1>10. CASE ResumeRetry
  BY <1>1, <1>10, ResumeRetryKeeps
<1> QED
  BY <1>2, <1>4, <1>5, <1>6, <1>7, <1>8, <1>9, <1>10 DEF RunNext

LEMMA RunInvKept == RunSpec => []RunInv
<1>1. RunInv /\ [RunNext]_allVars => RunInv'
  BY RunInvStep
<1> QED
  BY <1>1, RunInvInit, PTL DEF RunSpec
----------------------------------------------------------------------------
(* What the invariant promises. *)

\* Behind a gate nothing runs, in any leg, but on an approval given at launch or
\* by a resume --approve of this run.
THEOREM ApprovalAsked == RunSpec => []NoUnapprovedGate
<1>1. RunInv => NoUnapprovedGate
  <2> SUFFICES ASSUME RunInv, NEW g \in Gates, NEW n \in Node, g \in Ancestors[n],
                      phase[n] # "idle" \/ nodes[n].verdict # "none"
               PROVE  g \in autoApprove \cup answered
    BY DEF NoUnapprovedGate
  <2>1. Allowed(n, nodes)
    BY DEF RunInv, BehindGates, Live
  <2> QED
    BY <2>1 DEF RunInv, Allowed, Decided
<1> QED
  BY <1>1, RunInvKept, PTL

\* A rejection is never withdrawn, by a later leg, its pauses or its crashes,
\* and what lies behind the gate never gets a goroutine or a record.
THEOREM RejectionStands == RunSpec => RejectStands
<1>1. RunInv /\ [RunNext]_allVars
        => [\A g \in Gates : decisions[g] = "reject" => decisions'[g] = "reject"]_allVars
  BY RunInvStep
<1>2. RunInv => \A g \in Gates : decisions[g] = "reject" =>
        \A n \in Node : g \in Ancestors[n] => phase[n] = "idle" /\ nodes[n].verdict = "none"
  <2> SUFFICES ASSUME RunInv, NEW g \in Gates, decisions[g] = "reject",
                      NEW n \in Node, g \in Ancestors[n]
               PROVE  phase[n] = "idle" /\ nodes[n].verdict = "none"
    OBVIOUS
  <2>1. nodes[g].verdict # "PASS"
    BY DEF RunInv, Decided
  <2> QED
    BY <2>1 DEF RunInv, BehindGates, Allowed, Live
<1> QED
  BY <1>1, <1>2, RunInvKept, PTL DEF RunSpec, RejectStands

\* A node that has a verdict of its round is never started again, whatever legs,
\* crashes and retries come between: a retry clears the record it re-runs.
THEOREM SettledStands == RunSpec => SettledNeverRerun
<1>1. RunInv /\ [RunNext]_allVars
        => [\A n \in Node : phase[n] = "idle" /\ phase'[n] = "running" =>
                nodes[n].verdict \notin {"PASS", "FAIL"} \/ nodes[n].round < rounds[n]]_allVars
  <2> SUFFICES ASSUME RunInv, [RunNext]_allVars, NEW n \in Node,
                      phase[n] = "idle", phase'[n] = "running"
               PROVE  nodes[n].verdict \notin {"PASS", "FAIL"} \/ nodes[n].round < rounds[n]
    OBVIOUS
  <2>1. /\ phase \in [Node -> Phase] /\ queued \in [Node -> Nat] /\ rounds \in [Node -> Nat]
        /\ nodes[n].round \in Nat
    BY DEF RunInv, RunTypes, RunTypeOK, TypeOK
  <2>2. LegStep
    BY DEF RunNext, CloseLeg, Crash, ResumeGate, ResumeRetry, OpenLeg, allVars, vars
  <2>3. Wave /\ \E m \in Node : NodeStep(m)
    BY <2>2 DEF RunInv, LegStep, Next, Interrupt, Finish, Returned, vars
  <2>4. PICK m \in Node : NodeStep(m)
    BY <2>3
  <2>5. queued[n] > 0
    BY <2>1, <2>4 DEF NodeStep, Start, Skip, Pass, Limited, RetryAttempt, Fail, FireArc,
       MarkerUnwritten, ReadPauseFired, Rearm, GateApprove, GateApproved, GateReject, GateRejected,
       GatePause, ReadPause, Release, Prune, HaltNote, HaltReturn, Goto
  <2>6. ~Final(n)
    BY <2>1, <2>3, <2>5 DEF Wave, Goroutine
  <2> QED
    BY <2>1, <2>6 DEF Final, Done, Failed
<1> QED
  BY <1>1, RunInvKept, PTL DEF RunSpec, SettledNeverRerun

\* The run's last word, the snapshot and the gate they name agree on a pause.
THEOREM PausesAgree == RunSpec => []PauseAgrees
<1>1. RunInv => PauseAgrees
  BY DEF RunInv, PauseStands, OneAnswer, PauseAgrees
<1> QED
  BY <1>1, RunInvKept, PTL

\* Whatever a leg left and wherever it died, a resume carries the run on, unless
\* every node passed or what is left waits on a rejection.  It is the graph that
\* says so: the first node that neither passed nor waits on a rejection has
\* parents that all passed, so it failed and is cleared, or it is ready.
THEOREM NeverStuck == RunSpec => []NoStuckRun
<1>1. ASSUME TypeOK, gatePausedAt = Nobody, ~RetryOpensLeg,
             NEW n \in Node, nodes[n].verdict # "PASS", ~Rejected(n),
             \A g \in Ancestors[n] : ~Rejected(g)
      PROVE  FALSE
  <2> DEFINE U == {m \in Node : /\ nodes[m].verdict # "PASS" /\ ~Rejected(m)
                                /\ \A g \in Ancestors[m] : ~Rejected(g)}
  <2>1. PICK m \in U : Parents[m] \cap U = {}
    BY <1>1, FirstNode
  <2>2. ASSUME NEW p \in Parents[m] PROVE p \in Node /\ nodes[p].verdict = "PASS"
    <3>1. p \in Node /\ p \in Ancestors[m] /\ \A g \in Ancestors[p] : g \in Ancestors[m]
      BY ParentIsAncestor, AncestorsTransitive
    <3> QED
      BY <2>1, <3>1
  <2>3. Cleared = {} /\ ~HasUnfinishedWork(Retained)
    BY <1>1 DEF RetryOpensLeg
  <2>4. Retained = nodes
    BY <1>1, <2>3 DEF Retained, TypeOK
  <2>5. m \in ReadyGiven(Passed(nodes))
    BY <2>1, <2>2 DEF ReadyGiven, Passed
  <2>6. nodes[m].verdict = "FAIL"
    BY <2>1, <2>3, <2>4, <2>5 DEF HasUnfinishedWork, Settled
  <2>7. m \in FailedToRetry
    BY <2>1, <2>6 DEF FailedToRetry, Rejected
  <2> QED
    BY <2>3, <2>7 DEF Cleared
<1>2. RunTypes => NoStuckRun
  <2> SUFFICES ASSUME RunTypes, gatePausedAt = Nobody, ~RetryOpensLeg, NEW n \in Node
               PROVE  \/ nodes[n].verdict = "PASS"
                      \/ Rejected(n)
                      \/ \E g \in Ancestors[n] : Rejected(g)
    BY DEF NoStuckRun
  <2>1. TypeOK
    BY DEF RunTypes, RunTypeOK
  <2> QED
    BY <1>1, <2>1
<1>3. RunInv => RunTypes
  BY DEF RunInv
<1> QED
  BY <1>2, <1>3, RunInvKept, PTL

\* In every leg, and between them: inputs are fresh, executions are one at a
\* time, and a leg that ended passed or pruned forgot nothing.
THEOREM LegsSafe == RunSpec => [](FreshInputs /\ OneExecution /\ NothingForgotten)
<1>1. RunInv /\ process = "leg" => FreshInputs /\ OneExecution
  BY WaveFresh, WaveOne DEF RunInv, RunTypes, RunTypeOK, IInv
<1>2. RunInv /\ process = "gone" => FreshInputs /\ OneExecution
  <2> SUFFICES ASSUME RunInv, process = "gone" PROVE FreshInputs /\ OneExecution
    OBVIOUS
  <2>1. \A n \in Node : phase[n] = "idle" /\ queued[n] = 0
    BY DEF RunInv, AllReturned
  <2> QED
    BY <2>1, BodyShape DEF FreshInputs, OneExecution, Consuming
<1>3. RunInv => process \in {"leg", "gone"} /\ NothingForgotten
  BY DEF RunInv, RunTypes, RunTypeOK
<1>4. RunInv => FreshInputs /\ OneExecution /\ NothingForgotten
  BY <1>1, <1>2, <1>3
<1> QED
  BY <1>4, RunInvKept, PTL

LEMMA RunRowsStep ==
    ASSUME ~AllowWriteFault, RunInv, RowsInv, [RunNext]_allVars
    PROVE  RowsInv'
<1>1. CASE LegStep
  <2>1. LegInv /\ [Next]_vars
    BY <1>1 DEF RunInv, RunTypes, RunTypeOK, LegStep, LegInv, IInv
  <2> QED
    BY <2>1, RowsStep
<1>2. CASE CloseLeg \/ Crash \/ UNCHANGED allVars
  BY <1>2 DEF CloseLeg, Crash, allVars, vars, RowsInv, RowsAccounted
<1>3. ASSUME NEW recs, NEW ds, OpenLeg(recs, ds),
             \A n \in Node : recs[n].verdict = "none" => recs[n].rows = 0
      PROVE  RowsInv'
  BY <1>3 DEF OpenLeg, RowsInv, RowsAccounted
<1>4. CASE \E g \in Gates, decision \in {"approve", "reject"} : ResumeGate(g, decision)
  BY <1>3, <1>4 DEF ResumeGate, RowsInv
<1>5. CASE ResumeRetry
  BY <1>3, <1>5 DEF ResumeRetry, Retained, NoRecord, RowsInv
<1> QED
  BY <1>1, <1>2, <1>4, <1>5 DEF RunNext

\* The same with the accounts: while every marker reaches the disk, a record says
\* of its node's spend what the leg's ledger, seeded from the records, says of it.
THEOREM EveryLegIsSafe == ~AllowWriteFault => (RunSpec => []EveryLegSafe)
<1> SUFFICES ASSUME ~AllowWriteFault PROVE RunSpec => []EveryLegSafe
  OBVIOUS
<1>1. RunInit => RowsInv
  BY DEF RunInit, Init, NothingDone, NoRecord, RowsInv, RowsAccounted
<1>2. RunInv /\ RowsInv /\ [RunNext]_allVars => RowsInv'
  BY RunRowsStep
<1>3. RowsInv => RowsAccounted
  BY DEF RowsInv
<1>4. FreshInputs /\ OneExecution /\ NothingForgotten /\ RowsAccounted => EveryLegSafe
  BY DEF EveryLegSafe
<1> QED
  BY <1>1, <1>2, <1>3, <1>4, RunInvKept, LegsSafe, PTL DEF RunSpec
=============================================================================
