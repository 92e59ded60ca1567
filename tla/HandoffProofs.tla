---------------------------- MODULE HandoffProofs ----------------------------
(***************************************************************************)
(* What is proved of the hand-over between nodes, rounds and legs, for     *)
(* every graph with one feedback arc and any number of rounds, executions  *)
(* and legs: inputs and sessions are what the records stand for, a round's *)
(* files are whole beside its marker, and a quoted reply is the newest.    *)
(*                                                                         *)
(* HandoffInv is the inductive invariant: ControlInv says what stages,     *)
(* records and rounds have to do with one another, DiskInv what is on disk *)
(* and in memory at each stage of a node, ToldInv what a running node's    *)
(* invocation was built from, LoopInv what the loop's files and memory are *)
(* in every round and while one is being closed.                           *)
(***************************************************************************)
EXTENDS Handoff, TLAPS

USE DEF handoffFiles, handoffMemory, running, handoffHistory

----------------------------------------------------------------------------
(* Types. *)

\* The one parent whose session a session node resumes.
LEMMA SessionParent ==
    ASSUME HandoffAssumption, NEW n \in Sessions, NEW p \in Parents[n]
    PROVE  (CHOOSE q \in Node : Parents[n] = {q}) = p
<1>1. PICK q \in Node : Parents[n] = {q}
  BY DEF HandoffAssumption
<1>2. (CHOOSE r \in Node : Parents[n] = {r}) \in Node /\ Parents[n] = {CHOOSE r \in Node : Parents[n] = {r}}
  BY <1>1
<1> QED BY <1>2

\* What interpolate hands to an attempt is an invocation.
LEMMA InterpolateTyped ==
    ASSUME HandoffAssumption, HandoffTypeOK, NEW n \in Node
    PROVE  InterpolateAs(n) \in Invocation
<1>1. \A p \in Node : Resolve(p) \in Content
  BY DEF Resolve, HandoffTypeOK, HandoffAssumption, Content, Torn, NoReply
<1>2. ResumeSessionFor(n) \in Reply
  <2>1. CASE n \in Sessions
    <3>1. PICK q \in Node : Parents[n] = {q}
      BY <2>1 DEF HandoffAssumption
    <3>2. (CHOOSE r \in Node : Parents[n] = {r}) \in Node
      BY <3>1
    <3> QED BY <2>1, <3>2 DEF ResumeSessionFor, HandoffTypeOK
  <2>2. CASE n \notin Sessions
    BY <2>2 DEF ResumeSessionFor, Reply, NoReply, HandoffAssumption
  <2> QED BY <2>1, <2>2
<1>3. NoReply \in Reply /\ NoReply \in Content
  BY DEF HandoffAssumption, Reply, NoReply, Content, Torn
<1> QED BY <1>1, <1>2, <1>3 DEF InterpolateAs, Invocation, HandoffTypeOK

\* So is the one no attempt was told.
LEMMA NoInvocationTyped == HandoffAssumption => NoInvocation \in Invocation
BY DEF HandoffAssumption, NoInvocation, Invocation, Reply, Content, Torn, NoReply

\* A reply is content a file can hold.
LEMMA RepliesAreContent == HandoffAssumption => Reply \subseteq Content /\ Torn \in Content /\ NoReply \in Reply
BY DEF HandoffAssumption, Reply, Content, Torn, NoReply

\* A retry that lost its session starts cold, with an invocation.
LEMMA StartColdTyped ==
    ASSUME HandoffAssumption, NEW invocation \in Invocation, NEW reply \in Reply
    PROVE  StartCold(invocation, reply) \in Invocation
BY RepliesAreContent DEF StartCold, Invocation

\* A first leg opens typed.
LEMMA HandoffTypesInit == HandoffAssumption /\ LoopAssumption /\ HandoffInit => HandoffTypeOK
<1> SUFFICES ASSUME HandoffAssumption, LoopAssumption, HandoffInit PROVE HandoffTypeOK
  OBVIOUS
<1>1. Nothing \in [Node -> Reply] /\ Nothing \in [Node -> Content] /\ NoReply \in Reply
  BY RepliesAreContent DEF Nothing
<1>2. NoRecord \in Record
  BY DEF NoRecord, Record, HandoffAssumption, Reply, NoReply
<1>3. 0 \in 0..MaxRounds /\ legs \in 1..MaxLegs /\ "waiting" \in ExecStage
  BY DEF HandoffAssumption, HandoffInit, ExecStage
<1>4. told \in [Node -> Invocation] /\ baseInvocation \in [Node -> Invocation]
  BY NoInvocationTyped DEF HandoffInit
<1> QED BY <1>1, <1>2, <1>3, <1>4 DEF HandoffInit, HandoffTypeOK

\* The arc's rounds are its max at most.
RoundsBounded == stage[Declarer] = "archiving" => rounds[Declarer] < MaxRounds
ArchivesDeclarer == \A n \in Node : stage[n] = "archiving" => n = Declarer

\* Every step keeps the types.
LEMMA HandoffTypesStep ==
    ASSUME HandoffAssumption, LoopAssumption, HandoffTypeOK, RoundsBounded, [HandoffNext]_handoffVars
    PROVE  HandoffTypeOK'
<1>1. ASSUME NEW n \in Node, Start(n) PROVE HandoffTypeOK'
  <2>1. InterpolateAs(n) \in Invocation
    BY <1>1, InterpolateTyped
  <2>2. \A reply \in Reply : StartCold(InterpolateAs(n), reply) \in Invocation
    BY <2>1, StartColdTyped
  <2>3. told' \in [Node -> Invocation] /\ baseInvocation' \in [Node -> Invocation]
    BY <1>1, <2>1, <2>2 DEF Start, HandoffTypeOK
  <2>4. attempt' \in [Node -> Reply]
    BY <1>1 DEF Start, Runnable, HandoffTypeOK, Reply, HandoffAssumption
  <2>5. priorReplies' \in [Node -> Reply] /\ stage' \in [Node -> ExecStage]
    BY <1>1, RepliesAreContent DEF Start, Becomes, Taken, HandoffTypeOK, ExecStage
  <2> QED BY <1>1, <2>3, <2>4, <2>5 DEF Start, HandoffTypeOK
<1>2. ASSUME NEW n \in Node, NEW judged \in BOOLEAN, NEW said \in BOOLEAN, Retry(n, judged, said) PROVE HandoffTypeOK'
  <2>1. RetryQuote(n, judged, said) \in Reply
    BY <1>2, RepliesAreContent DEF RetryQuote, HandoffTypeOK
  <2>2. StartCold(baseInvocation[n], RetryQuote(n, judged, said)) \in Invocation
    <3>1. baseInvocation[n] \in Invocation
      BY <1>2 DEF HandoffTypeOK
    <3> QED BY <3>1, <2>1, StartColdTyped
  <2>3. attempt' \in [Node -> Reply]
    BY <1>2 DEF Retry, HandoffTypeOK, Reply, HandoffAssumption
  <2> QED BY <1>2, <2>1, <2>2, <2>3 DEF Retry, HandoffTypeOK
<1>3. ASSUME NEW n \in Node, OpenOutput(n) PROVE HandoffTypeOK'
  BY <1>3, RepliesAreContent DEF OpenOutput, Becomes, HandoffTypeOK, ExecStage, Record, LoopAssumption
<1>4. ASSUME NEW n \in Node, PersistOutput(n) PROVE HandoffTypeOK'
  BY <1>4, RepliesAreContent DEF PersistOutput, Becomes, HandoffTypeOK, ExecStage, Record, LoopAssumption
<1>5. ASSUME NEW n \in Node, DropFailure(n) PROVE HandoffTypeOK'
  BY <1>5, RepliesAreContent DEF DropFailure, Becomes, Dropped, HandoffTypeOK, ExecStage, Record, LoopAssumption
<1>6. ASSUME NEW n \in Node, RecordPass(n) PROVE HandoffTypeOK'
  BY <1>6, RepliesAreContent DEF RecordPass, Becomes, Recorded, HandoffTypeOK, ExecStage, Record, LoopAssumption
<1>7. ASSUME NEW n \in Node, NEW said \in BOOLEAN, FailJudged(n, said) PROVE HandoffTypeOK'
  BY <1>7, RepliesAreContent DEF FailJudged, PersistFailure, Failing, RetryQuote, Becomes, HandoffTypeOK, ExecStage, Record, LoopAssumption
<1>8. ASSUME NEW n \in Node, NEW said \in BOOLEAN, FailUnjudged(n, said) PROVE HandoffTypeOK'
  BY <1>8, RepliesAreContent DEF FailUnjudged, PersistFailure, Failing, RetryQuote, Becomes, HandoffTypeOK, ExecStage, Record, LoopAssumption
<1>9. ASSUME NEW n \in Node, NEW said \in BOOLEAN, PersistFails(n, said) PROVE HandoffTypeOK'
  BY <1>9, RepliesAreContent DEF PersistFails, PersistFailure, Failing, RetryQuote, Becomes, HandoffTypeOK, ExecStage, Record, LoopAssumption
<1>10. ASSUME NEW n \in Node, RunFails(n) PROVE HandoffTypeOK'
  BY <1>10, RepliesAreContent DEF RunFails, Failing, RetryQuote, Becomes, HandoffTypeOK, ExecStage, Record, LoopAssumption
<1>11. ASSUME NEW n \in Node, RecordFail(n) PROVE HandoffTypeOK'
  BY <1>11, RepliesAreContent DEF RecordFail, Becomes, Recorded, HandoffTypeOK, ExecStage, Record, LoopAssumption
<1>12. ASSUME SetFeedback PROVE HandoffTypeOK'
  BY <1>12, RepliesAreContent DEF SetFeedback, Becomes, ArcFires, HandoffTypeOK, ExecStage, Record, LoopAssumption
<1>13. ASSUME NEW n \in Loop, ArchiveRound(n) PROVE HandoffTypeOK'
  <2>1. n \in Node /\ Archived(n) \in Content
    BY <1>13, RepliesAreContent DEF Archived, Resolve, HandoffTypeOK, LoopAssumption
  <2> QED BY <1>13, <2>1 DEF ArchiveRound, HandoffTypeOK
<1>14. ASSUME Fire PROVE HandoffTypeOK'
  <2>1. rounds[Declarer] + 1 \in 0..MaxRounds /\ rounds[Declarer] \in Nat
    BY <1>14 DEF Fire, FireReady, RoundsBounded, HandoffTypeOK, LoopAssumption, HandoffAssumption
  <2>2. rounds' \in [Node -> 0..MaxRounds]
    BY <1>14, <2>1 DEF Fire, HandoffTypeOK
  <2>3. records' \in [Node -> Record]
    BY <1>14, <2>1, RepliesAreContent DEF Fire, HandoffTypeOK, Record
  <2>4. closedWith' \in [Node -> Content]
    BY <1>14, RepliesAreContent DEF Fire, HandoffTypeOK, Record
  <2>5. stage' \in [Node -> ExecStage] /\ firedBy' \in Reply /\ toArchive' \subseteq Loop
    BY <1>14, RepliesAreContent DEF Fire, HandoffTypeOK, ExecStage, LoopAssumption
  <2> QED BY <1>14, <2>2, <2>3, <2>4, <2>5 DEF Fire, HandoffTypeOK
<1>15. ASSUME Resume PROVE HandoffTypeOK'
  <2>1. records' \in [Node -> Record] /\ rounds' \in [Node -> 0..MaxRounds]
    BY <1>15, RepliesAreContent DEF Resume, HandoffTypeOK, Record, NoRecord, HandoffAssumption, LoopAssumption
  <2>2. told' \in [Node -> Invocation] /\ baseInvocation' \in [Node -> Invocation]
    BY <1>15, NoInvocationTyped DEF Resume
  <2>3. stage' \in [Node -> ExecStage] /\ artifacts' \subseteq Node /\ toArchive' \subseteq Loop
    BY <1>15 DEF Resume, ExecStage
  <2>6. legs' \in 1..MaxLegs
    BY <1>15 DEF Resume, HandoffTypeOK, HandoffAssumption
  <2>4. /\ sessions' \in [Node -> Reply] /\ priorReplies' \in [Node -> Reply] /\ feedback' \in Reply
        /\ previous' \in [Node -> Content]
    BY <1>15, RepliesAreContent DEF Resume, HandoffTypeOK, Record, SeedPriorReply, SeedFeedback, SeedPrevious
  <2>5. firedBy' \in Reply /\ closedWith' \in [Node -> Content]
    BY <1>15, RepliesAreContent DEF Resume, HandoffTypeOK, Nothing
  <2> QED BY <1>15, <2>1, <2>2, <2>3, <2>4, <2>5, <2>6 DEF Resume, HandoffTypeOK
<1>16. CASE UNCHANGED handoffVars
  BY <1>16 DEF handoffVars, HandoffTypeOK
<1> QED BY <1>1, <1>2, <1>3, <1>4, <1>5, <1>6, <1>7, <1>8, <1>9, <1>10, <1>11, <1>12, <1>13, <1>14, <1>15, <1>16 DEF HandoffNext

----------------------------------------------------------------------------
(* Records, stages and rounds. *)

\* Where the leg is with a node is what its record says, a PASS of an earlier
\* round under a newer marker aside.
RecordInv == \A n \in Node :
    /\ stage[n] = "done" <=> records[n].verdict = "PASS" /\ n \notin Superseded
    /\ stage[n] = "failed" <=> records[n].verdict = "FAIL"
    /\ records[n].verdict = "marker" => n = Declarer
    /\ records[n].verdict = "none" => records[n] = NoRecord
    /\ records[n].verdict = "PASS" => records[n].reply \in 1..MaxExecs
    /\ stage[n] \in Executing => attempt[n] >= 1

\* Nothing is started before its parents have passed, or outlives their passing.
StageInv == \A n \in Node : stage[n] # "waiting" => \A p \in Parents[n] : stage[p] = "done"

\* The rounds in memory and the marker's agree, and what passed in the loop did
\* so in the round that is open.
RoundInv ==
    /\ \A n \in Loop : rounds[n] = rounds[Declarer]
    /\ records[Declarer].verdict \in {"marker", "FAIL"} => records[Declarer].round = rounds[Declarer]
    /\ records[Declarer].verdict = "marker" => rounds[Declarer] > 0
    /\ records[Declarer].verdict = "none" => rounds[Declarer] = 0
    /\ records[Declarer].verdict # "PASS" =>
          \A n \in Loop : stage[n] = "done" => records[n].round = rounds[Declarer]
    /\ RoundsBounded /\ ArchivesDeclarer

ControlInv == HandoffTypeOK /\ RecordInv /\ StageInv /\ RoundInv

\* By the time the declarer runs, its whole body has passed.
LEMMA BodyDone ==
    ASSUME LoopAssumption, StageInv, HandoffAssumption, stage[Declarer] # "waiting"
    PROVE  \A n \in Loop \ {Declarer} : stage[n] = "done"
<1> DEFINE ns == {n \in Loop : n = Declarer \/ stage[n] = "done"}
<1>1. ns \in SUBSET Loop /\ Declarer \in ns
  BY DEF LoopAssumption
<1>2. ASSUME NEW n \in ns, NEW p \in Parents[n] \cap Loop PROVE p \in ns
  BY <1>2 DEF StageInv, LoopAssumption
<1>3. ns = Loop
  <2> HIDE DEF ns
  <2> QED BY <1>1, <1>2 DEF LoopAssumption
<1> QED BY <1>3

\* A first leg has recorded nothing and executes nothing.
LEMMA ControlInit == HandoffAssumption /\ LoopAssumption /\ HandoffInit => ControlInv
<1> SUFFICES ASSUME HandoffAssumption, LoopAssumption, HandoffInit PROVE ControlInv
  OBVIOUS
<1>1. HandoffTypeOK
  BY HandoffTypesInit
<1> QED BY <1>1 DEF HandoffInit, ControlInv, RecordInv, StageInv, RoundInv, NoRecord, Executing, ExecStage, RoundsBounded,
     ArchivesDeclarer, LoopAssumption, Superseded, MidLoop

\* A step within an execution: from one of its stages to another.
LEMMA ExecutionMoves ==
    ASSUME HandoffAssumption, LoopAssumption, ControlInv, NEW n \in Node, NEW s \in Executing,
           stage[n] \in Executing \ {"archiving"}, stage' = [stage EXCEPT ![n] = s],
           s = "archiving" => n = Declarer /\ rounds[Declarer] < MaxRounds,
           UNCHANGED <<records, rounds, attempt>>
    PROVE  RecordInv' /\ StageInv' /\ RoundInv'
<1>1. stage \in [Node -> ExecStage] /\ Superseded' = Superseded /\ Declarer \in Node /\ Loop \subseteq Node
  BY DEF ControlInv, HandoffTypeOK, Superseded, MidLoop, LoopAssumption
<1>2. \A m \in Node : stage'[m] = stage[m] \/ (m = n /\ stage[m] \notin {"waiting", "done", "failed", "archiving"}
                                                 /\ stage'[m] \notin {"waiting", "done", "failed"})
  BY <1>1 DEF Executing
<1>3. RecordInv'
  <2> SUFFICES ASSUME NEW m \in Node
               PROVE  /\ stage'[m] = "done" <=> records[m].verdict = "PASS" /\ m \notin Superseded
                      /\ stage'[m] = "failed" <=> records[m].verdict = "FAIL"
                      /\ records[m].verdict = "marker" => m = Declarer
                      /\ records[m].verdict = "none" => records[m] = NoRecord
                      /\ records[m].verdict = "PASS" => records[m].reply \in 1..MaxExecs
                      /\ stage'[m] \in Executing => attempt[m] >= 1
    BY <1>1 DEF RecordInv
  <2>1. /\ stage[m] = "done" <=> records[m].verdict = "PASS" /\ m \notin Superseded
        /\ stage[m] = "failed" <=> records[m].verdict = "FAIL"
        /\ records[m].verdict = "marker" => m = Declarer
        /\ records[m].verdict = "none" => records[m] = NoRecord
        /\ records[m].verdict = "PASS" => records[m].reply \in 1..MaxExecs
        /\ stage[m] \in Executing => attempt[m] >= 1
    BY DEF ControlInv, RecordInv
  <2>2. /\ stage'[m] = "done" <=> stage[m] = "done"
        /\ stage'[m] = "failed" <=> stage[m] = "failed"
        /\ stage'[m] \in Executing => stage[m] \in Executing
    BY <1>1, <1>2 DEF Executing
  <2> QED
    BY <2>1, <2>2
<1>4. StageInv'
  <2>1. \A p \in Node : stage[p] = "done" => stage'[p] = "done"
    BY <1>2
  <2>2. \A m \in Node : stage'[m] # "waiting" => stage[m] # "waiting"
    BY <1>2
  <2>3. \A m \in Node : Parents[m] \subseteq Node
    BY DEF HandoffAssumption
  <2> QED BY <2>1, <2>2, <2>3 DEF ControlInv, StageInv
<1>5. RoundInv'
  <2>1. RoundsBounded' /\ ArchivesDeclarer'
    BY <1>1 DEF ControlInv, RoundInv, RoundsBounded, ArchivesDeclarer
  <2>2. \A m \in Node : stage'[m] = "done" => stage[m] = "done"
    BY <1>2
  <2> QED BY <1>1, <2>1, <2>2 DEF ControlInv, RoundInv
<1> QED BY <1>3, <1>4, <1>5

\* A step that leaves stages, records and rounds alone.
LEMMA ControlStands ==
    ASSUME HandoffAssumption, HandoffTypeOK, HandoffTypeOK', ControlInv, UNCHANGED <<stage, records, rounds>>,
           \A n \in Node : attempt'[n] >= attempt[n]
    PROVE  RecordInv' /\ StageInv' /\ RoundInv'
<1>1. \A n \in Node : attempt[n] >= 1 => attempt'[n] >= 1
  <2> SUFFICES ASSUME NEW n \in Node, attempt[n] >= 1 PROVE attempt'[n] >= 1
    OBVIOUS
  <2>1. attempt[n] \in Nat /\ attempt'[n] \in Nat
    BY DEF HandoffTypeOK, Reply, HandoffAssumption
  <2> QED BY <2>1
<1> QED BY <1>1 DEF ControlInv, RecordInv, StageInv, RoundInv, RoundsBounded, ArchivesDeclarer, Superseded, MidLoop

\* Records, stages and rounds stay coherent, action by action.
LEMMA ControlStep ==
    ASSUME HandoffAssumption, LoopAssumption, ControlInv, [HandoffNext]_handoffVars
    PROVE  ControlInv'
<1>a. HandoffTypeOK' /\ HandoffTypeOK /\ RecordInv /\ StageInv /\ RoundInv
  BY HandoffTypesStep DEF ControlInv, RoundInv
<1>b. Declarer \in Node /\ Loop \subseteq Node /\ Parents \in [Node -> SUBSET Node] /\ MaxExecs \in Nat /\ MaxRounds \in Nat
  BY DEF LoopAssumption, HandoffAssumption
<1>c. stage[Declarer] # "waiting" => \A n \in Loop \ {Declarer} : stage[n] = "done"
  BY BodyDone, <1>a
<1>d. /\ stage \in [Node -> ExecStage] /\ records \in [Node -> Record]
      /\ rounds \in [Node -> 0..MaxRounds] /\ attempt \in [Node -> 0..MaxExecs]
  BY DEF ControlInv, HandoffTypeOK, Reply
<1>1. ASSUME NEW n \in Node, Start(n) PROVE RecordInv' /\ StageInv' /\ RoundInv'
  <2>0. /\ stage[n] = "waiting" /\ stage' = [stage EXCEPT ![n] = "running"] /\ UNCHANGED <<records, rounds>>
        /\ \A p \in Parents[n] : stage[p] = "done"
        /\ attempt' = [attempt EXCEPT ![n] = @ + 1]
    BY <1>1 DEF Start, Runnable, Becomes
  <2>t. /\ n \in Node /\ Superseded' = Superseded /\ attempt'[n] >= 1
        /\ \A m \in Node : m # n => stage'[m] = stage[m] /\ attempt'[m] = attempt[m]
        /\ stage'[n] = "running"
    BY <1>1, <1>d, <2>0 DEF Superseded, MidLoop
  <2>1. RecordInv'
    BY <2>0, <2>t, <1>a DEF RecordInv, Executing
  <2>2. StageInv'
    BY <2>0, <2>t, <1>a, <1>b DEF StageInv
  <2>3. RoundInv'
    BY <2>0, <2>t, <1>a, <1>b DEF RoundInv, RoundsBounded, ArchivesDeclarer
  <2> QED BY <2>1, <2>2, <2>3
<1>2. ASSUME NEW n \in Node, NEW judged \in BOOLEAN, NEW said \in BOOLEAN, Retry(n, judged, said) PROVE RecordInv' /\ StageInv' /\ RoundInv'
  <2>1. \A m \in Node : attempt'[m] >= attempt[m]
    BY <1>2, <1>d DEF Retry
  <2> QED BY <1>2, <1>a, <2>1, ControlStands DEF Retry
<1>3. ASSUME NEW n \in Node, OpenOutput(n) PROVE RecordInv' /\ StageInv' /\ RoundInv'
  <2>1. /\ stage[n] \in Executing \ {"archiving"} /\ stage' = [stage EXCEPT ![n] = "writing"] /\ "writing" \in Executing
        /\ UNCHANGED <<records, rounds, attempt>>
    BY <1>3 DEF OpenOutput, Becomes, Executing, ExecStage
  <2> QED BY <1>3, <2>1, ExecutionMoves
<1>4. ASSUME NEW n \in Node, PersistOutput(n) PROVE RecordInv' /\ StageInv' /\ RoundInv'
  <2>1. /\ stage[n] \in Executing \ {"archiving"} /\ stage' = [stage EXCEPT ![n] = "persisted"] /\ "persisted" \in Executing
        /\ UNCHANGED <<records, rounds, attempt>>
    BY <1>4 DEF PersistOutput, Becomes, Executing, ExecStage
  <2> QED BY <1>4, <2>1, ExecutionMoves
<1>5. ASSUME NEW n \in Node, DropFailure(n) PROVE RecordInv' /\ StageInv' /\ RoundInv'
  <2>1. /\ stage[n] \in Executing \ {"archiving"} /\ stage' = [stage EXCEPT ![n] = "dropped"] /\ "dropped" \in Executing
        /\ UNCHANGED <<records, rounds, attempt>>
    BY <1>5 DEF DropFailure, Becomes, Dropped, Executing, ExecStage
  <2> QED BY <1>5, <2>1, ExecutionMoves
<1>6. ASSUME NEW n \in Node, RecordPass(n) PROVE RecordInv' /\ StageInv' /\ RoundInv'
  <2>0. /\ stage[n] = "dropped" /\ stage' = [stage EXCEPT ![n] = "done"] /\ UNCHANGED <<rounds, attempt>>
        /\ records' = [records EXCEPT ![n] = [verdict |-> "PASS", round |-> rounds[n], judged |-> FALSE, reply |-> attempt[n]]]
    BY <1>6 DEF RecordPass, Recorded, Becomes
  <2>t. /\ stage'[n] = "done" /\ records'[n].verdict = "PASS" /\ records'[n].round = rounds[n]
        /\ records'[n].reply = attempt[n]
        /\ \A m \in Node : m # n => stage'[m] = stage[m] /\ records'[m] = records[m]
        /\ rounds[n] \in Nat
    BY <1>6, <1>b, <1>d, <2>0
  <2>w. attempt[n] \in 1..MaxExecs /\ records[n].verdict # "FAIL"
    <3>1. attempt[n] >= 1 /\ records[n].verdict # "FAIL"
      BY <2>0, <1>a DEF RecordInv, Executing, ExecStage
    <3>2. attempt[n] \in 0..MaxExecs
      BY <1>d
    <3> QED BY <3>1, <3>2, <1>b
  <2>u. ASSUME n = Declarer PROVE RecordInv' /\ RoundInv'
    <3>1. MidLoop' = FALSE /\ Superseded' = {} /\ \A m \in Loop : stage'[m] = "done"
      BY <2>u, <2>0, <2>t, <1>b, <1>c DEF MidLoop, Superseded
    <3>2. \A m \in Node \ {n} : stage[m] = "done" => records[m].verdict = "PASS"
      BY <1>a DEF RecordInv
    <3>3. \A m \in Node \ {n} : records[m].verdict = "PASS" => stage[m] = "done"
      BY <2>u, <1>a, <1>b, <1>c, <2>0 DEF RecordInv, Superseded
    <3>4. RecordInv'
      BY <2>u, <2>0, <2>t, <2>w, <3>1, <3>2, <3>3, <1>a DEF RecordInv, Executing
    <3>5. RoundInv'
      BY <2>u, <2>0, <2>t, <1>a, <1>b DEF RoundInv, RoundsBounded, ArchivesDeclarer
    <3> QED BY <3>4, <3>5
  <2>v. ASSUME n # Declarer PROVE RecordInv' /\ RoundInv'
    <3>1. records'[Declarer] = records[Declarer] /\ stage'[Declarer] = stage[Declarer] /\ (MidLoop' <=> MidLoop)
      BY <2>v, <2>t, <1>b DEF MidLoop
    <3>2. n \notin Superseded'
      BY <2>v, <2>t, <3>1, <1>a DEF Superseded, RoundInv, MidLoop
    <3>3. \A m \in Node \ {n} : m \in Superseded' <=> m \in Superseded
      BY <2>t, <3>1 DEF Superseded
    <3>4. RecordInv'
      BY <2>0, <2>t, <2>w, <3>1, <3>2, <3>3, <1>a DEF RecordInv, Executing
    <3>5. RoundInv'
      BY <2>v, <2>0, <2>t, <3>1, <1>a, <1>b DEF RoundInv, RoundsBounded, ArchivesDeclarer
    <3> QED BY <3>4, <3>5
  <2>2. StageInv'
    BY <2>0, <2>t, <1>a, <1>b DEF StageInv
  <2> QED BY <2>u, <2>v, <2>2
<1>7. ASSUME NEW n \in Node, NEW said \in BOOLEAN, FailJudged(n, said) PROVE RecordInv' /\ StageInv' /\ RoundInv'
  <2>1. /\ stage[n] \in Executing \ {"archiving"} /\ stage' = [stage EXCEPT ![n] = "kept"] /\ "kept" \in Executing
        /\ UNCHANGED <<records, rounds, attempt>>
    BY <1>7 DEF FailJudged, PersistFailure, Failing, RetryQuote, Becomes, Executing, ExecStage
  <2> QED BY <1>7, <2>1, ExecutionMoves
<1>8. ASSUME NEW n \in Node, NEW said \in BOOLEAN, FailUnjudged(n, said) PROVE RecordInv' /\ StageInv' /\ RoundInv'
  <2>1. /\ stage[n] \in Executing \ {"archiving"} /\ stage' = [stage EXCEPT ![n] = "kept unjudged"] /\ "kept unjudged" \in Executing
        /\ UNCHANGED <<records, rounds, attempt>>
    BY <1>8 DEF FailUnjudged, PersistFailure, Failing, RetryQuote, Becomes, Executing, ExecStage
  <2> QED BY <1>8, <2>1, ExecutionMoves
<1>9. ASSUME NEW n \in Node, NEW said \in BOOLEAN, PersistFails(n, said) PROVE RecordInv' /\ StageInv' /\ RoundInv'
  <2>1. /\ stage[n] \in Executing \ {"archiving"} /\ stage' = [stage EXCEPT ![n] = "kept"] /\ "kept" \in Executing
        /\ UNCHANGED <<records, rounds, attempt>>
    BY <1>9 DEF PersistFails, PersistFailure, Failing, RetryQuote, Becomes, Executing, ExecStage
  <2> QED BY <1>9, <2>1, ExecutionMoves
<1>10. ASSUME NEW n \in Node, RunFails(n) PROVE RecordInv' /\ StageInv' /\ RoundInv'
  <2>1. /\ stage[n] \in Executing \ {"archiving"} /\ stage' = [stage EXCEPT ![n] = "kept"] /\ "kept" \in Executing
        /\ UNCHANGED <<records, rounds, attempt>>
    BY <1>10 DEF RunFails, Failing, RetryQuote, Becomes, Executing, ExecStage
  <2> QED BY <1>10, <2>1, ExecutionMoves
<1>11. ASSUME NEW n \in Node, RecordFail(n) PROVE RecordInv' /\ StageInv' /\ RoundInv'
  <2>0. PICK judged \in BOOLEAN :
        /\ stage[n] \in {"kept", "kept unjudged"} /\ stage' = [stage EXCEPT ![n] = "failed"] /\ UNCHANGED <<rounds, attempt>>
        /\ records' = [records EXCEPT ![n] = [verdict |-> "FAIL", round |-> rounds[n], judged |-> judged, reply |-> attempt[n]]]
    BY <1>11 DEF RecordFail, Recorded, Becomes
  <2>t. /\ stage'[n] = "failed" /\ records'[n].verdict = "FAIL" /\ records'[n].round = rounds[n]
        /\ stage[n] \in Executing /\ stage[n] \notin {"done", "waiting", "failed"} /\ UNCHANGED <<rounds, attempt>>
        /\ \A m \in Node : m # n => stage'[m] = stage[m] /\ records'[m] = records[m]
    BY <1>11, <1>d, <2>0 DEF Executing, ExecStage
  <2>u. ASSUME n = Declarer PROVE RecordInv' /\ RoundInv'
    <3>1. MidLoop' = FALSE /\ Superseded' = {}
      BY <2>u, <2>t DEF MidLoop, Superseded
    <3>3. \A m \in Node \ {n} : records[m].verdict = "PASS" => stage[m] = "done"
      BY <2>u, <2>t, <1>a, <1>b, <1>c DEF RecordInv, Superseded, MidLoop
    <3>4. RecordInv'
      BY <2>u, <2>t, <3>1, <3>3, <1>a DEF RecordInv, Executing
    <3>5. RoundInv'
      <4>1. records[Declarer].verdict # "PASS"
        BY <2>u, <2>t, <1>a, <1>b DEF RecordInv, Superseded, MidLoop
      <4> QED BY <2>u, <2>t, <4>1, <1>a, <1>b DEF RoundInv, RoundsBounded, ArchivesDeclarer
    <3> QED BY <3>4, <3>5
  <2>v. ASSUME n # Declarer PROVE RecordInv' /\ RoundInv'
    <3>1. records'[Declarer] = records[Declarer] /\ stage'[Declarer] = stage[Declarer] /\ (MidLoop' <=> MidLoop)
      BY <2>v, <2>t, <1>b DEF MidLoop
    <3>3. \A m \in Node \ {n} : m \in Superseded' <=> m \in Superseded
      BY <2>t, <3>1 DEF Superseded
    <3>4. RecordInv'
      BY <2>t, <2>v, <3>1, <3>3, <1>a DEF RecordInv, Executing
    <3>5. RoundInv'
      BY <2>v, <2>t, <3>1, <1>a, <1>b DEF RoundInv, RoundsBounded, ArchivesDeclarer
    <3> QED BY <3>4, <3>5
  <2>2. StageInv'
    BY <2>t, <1>a, <1>b DEF StageInv, Executing
  <2> QED BY <2>u, <2>v, <2>2
<1>12. ASSUME SetFeedback PROVE RecordInv' /\ StageInv' /\ RoundInv'
  <2>1. /\ stage[Declarer] \in Executing \ {"archiving"} /\ stage' = [stage EXCEPT ![Declarer] = "archiving"]
        /\ "archiving" \in Executing /\ rounds[Declarer] < MaxRounds /\ UNCHANGED <<records, rounds, attempt>>
    BY <1>12 DEF SetFeedback, ArcFires, Becomes, Executing, ExecStage
  <2> QED BY <1>b, <2>1, ExecutionMoves
<1>13. ASSUME NEW n \in Loop, ArchiveRound(n) PROVE RecordInv' /\ StageInv' /\ RoundInv'
  <2>1. \A m \in Node : attempt'[m] >= attempt[m]
    BY <1>13, <1>d DEF ArchiveRound
  <2> QED BY <1>13, <1>a, <2>1, ControlStands DEF ArchiveRound
<1>14. ASSUME Fire PROVE RecordInv' /\ StageInv' /\ RoundInv'
  <2> DEFINE round == rounds[Declarer] + 1
  <2>0. /\ stage[Declarer] = "archiving" /\ round \in 1..MaxRounds /\ UNCHANGED attempt
        /\ rounds' = [m \in Node |-> IF m \in Loop THEN round ELSE rounds[m]]
        /\ records' = [records EXCEPT ![Declarer] =
              [verdict |-> "marker", round |-> round, judged |-> FALSE, reply |-> NoReply]]
        /\ stage' = [m \in Node |-> IF m \in Loop THEN "waiting" ELSE stage[m]]
    BY <1>14, <1>a, <1>b, <1>d DEF Fire, FireReady, RoundInv, RoundsBounded
  <2>t. /\ records'[Declarer].verdict = "marker" /\ records'[Declarer].round = round /\ rounds'[Declarer] = round
        /\ \A m \in Node : m # Declarer => records'[m] = records[m]
        /\ \A m \in Loop : stage'[m] = "waiting" /\ rounds'[m] = round
        /\ \A m \in Node \ Loop : stage'[m] = stage[m]
        /\ MidLoop'
    BY <2>0, <1>b, <1>d DEF MidLoop, LoopAssumption
  <2>a. \A m \in Loop \ {Declarer} : stage[m] = "done" /\ records[m].verdict = "PASS" /\ records[m].round = rounds[Declarer]
    <3>1. records[Declarer].verdict # "PASS"
      BY <2>0, <1>a, <1>b DEF RecordInv, Superseded, MidLoop
    <3> QED BY <2>0, <3>1, <1>a, <1>b, <1>c DEF RecordInv, RoundInv
  <2>b. Loop \ {Declarer} = Superseded' /\ Superseded = {}
    <3>1. \A m \in Loop \ {Declarer} : records'[m].round < records'[Declarer].round
      BY <2>t, <2>a, <1>b, <1>d
    <3>2. ~(records'[Declarer].round < records'[Declarer].round)
      BY <2>t, <2>0
    <3>3. \A m \in Loop \ {Declarer} : m \notin Superseded
      BY <2>a, <1>a, <1>b DEF RecordInv
    <3>4. Declarer \notin Superseded
      BY <1>b, <1>d DEF Superseded, Record
    <3> QED BY <2>t, <3>1, <3>2, <3>3, <3>4 DEF Superseded
  <2>1. RecordInv'
    <3>1. \A m \in Node \ Loop : m # Declarer /\ m \notin Superseded' /\ m \notin Superseded
      BY <2>b, <1>b DEF LoopAssumption
    <3> SUFFICES ASSUME NEW m \in Node
                 PROVE  /\ stage'[m] = "done" <=> records'[m].verdict = "PASS" /\ m \notin Superseded'
                        /\ stage'[m] = "failed" <=> records'[m].verdict = "FAIL"
                        /\ records'[m].verdict = "marker" => m = Declarer
                        /\ records'[m].verdict = "none" => records'[m] = NoRecord
                        /\ records'[m].verdict = "PASS" => records'[m].reply \in 1..MaxExecs
                        /\ stage'[m] \in Executing => attempt'[m] >= 1
      BY DEF RecordInv
    <3>2. CASE m \in Loop \ {Declarer}
      BY <3>2, <2>0, <2>t, <2>a, <2>b, <1>a, <1>b DEF RecordInv, Executing
    <3>3. CASE m = Declarer
      BY <3>3, <2>0, <2>t, <1>b DEF Executing, LoopAssumption
    <3>4. CASE m \notin Loop
      BY <3>4, <3>1, <2>0, <2>t, <1>a DEF RecordInv
    <3> QED BY <3>2, <3>3, <3>4
  <2>2. StageInv'
    <3> SUFFICES ASSUME NEW m \in Node, stage'[m] # "waiting", NEW p \in Parents[m] PROVE stage'[p] = "done"
      BY DEF StageInv
    <3>1. m \notin Loop /\ stage[m] = stage'[m] /\ stage[p] = "done" /\ p \in Node
      BY <2>t, <1>a, <1>b DEF StageInv
    <3>2. p \notin Loop
      BY <3>1, <2>0 DEF LoopAssumption
    <3> QED BY <3>1, <3>2, <2>t
  <2>3. RoundInv'
    BY <2>0, <2>t, <1>a, <1>b DEF RoundInv, RoundsBounded, ArchivesDeclarer
  <2> QED BY <2>1, <2>2, <2>3
<1>15. ASSUME Resume PROVE RecordInv' /\ StageInv' /\ RoundInv'
  <2>0. /\ records' = [m \in Node |-> IF m \in Cleared THEN NoRecord ELSE records[m]]
        /\ rounds' = [m \in Node |-> IF MidLoop /\ m \in Loop THEN records[Declarer].round ELSE 0]
        /\ stage' = [m \in Node |-> IF Seeded(m) /\ m \notin Superseded THEN "done" ELSE "waiting"]
        /\ UNCHANGED attempt
    BY <1>15 DEF Resume
  <2>a. \A m \in Node : Seeded(m) /\ m \notin Superseded <=> stage[m] = "done" /\ m \notin Cleared
    BY <1>a DEF Seeded, RecordInv
  <2>b. \A m \in Node : records[m].verdict = "FAIL" => m \in Cleared
    BY DEF Cleared
  <2>c. MidLoop => \A m \in Cleared : records[m].verdict = "FAIL"
    BY DEF Cleared, MidLoop
  <2>d. MidLoop' <=> MidLoop
    <3>1. Declarer \in Cleared => records[Declarer].verdict # "marker"
      BY DEF Cleared
    <3> QED BY <3>1, <2>0, <1>b DEF MidLoop, NoRecord
  <2>e. MidLoop => records'[Declarer] = records[Declarer]
    BY <2>0, <2>c, <1>b DEF MidLoop
  <2>f. \A m \in Node \ Cleared : records'[m] = records[m] /\ (m \in Superseded' <=> m \in Superseded)
    BY <2>0, <2>d, <2>e DEF Superseded
  <2>g. \A m \in Cleared \cap Node : records'[m].verdict = "none" /\ records'[m] = NoRecord /\ stage'[m] = "waiting"
    BY <2>0, <2>a DEF NoRecord
  <2>h. \A m \in Node \ Cleared : stage'[m] \in {"waiting", "done"} /\ (stage'[m] = "done" <=> stage[m] = "done")
    BY <2>0, <2>a
  <2>1. RecordInv'
    <3> SUFFICES ASSUME NEW m \in Node
                 PROVE  /\ stage'[m] = "done" <=> records'[m].verdict = "PASS" /\ m \notin Superseded'
                        /\ stage'[m] = "failed" <=> records'[m].verdict = "FAIL"
                        /\ records'[m].verdict = "marker" => m = Declarer
                        /\ records'[m].verdict = "none" => records'[m] = NoRecord
                        /\ records'[m].verdict = "PASS" => records'[m].reply \in 1..MaxExecs
                        /\ stage'[m] \in Executing => attempt'[m] >= 1
      BY DEF RecordInv
    <3>1. CASE m \in Cleared
      BY <3>1, <2>g DEF Executing
    <3>2. CASE m \notin Cleared
      BY <3>2, <2>b, <2>f, <2>h, <1>a DEF RecordInv, Executing
    <3> QED BY <3>1, <3>2
  <2>2. StageInv'
    <3> SUFFICES ASSUME NEW m \in Node, stage'[m] # "waiting", NEW p \in Parents[m] PROVE stage'[p] = "done"
      BY DEF StageInv
    <3>1. p \in Node /\ m \notin Cleared /\ stage[m] = "done"
      BY <2>g, <2>h, <1>b
    <3>2. stage[p] = "done" /\ records[p].verdict = "PASS"
      BY <3>1, <1>a DEF StageInv, RecordInv
    <3>3. p \notin Cleared
      <4> SUFFICES ASSUME p \in Cleared PROVE FALSE
        OBVIOUS
      <4>1. p \in Loop /\ records[Declarer].verdict = "FAIL" /\ records[Declarer].round > 0
        BY <3>2 DEF Cleared
      <4>2. m \in Loop
        BY <4>1, <3>2 DEF LoopAssumption
      <4>3. records[m].verdict = "PASS"
        BY <3>1, <1>a DEF RecordInv
      <4> QED BY <3>1, <4>1, <4>2, <4>3 DEF Cleared
    <3> QED BY <3>1, <3>2, <3>3, <2>h
  <2>3. RoundInv'
    <3>1. CASE MidLoop
      <4>1. /\ \A m \in Loop : rounds'[m] = records[Declarer].round
            /\ records[Declarer].round = rounds[Declarer] /\ rounds[Declarer] > 0 /\ records[Declarer].verdict = "marker"
            /\ records'[Declarer] = records[Declarer]
        BY <3>1, <2>0, <2>e, <1>a, <1>b DEF RoundInv, MidLoop
      <4>2. \A m \in Loop : stage'[m] = "done" => records'[m].round = rounds'[Declarer]
        BY <4>1, <2>f, <2>g, <2>h, <1>a, <1>b DEF RoundInv, LoopAssumption
      <4>3. \A m \in Node : stage'[m] # "archiving"
        BY <2>0
      <4> QED BY <4>1, <4>2, <4>3, <1>b DEF RoundInv, RoundsBounded, ArchivesDeclarer, LoopAssumption
    <3>2. CASE ~MidLoop
      <4>1. \A m \in Loop : rounds'[m] = 0
        BY <3>2, <2>0, <1>b
      <4>2. records'[Declarer].verdict \notin {"marker", "FAIL"}
        BY <3>2, <2>0, <2>b, <1>b DEF MidLoop, NoRecord
      <4>3. ASSUME records'[Declarer].verdict # "PASS", NEW m \in Loop, stage'[m] = "done"
            PROVE  records'[m].round = 0
        <5>1. m \notin Cleared /\ stage[m] = "done" /\ records'[m] = records[m] /\ m \in Node /\ records[m].verdict = "PASS"
          BY <4>3, <2>f, <2>g, <2>h, <1>a, <1>b DEF RecordInv
        <5>2. records[Declarer].verdict \in {"none", "FAIL"}
          <6>1. records[Declarer].verdict \in {"none", "PASS", "FAIL", "marker"}
            BY <1>b, <1>d DEF Record
          <6>2. Declarer \in Cleared => records[Declarer].verdict = "FAIL"
            BY DEF Cleared
          <6> QED BY <6>1, <6>2, <4>3, <3>2, <2>f, <1>b DEF MidLoop
        <5>3. records[Declarer].verdict = "FAIL" => rounds[Declarer] = 0
          BY <5>1, <1>a, <1>b, <1>d, <4>3 DEF Cleared, RoundInv
        <5> QED BY <5>1, <5>2, <5>3, <4>3, <1>a, <1>b DEF RoundInv
      <4>4. \A m \in Node : stage'[m] # "archiving"
        BY <2>0
      <4> QED BY <4>1, <4>2, <4>3, <4>4, <1>b DEF RoundInv, RoundsBounded, ArchivesDeclarer, LoopAssumption
    <3> QED BY <3>1, <3>2
  <2> QED BY <2>1, <2>2, <2>3
<1>16. ASSUME UNCHANGED handoffVars PROVE RecordInv' /\ StageInv' /\ RoundInv'
  BY <1>16, <1>a DEF handoffVars, RecordInv, StageInv, RoundInv, RoundsBounded, ArchivesDeclarer, Superseded, MidLoop
<1> QED BY <1>1, <1>2, <1>3, <1>4, <1>5, <1>6, <1>7, <1>8, <1>9, <1>10, <1>11, <1>12, <1>13, <1>14, <1>15, <1>16, <1>a DEF HandoffNext, ControlInv

----------------------------------------------------------------------------
(* Files and memory beside the records. *)

\* What the run directory and the leg's memory hold of a node, at each stage.
DiskOf(n) ==
    /\ stage[n] = "done" => n \in artifacts /\ out[n] = records[n].reply /\ sessions[n] = records[n].reply
    /\ stage[n] \in {"persisted", "dropped"} => n \in artifacts /\ out[n] = attempt[n] /\ sessions[n] = attempt[n]
    /\ stage[n] \in {"dropped", "done"} => failedFile[n] = NoReply
    /\ stage[n] \in Executing => priorReplies[n] = NoReply
    /\ failedFile[n] \in {NoReply, lastFailed[n]}
    /\ priorReplies[n] \in {NoReply, lastFailed[n]}
DiskInv == \A n \in Node : DiskOf(n)

\* What an executing node was told is what its parents' records stand for, and
\* what the leg holds of its loop.
ToldOf(n) == stage[n] \in Executing =>
    /\ \A p \in Parents[n] : baseInvocation[n].inputs[p] = records[p].reply
    /\ baseInvocation[n].session # NoReply => \A p \in Parents[n] : baseInvocation[n].session = records[p].reply
    /\ told[n].inputs = baseInvocation[n].inputs
    /\ told[n].session \in {NoReply, baseInvocation[n].session}
    /\ told[n].feedback = baseInvocation[n].feedback /\ told[n].previous = baseInvocation[n].previous
    /\ n \in Loop /\ stage[n] # "archiving" =>
          baseInvocation[n].feedback = feedback /\ baseInvocation[n].previous = previous[n]
ToldInv == \A n \in Node : ToldOf(n)

\* Outside a round the leg holds nothing of the loop.
HoldsNothing == rounds[Declarer] = 0 /\ stage[Declarer] # "archiving" =>
    feedback = NoReply /\ \A n \in Loop : previous[n] = NoReply
\* While a round's body still has work, files and memory are those it opened with.
HoldsTheRound == rounds[Declarer] > 0 /\ (\E m \in Loop \ {Declarer} : stage[m] # "done") =>
    /\ feedbackFile = firedBy /\ feedback = firedBy
    /\ \A n \in Loop : previousFile[n] = closedWith[n] /\ previous[n] = closedWith[n]
\* They are never older than the round.
NeverOlder ==
    /\ rounds[Declarer] > 0 =>
        /\ feedback >= firedBy /\ feedbackFile >= firedBy
        /\ previous[Declarer] >= closedWith[Declarer] /\ previousFile[Declarer] >= closedWith[Declarer]
    /\ firedBy <= attempt[Declarer] /\ closedWith[Declarer] <= attempt[Declarer]
\* A marker on disk has the round's files whole beside it.
MarkerHasFiles == MidLoop => feedbackFile # NoReply /\ \A n \in Loop : previousFile[n] \notin {NoReply, Torn}
\* Closing a round archives what its body holds now.
ArchivesTheRound == stage[Declarer] = "archiving" =>
    /\ feedbackFile = attempt[Declarer] /\ feedback = attempt[Declarer]
    /\ \A n \in Loop \ toArchive : previousFile[n] = Archived(n) /\ previous[n] = Archived(n)
LoopInv == HoldsNothing /\ HoldsTheRound /\ NeverOlder /\ MarkerHasFiles /\ ArchivesTheRound

HandoffInv == ControlInv /\ DiskInv /\ ToldInv /\ LoopInv

\* The whole invariant holds of a first leg.
LEMMA HandoffInvInit == HandoffAssumption /\ LoopAssumption /\ HandoffInit => HandoffInv
<1> SUFFICES ASSUME HandoffAssumption, LoopAssumption, HandoffInit PROVE HandoffInv
  OBVIOUS
<1>1. ControlInv
  BY ControlInit
<1>2. \A n \in Node : stage[n] = "waiting" /\ failedFile[n] = NoReply /\ priorReplies[n] = NoReply
                      /\ previous[n] = NoReply /\ closedWith[n] = NoReply /\ attempt[n] = NoReply
  BY DEF HandoffInit, Nothing
<1>3. DiskInv /\ ToldInv
  BY <1>2 DEF DiskInv, DiskOf, ToldInv, ToldOf, Executing
<1>4. Declarer \in Node /\ Loop \subseteq Node /\ rounds[Declarer] = 0 /\ ~MidLoop
  BY DEF LoopAssumption, HandoffInit, MidLoop, NoRecord
<1>5. LoopInv
  BY <1>2, <1>4 DEF HandoffInit, LoopInv, HoldsNothing, HoldsTheRound, NeverOlder, MarkerHasFiles, ArchivesTheRound, NoReply
<1> QED BY <1>1, <1>3, <1>5 DEF HandoffInv

\* DiskOf reads nothing of the other nodes.
LEMMA DiskStands ==
    ASSUME NEW n, DiskOf(n), n \in artifacts => n \in artifacts',
           UNCHANGED <<stage[n], out[n], sessions[n], records[n], attempt[n], failedFile[n], priorReplies[n], lastFailed[n]>>
    PROVE  DiskOf(n)'
BY DEF DiskOf

\* What the disk and the memory hold of a node keeps up with its stage.
LEMMA DiskStep ==
    ASSUME HandoffAssumption, LoopAssumption, ControlInv, DiskInv, [HandoffNext]_handoffVars
    PROVE  DiskInv'
<1>a. Declarer \in Node /\ Loop \subseteq Node
  BY DEF LoopAssumption
<1>b. /\ stage \in [Node -> ExecStage] /\ records \in [Node -> Record] /\ attempt \in [Node -> Reply]
      /\ out \in [Node -> Content] /\ failedFile \in [Node -> Reply] /\ sessions \in [Node -> Reply]
      /\ priorReplies \in [Node -> Reply] /\ lastFailed \in [Node -> Reply]
  BY DEF ControlInv, HandoffTypeOK
<1>1. ASSUME NEW n \in Node, Start(n) PROVE DiskInv'
  <2>1. \A m \in Node \ {n} : DiskOf(m)'
    <3> SUFFICES ASSUME NEW m \in Node \ {n} PROVE DiskOf(m)'
      OBVIOUS
    <3>1. /\ UNCHANGED <<stage[m], out[m], sessions[m], records[m], attempt[m], failedFile[m], priorReplies[m], lastFailed[m]>>
          /\ m \in artifacts => m \in artifacts'
      BY <1>1, <1>b DEF Start, Taken, Becomes
    <3> QED BY <3>1, DiskStands DEF DiskInv
  <2>2. DiskOf(n)'
    BY <1>1, <1>b DEF Start, Taken, Becomes, DiskInv, DiskOf, Executing, ExecStage
  <2> QED BY <2>1, <2>2 DEF DiskInv
<1>2. ASSUME NEW n \in Node, NEW judged \in BOOLEAN, NEW said \in BOOLEAN, Retry(n, judged, said) PROVE DiskInv'
  <2>1. \A m \in Node \ {n} : DiskOf(m)'
    <3> SUFFICES ASSUME NEW m \in Node \ {n} PROVE DiskOf(m)'
      OBVIOUS
    <3>1. /\ UNCHANGED <<stage[m], out[m], sessions[m], records[m], attempt[m], failedFile[m], priorReplies[m], lastFailed[m]>>
          /\ m \in artifacts => m \in artifacts'
      BY <1>2, <1>b DEF Retry
    <3> QED BY <3>1, DiskStands DEF DiskInv
  <2>2. DiskOf(n)'
    BY <1>2, <1>b DEF Retry, DiskInv, DiskOf, Executing, ExecStage
  <2> QED BY <2>1, <2>2 DEF DiskInv
<1>3. ASSUME NEW n \in Node, OpenOutput(n) PROVE DiskInv'
  <2>1. \A m \in Node \ {n} : DiskOf(m)'
    <3> SUFFICES ASSUME NEW m \in Node \ {n} PROVE DiskOf(m)'
      OBVIOUS
    <3>1. /\ UNCHANGED <<stage[m], out[m], sessions[m], records[m], attempt[m], failedFile[m], priorReplies[m], lastFailed[m]>>
          /\ m \in artifacts => m \in artifacts'
      BY <1>3, <1>b DEF OpenOutput, Becomes
    <3> QED BY <3>1, DiskStands DEF DiskInv
  <2>2. DiskOf(n)'
    BY <1>3, <1>b DEF OpenOutput, Becomes, DiskInv, DiskOf, Executing, ExecStage
  <2> QED BY <2>1, <2>2 DEF DiskInv
<1>4. ASSUME NEW n \in Node, PersistOutput(n) PROVE DiskInv'
  <2>1. \A m \in Node \ {n} : DiskOf(m)'
    <3> SUFFICES ASSUME NEW m \in Node \ {n} PROVE DiskOf(m)'
      OBVIOUS
    <3>1. /\ UNCHANGED <<stage[m], out[m], sessions[m], records[m], attempt[m], failedFile[m], priorReplies[m], lastFailed[m]>>
          /\ m \in artifacts => m \in artifacts'
      BY <1>4, <1>b DEF PersistOutput, Becomes
    <3> QED BY <3>1, DiskStands DEF DiskInv
  <2>2. DiskOf(n)'
    BY <1>4, <1>b DEF PersistOutput, Becomes, DiskInv, DiskOf, Executing, ExecStage
  <2> QED BY <2>1, <2>2 DEF DiskInv
<1>5. ASSUME NEW n \in Node, DropFailure(n) PROVE DiskInv'
  <2>1. \A m \in Node \ {n} : DiskOf(m)'
    <3> SUFFICES ASSUME NEW m \in Node \ {n} PROVE DiskOf(m)'
      OBVIOUS
    <3>1. /\ UNCHANGED <<stage[m], out[m], sessions[m], records[m], attempt[m], failedFile[m], priorReplies[m], lastFailed[m]>>
          /\ m \in artifacts => m \in artifacts'
      BY <1>5, <1>b DEF DropFailure, Dropped, Becomes
    <3> QED BY <3>1, DiskStands DEF DiskInv
  <2>2. DiskOf(n)'
    BY <1>5, <1>b DEF DropFailure, Dropped, Becomes, DiskInv, DiskOf, Executing, ExecStage
  <2> QED BY <2>1, <2>2 DEF DiskInv
<1>6. ASSUME NEW n \in Node, RecordPass(n) PROVE DiskInv'
  <2>1. \A m \in Node \ {n} : DiskOf(m)'
    <3> SUFFICES ASSUME NEW m \in Node \ {n} PROVE DiskOf(m)'
      OBVIOUS
    <3>1. /\ UNCHANGED <<stage[m], out[m], sessions[m], records[m], attempt[m], failedFile[m], priorReplies[m], lastFailed[m]>>
          /\ m \in artifacts => m \in artifacts'
      BY <1>6, <1>b DEF RecordPass, Recorded, Becomes
    <3> QED BY <3>1, DiskStands DEF DiskInv
  <2>2. DiskOf(n)'
    BY <1>6, <1>b DEF RecordPass, Recorded, Becomes, DiskInv, DiskOf, Executing, ExecStage
  <2> QED BY <2>1, <2>2 DEF DiskInv
<1>7. ASSUME NEW n \in Node, NEW said \in BOOLEAN, FailJudged(n, said) PROVE DiskInv'
  <2>1. \A m \in Node \ {n} : DiskOf(m)'
    <3> SUFFICES ASSUME NEW m \in Node \ {n} PROVE DiskOf(m)'
      OBVIOUS
    <3>1. /\ UNCHANGED <<stage[m], out[m], sessions[m], records[m], attempt[m], failedFile[m], priorReplies[m], lastFailed[m]>>
          /\ m \in artifacts => m \in artifacts'
      BY <1>7, <1>b DEF FailJudged, PersistFailure, Failing, Becomes
    <3> QED BY <3>1, DiskStands DEF DiskInv
  <2>2. DiskOf(n)'
    BY <1>7, <1>b DEF FailJudged, PersistFailure, Failing, Becomes, DiskInv, DiskOf, Executing, ExecStage
  <2> QED BY <2>1, <2>2 DEF DiskInv
<1>8. ASSUME NEW n \in Node, NEW said \in BOOLEAN, FailUnjudged(n, said) PROVE DiskInv'
  <2>1. \A m \in Node \ {n} : DiskOf(m)'
    <3> SUFFICES ASSUME NEW m \in Node \ {n} PROVE DiskOf(m)'
      OBVIOUS
    <3>1. /\ UNCHANGED <<stage[m], out[m], sessions[m], records[m], attempt[m], failedFile[m], priorReplies[m], lastFailed[m]>>
          /\ m \in artifacts => m \in artifacts'
      BY <1>8, <1>b DEF FailUnjudged, PersistFailure, Failing, Becomes
    <3> QED BY <3>1, DiskStands DEF DiskInv
  <2>2. DiskOf(n)'
    BY <1>8, <1>b DEF FailUnjudged, PersistFailure, Failing, Becomes, DiskInv, DiskOf, Executing, ExecStage
  <2> QED BY <2>1, <2>2 DEF DiskInv
<1>9. ASSUME NEW n \in Node, NEW said \in BOOLEAN, PersistFails(n, said) PROVE DiskInv'
  <2>1. \A m \in Node \ {n} : DiskOf(m)'
    <3> SUFFICES ASSUME NEW m \in Node \ {n} PROVE DiskOf(m)'
      OBVIOUS
    <3>1. /\ UNCHANGED <<stage[m], out[m], sessions[m], records[m], attempt[m], failedFile[m], priorReplies[m], lastFailed[m]>>
          /\ m \in artifacts => m \in artifacts'
      BY <1>9, <1>b DEF PersistFails, PersistFailure, Failing, Becomes
    <3> QED BY <3>1, DiskStands DEF DiskInv
  <2>2. DiskOf(n)'
    BY <1>9, <1>b DEF PersistFails, PersistFailure, Failing, Becomes, DiskInv, DiskOf, Executing, ExecStage
  <2> QED BY <2>1, <2>2 DEF DiskInv
<1>10. ASSUME NEW n \in Node, RunFails(n) PROVE DiskInv'
  <2>1. \A m \in Node \ {n} : DiskOf(m)'
    <3> SUFFICES ASSUME NEW m \in Node \ {n} PROVE DiskOf(m)'
      OBVIOUS
    <3>1. /\ UNCHANGED <<stage[m], out[m], sessions[m], records[m], attempt[m], failedFile[m], priorReplies[m], lastFailed[m]>>
          /\ m \in artifacts => m \in artifacts'
      BY <1>10, <1>b DEF RunFails, Failing, Becomes
    <3> QED BY <3>1, DiskStands DEF DiskInv
  <2>2. DiskOf(n)'
    BY <1>10, <1>b DEF RunFails, Failing, Becomes, DiskInv, DiskOf, Executing, ExecStage
  <2> QED BY <2>1, <2>2 DEF DiskInv
<1>11. ASSUME NEW n \in Node, RecordFail(n) PROVE DiskInv'
  <2>1. \A m \in Node \ {n} : DiskOf(m)'
    <3> SUFFICES ASSUME NEW m \in Node \ {n} PROVE DiskOf(m)'
      OBVIOUS
    <3>1. /\ UNCHANGED <<stage[m], out[m], sessions[m], records[m], attempt[m], failedFile[m], priorReplies[m], lastFailed[m]>>
          /\ m \in artifacts => m \in artifacts'
      BY <1>11, <1>b DEF RecordFail, Recorded, Becomes
    <3> QED BY <3>1, DiskStands DEF DiskInv
  <2>2. DiskOf(n)'
    BY <1>11, <1>b DEF RecordFail, Recorded, Becomes, DiskInv, DiskOf, Executing, ExecStage
  <2> QED BY <2>1, <2>2 DEF DiskInv
<1>12. ASSUME SetFeedback PROVE DiskInv'
  BY <1>12, <1>a, <1>b DEF SetFeedback, Becomes, DiskInv, DiskOf, Executing, ExecStage
<1>13. ASSUME NEW n \in Loop, ArchiveRound(n) PROVE DiskInv'
  BY <1>13 DEF ArchiveRound, DiskInv, DiskOf
<1>14. ASSUME Fire PROVE DiskInv'
  <2>1. \A m \in Node : stage'[m] = "waiting" \/ (stage'[m] = stage[m] /\ records'[m] = records[m])
    BY <1>14, <1>a, <1>b DEF Fire, LoopAssumption
  <2> QED BY <1>14, <2>1 DEF Fire, DiskInv, DiskOf, Executing
<1>15. ASSUME Resume PROVE DiskInv'
  <2>1. \A m \in Node : stage'[m] \in {"waiting", "done"}
    BY <1>15 DEF Resume
  <2>2. \A m \in Node : stage'[m] = "done" =>
            stage[m] = "done" /\ records'[m] = records[m] /\ m \in artifacts' /\ sessions'[m] = records[m].reply
    BY <1>15 DEF Resume, Seeded, ControlInv, RecordInv
  <2>3. \A m \in Node : priorReplies'[m] \in {NoReply, failedFile[m]}
    BY <1>15 DEF Resume, SeedPriorReply
  <2>4. out' = out /\ failedFile' = failedFile /\ lastFailed' = lastFailed
    BY <1>15 DEF Resume
  <2> QED BY <2>1, <2>2, <2>3, <2>4 DEF DiskInv, DiskOf, Executing
<1>16. ASSUME UNCHANGED handoffVars PROVE DiskInv'
  BY <1>16 DEF handoffVars, DiskInv, DiskOf
<1> QED BY <1>1, <1>2, <1>3, <1>4, <1>5, <1>6, <1>7, <1>8, <1>9, <1>10, <1>11, <1>12, <1>13, <1>14, <1>15, <1>16 DEF HandoffNext

----------------------------------------------------------------------------
(* What a running node was told. *)

\* A node keeps what it was told while its parents' records and its loop stand.
LEMMA ToldStands ==
    ASSUME HandoffAssumption, ControlInv, NEW n \in Node, ToldOf(n),
           UNCHANGED <<told[n], baseInvocation[n], feedback, previous>>,
           stage'[n] \in Executing => stage[n] \in Executing /\ (stage[n] = "archiving" => stage'[n] = "archiving"),
           \A p \in Node : stage[p] = "done" => records'[p].reply = records[p].reply
    PROVE  ToldOf(n)'
<1>1. stage[n] \in Executing => \A p \in Parents[n] : records'[p].reply = records[p].reply
  BY DEF ControlInv, StageInv, Executing, HandoffAssumption
<1> QED BY <1>1 DEF ToldOf

\* What an executing node was told stays what its parents' records stand for.
LEMMA ToldStep ==
    ASSUME HandoffAssumption, LoopAssumption, ControlInv, DiskInv, ToldInv, [HandoffNext]_handoffVars
    PROVE  ToldInv'
<1>a. Declarer \in Node /\ Loop \subseteq Node /\ Parents \in [Node -> SUBSET Node]
  BY DEF LoopAssumption, HandoffAssumption
<1>b. /\ stage \in [Node -> ExecStage] /\ records \in [Node -> Record] /\ attempt \in [Node -> Reply]
      /\ told \in [Node -> Invocation] /\ baseInvocation \in [Node -> Invocation] /\ previous \in [Node -> Content]
  BY DEF ControlInv, HandoffTypeOK
<1>c. stage[Declarer] # "waiting" => \A n \in Loop \ {Declarer} : stage[n] = "done"
  BY BodyDone DEF ControlInv, RoundInv
<1>d. \A n \in Node : stage[n] \in Executing => stage[n] \notin {"waiting", "done", "failed"}
  BY DEF Executing
<1>1. ASSUME NEW n \in Node, Start(n) PROVE ToldInv'
  <2>1. /\ stage[n] = "waiting" /\ \A p \in Parents[n] : stage[p] = "done"
        /\ stage' = [stage EXCEPT ![n] = "running"] /\ UNCHANGED <<records, feedback, previous>>
        /\ baseInvocation' = [baseInvocation EXCEPT ![n] = InterpolateAs(n)]
        /\ told' = [told EXCEPT ![n] = IF priorReplies[n] = NoReply THEN InterpolateAs(n)
                                       ELSE StartCold(InterpolateAs(n), priorReplies[n])]
    BY <1>1 DEF Start, Runnable, Becomes
  <2>2. \A m \in Node \ {n} : ToldOf(m)'
    <3> SUFFICES ASSUME NEW m \in Node \ {n} PROVE ToldOf(m)'
      OBVIOUS
    <3>1. UNCHANGED <<told[m], baseInvocation[m], feedback, previous, stage[m]>>
      BY <2>1, <1>b
    <3> QED BY <3>1, <2>1, ToldStands DEF ToldInv
  <2>3. \A p \in Parents[n] : InterpolateAs(n).inputs[p] = records[p].reply
    BY <2>1, <1>a DEF DiskInv, DiskOf, InterpolateAs, Resolve
  <2>4. InterpolateAs(n).session # NoReply => \A p \in Parents[n] : InterpolateAs(n).session = records[p].reply
    <3> SUFFICES ASSUME n \in Sessions, NEW p \in Parents[n] PROVE InterpolateAs(n).session = records[p].reply
      BY DEF InterpolateAs, ResumeSessionFor
    <3>1. InterpolateAs(n).session = sessions[p]
      BY SessionParent DEF InterpolateAs, ResumeSessionFor
    <3> QED BY <3>1, <2>1, <1>a DEF DiskInv, DiskOf
  <2>5. \A reply : LET q == StartCold(InterpolateAs(n), reply) IN
            /\ q.inputs = InterpolateAs(n).inputs /\ q.session = NoReply
            /\ q.feedback = InterpolateAs(n).feedback /\ q.previous = InterpolateAs(n).previous
    BY DEF StartCold, InterpolateAs
  <2>6. /\ baseInvocation'[n] = InterpolateAs(n)
        /\ told'[n].inputs = InterpolateAs(n).inputs /\ told'[n].session \in {NoReply, InterpolateAs(n).session}
        /\ told'[n].feedback = InterpolateAs(n).feedback /\ told'[n].previous = InterpolateAs(n).previous
    BY <2>1, <2>5, <1>b
  <2>7. n \in Loop => InterpolateAs(n).feedback = feedback /\ InterpolateAs(n).previous = previous[n]
    BY DEF InterpolateAs
  <2>8. ToldOf(n)'
    <3> HIDE DEF InterpolateAs
    <3> QED BY <2>1, <2>3, <2>4, <2>6, <2>7 DEF ToldOf
  <2> QED BY <2>2, <2>8 DEF ToldInv
<1>2. ASSUME NEW n \in Node, NEW judged \in BOOLEAN, NEW said \in BOOLEAN, Retry(n, judged, said) PROVE ToldInv'
  <2> DEFINE quote == RetryQuote(n, judged, said)
  <2>1. /\ stage[n] = "running" /\ UNCHANGED <<stage, records, feedback, previous, baseInvocation>>
        /\ told' = [told EXCEPT ![n] = StartCold(baseInvocation[n], quote)]
    BY <1>2 DEF Retry
  <2>2. \A m \in Node \ {n} : ToldOf(m)'
    <3> SUFFICES ASSUME NEW m \in Node \ {n} PROVE ToldOf(m)'
      OBVIOUS
    <3>1. UNCHANGED <<told[m], baseInvocation[m], feedback, previous, stage[m]>>
      BY <2>1, <1>b
    <3> QED BY <3>1, <2>1, ToldStands DEF ToldInv
  <2>3. /\ told'[n].inputs = baseInvocation[n].inputs /\ told'[n].session = NoReply
        /\ told'[n].feedback = baseInvocation[n].feedback /\ told'[n].previous = baseInvocation[n].previous
    <3>1. baseInvocation[n] \in Invocation
      BY <1>b
    <3> HIDE DEF quote
    <3> QED BY <2>1, <3>1, <1>b DEF StartCold, Invocation
  <2>4. ToldOf(n)'
    BY <2>1, <2>3 DEF ToldInv, ToldOf
  <2> QED BY <2>2, <2>4 DEF ToldInv
<1>3. ASSUME NEW n \in Node, OpenOutput(n) PROVE ToldInv'
  <2>1. /\ stage[n] \in Executing \ {"archiving"} /\ UNCHANGED <<told, baseInvocation, feedback, previous, records>>
        /\ \A m \in Node \ {n} : stage'[m] = stage[m]
    BY <1>3, <1>b DEF OpenOutput, Becomes, Executing, ExecStage
  <2>2. \A m \in Node : stage'[m] \in Executing => stage[m] \in Executing /\ (stage[m] = "archiving" => stage'[m] = stage[m])
    BY <2>1
  <2> QED BY <2>1, <2>2, ToldStands DEF ToldInv
<1>4. ASSUME NEW n \in Node, PersistOutput(n) PROVE ToldInv'
  <2>1. /\ stage[n] \in Executing \ {"archiving"} /\ UNCHANGED <<told, baseInvocation, feedback, previous, records>>
        /\ \A m \in Node \ {n} : stage'[m] = stage[m]
    BY <1>4, <1>b DEF PersistOutput, Becomes, Executing, ExecStage
  <2>2. \A m \in Node : stage'[m] \in Executing => stage[m] \in Executing /\ (stage[m] = "archiving" => stage'[m] = stage[m])
    BY <2>1
  <2> QED BY <2>1, <2>2, ToldStands DEF ToldInv
<1>5. ASSUME NEW n \in Node, DropFailure(n) PROVE ToldInv'
  <2>1. /\ stage[n] \in Executing \ {"archiving"} /\ UNCHANGED <<told, baseInvocation, feedback, previous, records>>
        /\ \A m \in Node \ {n} : stage'[m] = stage[m]
    BY <1>5, <1>b DEF DropFailure, Dropped, Becomes, Executing, ExecStage
  <2>2. \A m \in Node : stage'[m] \in Executing => stage[m] \in Executing /\ (stage[m] = "archiving" => stage'[m] = stage[m])
    BY <2>1
  <2> QED BY <2>1, <2>2, ToldStands DEF ToldInv
<1>6. ASSUME NEW n \in Node, RecordPass(n) PROVE ToldInv'
  <2>1. /\ stage[n] \in Executing /\ stage'[n] \in {"done", "failed"}
        /\ UNCHANGED <<told, baseInvocation, feedback, previous>>
        /\ \A m \in Node \ {n} : stage'[m] = stage[m] /\ records'[m] = records[m]
    BY <1>6, <1>b DEF RecordPass, Recorded, Becomes, Executing, ExecStage
  <2>2. \A p \in Node : stage[p] = "done" => records'[p].reply = records[p].reply
    BY <2>1, <1>d
  <2>3. \A m \in Node : stage'[m] \in Executing => stage[m] \in Executing /\ stage'[m] = stage[m]
    BY <2>1 DEF Executing
  <2> QED BY <2>1, <2>2, <2>3, ToldStands DEF ToldInv
<1>7. ASSUME NEW n \in Node, NEW said \in BOOLEAN, FailJudged(n, said) PROVE ToldInv'
  <2>1. /\ stage[n] \in Executing \ {"archiving"} /\ UNCHANGED <<told, baseInvocation, feedback, previous, records>>
        /\ \A m \in Node \ {n} : stage'[m] = stage[m]
    BY <1>7, <1>b DEF FailJudged, PersistFailure, Failing, Becomes, Executing, ExecStage
  <2>2. \A m \in Node : stage'[m] \in Executing => stage[m] \in Executing /\ (stage[m] = "archiving" => stage'[m] = stage[m])
    BY <2>1
  <2> QED BY <2>1, <2>2, ToldStands DEF ToldInv
<1>8. ASSUME NEW n \in Node, NEW said \in BOOLEAN, FailUnjudged(n, said) PROVE ToldInv'
  <2>1. /\ stage[n] \in Executing \ {"archiving"} /\ UNCHANGED <<told, baseInvocation, feedback, previous, records>>
        /\ \A m \in Node \ {n} : stage'[m] = stage[m]
    BY <1>8, <1>b DEF FailUnjudged, PersistFailure, Failing, Becomes, Executing, ExecStage
  <2>2. \A m \in Node : stage'[m] \in Executing => stage[m] \in Executing /\ (stage[m] = "archiving" => stage'[m] = stage[m])
    BY <2>1
  <2> QED BY <2>1, <2>2, ToldStands DEF ToldInv
<1>9. ASSUME NEW n \in Node, NEW said \in BOOLEAN, PersistFails(n, said) PROVE ToldInv'
  <2>1. /\ stage[n] \in Executing \ {"archiving"} /\ UNCHANGED <<told, baseInvocation, feedback, previous, records>>
        /\ \A m \in Node \ {n} : stage'[m] = stage[m]
    BY <1>9, <1>b DEF PersistFails, PersistFailure, Failing, Becomes, Executing, ExecStage
  <2>2. \A m \in Node : stage'[m] \in Executing => stage[m] \in Executing /\ (stage[m] = "archiving" => stage'[m] = stage[m])
    BY <2>1
  <2> QED BY <2>1, <2>2, ToldStands DEF ToldInv
<1>10. ASSUME NEW n \in Node, RunFails(n) PROVE ToldInv'
  <2>1. /\ stage[n] \in Executing \ {"archiving"} /\ UNCHANGED <<told, baseInvocation, feedback, previous, records>>
        /\ \A m \in Node \ {n} : stage'[m] = stage[m]
    BY <1>10, <1>b DEF RunFails, Failing, Becomes, Executing, ExecStage
  <2>2. \A m \in Node : stage'[m] \in Executing => stage[m] \in Executing /\ (stage[m] = "archiving" => stage'[m] = stage[m])
    BY <2>1
  <2> QED BY <2>1, <2>2, ToldStands DEF ToldInv
<1>11. ASSUME NEW n \in Node, RecordFail(n) PROVE ToldInv'
  <2>1. /\ stage[n] \in Executing /\ stage'[n] \in {"done", "failed"}
        /\ UNCHANGED <<told, baseInvocation, feedback, previous>>
        /\ \A m \in Node \ {n} : stage'[m] = stage[m] /\ records'[m] = records[m]
    BY <1>11, <1>b DEF RecordFail, Recorded, Becomes, Executing, ExecStage
  <2>2. \A p \in Node : stage[p] = "done" => records'[p].reply = records[p].reply
    BY <2>1, <1>d
  <2>3. \A m \in Node : stage'[m] \in Executing => stage[m] \in Executing /\ stage'[m] = stage[m]
    BY <2>1 DEF Executing
  <2> QED BY <2>1, <2>2, <2>3, ToldStands DEF ToldInv
<1>12. ASSUME SetFeedback PROVE ToldInv'
  <2>1. /\ stage[Declarer] = "running" /\ stage'[Declarer] = "archiving"
        /\ UNCHANGED <<told, baseInvocation, previous, records>> /\ \A m \in Node \ {Declarer} : stage'[m] = stage[m]
    BY <1>12, <1>a, <1>b DEF SetFeedback, Becomes
  <2>2. \A m \in Loop \ {Declarer} : stage'[m] \notin Executing
    BY <2>1, <1>a, <1>c, <1>d
  <2>3. "running" \in Executing
    BY DEF Executing, ExecStage
  <2> QED BY <2>1, <2>2, <2>3, <1>a DEF ToldInv, ToldOf
<1>13. ASSUME NEW n \in Loop, ArchiveRound(n) PROVE ToldInv'
  <2>1. /\ stage[Declarer] = "archiving" /\ UNCHANGED <<told, baseInvocation, feedback, records, stage>>
        /\ \A m \in Loop \ {Declarer} : stage[m] = "done"
    BY <1>13, <1>c DEF ArchiveRound
  <2> QED BY <2>1, <1>d DEF ToldInv, ToldOf
<1>14. ASSUME Fire PROVE ToldInv'
  <2>1. /\ stage[Declarer] = "archiving" /\ UNCHANGED <<told, baseInvocation, feedback, previous>>
        /\ \A m \in Node : stage'[m] = "waiting" \/ stage'[m] = stage[m]
        /\ \A m \in Node \ {Declarer} : records'[m] = records[m]
    BY <1>14, <1>b DEF Fire, FireReady
  <2>2. \A p \in Node : stage[p] = "done" => records'[p].reply = records[p].reply
    BY <2>1
  <2>3. \A m \in Node : stage'[m] \in Executing => stage[m] \in Executing /\ (stage[m] = "archiving" => stage'[m] = stage[m])
    BY <2>1 DEF Executing
  <2> QED BY <2>1, <2>2, <2>3, ToldStands DEF ToldInv
<1>15. ASSUME Resume PROVE ToldInv'
  <2>1. \A m \in Node : stage'[m] \in {"waiting", "done"}
    BY <1>15 DEF Resume
  <2> QED BY <2>1 DEF ToldInv, ToldOf, Executing
<1>16. ASSUME UNCHANGED handoffVars PROVE ToldInv'
  BY <1>16 DEF handoffVars, ToldInv, ToldOf
<1> QED BY <1>1, <1>2, <1>3, <1>4, <1>5, <1>6, <1>7, <1>8, <1>9, <1>10, <1>11, <1>12, <1>13, <1>14, <1>15, <1>16 DEF HandoffNext

----------------------------------------------------------------------------
(* The loop's files and memory. *)

\* A step that leaves the loop's files, memory and rounds alone, and takes no
\* PASS from the body.
LEMMA LoopStands ==
    ASSUME HandoffAssumption, LoopAssumption, ControlInv, LoopInv,
           UNCHANGED <<feedbackFile, previousFile, feedback, previous, toArchive, rounds, firedBy, closedWith>>,
           attempt \in [Node -> Reply], attempt'[Declarer] \in Nat, attempt'[Declarer] >= attempt[Declarer],
           stage[Declarer] = "archiving" <=> stage'[Declarer] = "archiving",
           stage[Declarer] = "archiving" => attempt'[Declarer] = attempt[Declarer],
           \A n \in Loop : stage[n] = "done" => stage'[n] = "done",
           MidLoop' => MidLoop,
           \A n \in Loop : stage[n] = "done" => out'[n] = out[n] /\ (n \in artifacts' <=> n \in artifacts)
    PROVE  LoopInv'
<1>a. Declarer \in Loop /\ Declarer \in Node /\ Loop \subseteq Node
  BY DEF LoopAssumption
<1>b. /\ firedBy \in Nat /\ closedWith[Declarer] \in Nat /\ attempt[Declarer] \in Nat
  BY <1>a DEF ControlInv, HandoffTypeOK, Reply, Content, Torn, HandoffAssumption
<1>1. HoldsNothing' /\ HoldsTheRound' /\ MarkerHasFiles'
  BY DEF LoopInv, HoldsNothing, HoldsTheRound, MarkerHasFiles
<1>2. NeverOlder'
  BY <1>b DEF LoopInv, NeverOlder
<1>3. ArchivesTheRound'
  <2> SUFFICES ASSUME stage'[Declarer] = "archiving" PROVE ArchivesTheRound'
    BY DEF ArchivesTheRound
  <2>1. stage[Declarer] = "archiving" /\ attempt'[Declarer] = attempt[Declarer]
    OBVIOUS
  <2>2. \A n \in Loop \ {Declarer} : stage[n] = "done"
    BY <2>1, BodyDone DEF ControlInv, RoundInv
  <2>3. ASSUME NEW n \in Loop \ toArchive
        PROVE  previousFile[n] = (IF n = Declarer THEN attempt'[n] ELSE IF n \in artifacts' THEN out'[n] ELSE NoReply)
               /\ previous[n] = (IF n = Declarer THEN attempt'[n] ELSE IF n \in artifacts' THEN out'[n] ELSE NoReply)
    BY <2>1, <2>2, <2>3 DEF LoopInv, ArchivesTheRound, Archived, Resolve
  <2> QED BY <2>1, <2>3 DEF LoopInv, ArchivesTheRound, Archived, Resolve
<1> QED BY <1>1, <1>2, <1>3 DEF LoopInv

\* What closing a round archives is the reply the node passed with, the
\* declarer's that failed it.
LEMMA ArchivedReply ==
    ASSUME HandoffAssumption, LoopAssumption, ControlInv, DiskInv, stage[Declarer] = "archiving", NEW n \in Loop
    PROVE  /\ Archived(n) = IF n = Declarer THEN attempt[Declarer] ELSE records[n].reply
           /\ Archived(n) \in 1..MaxExecs
<1>1. n \in Node /\ Declarer \in Node
  BY DEF LoopAssumption
<1>2. CASE n = Declarer
  <2>1. attempt[Declarer] \in 0..MaxExecs /\ MaxExecs \in Nat
    BY <1>1 DEF ControlInv, HandoffTypeOK, Reply, HandoffAssumption
  <2>2. attempt[Declarer] >= 1
    BY <1>1 DEF ControlInv, RecordInv, Executing, ExecStage
  <2> QED BY <1>2, <2>1, <2>2 DEF Archived
<1>3. CASE n # Declarer
  <2>1. stage[n] = "done"
    BY <1>3, BodyDone DEF ControlInv, RoundInv
  <2>2. n \in artifacts /\ out[n] = records[n].reply /\ records[n].reply \in 1..MaxExecs
    BY <1>1, <2>1 DEF DiskInv, DiskOf, ControlInv, RecordInv
  <2> QED BY <1>3, <2>2 DEF Archived, Resolve
<1> QED BY <1>2, <1>3

\* The loop's files and memory stay those of the round.
LEMMA LoopStep ==
    ASSUME HandoffAssumption, LoopAssumption, ControlInv, DiskInv, LoopInv, ControlInv', [HandoffNext]_handoffVars
    PROVE  LoopInv'
<1>a. Declarer \in Loop /\ Declarer \in Node /\ Loop \subseteq Node /\ MaxExecs \in Nat
  BY DEF LoopAssumption, HandoffAssumption
<1>b. /\ stage \in [Node -> ExecStage] /\ records \in [Node -> Record] /\ attempt \in [Node -> Reply]
      /\ out \in [Node -> Content] /\ previous \in [Node -> Content] /\ previousFile \in [Node -> Content]
      /\ closedWith \in [Node -> Content] /\ firedBy \in Reply /\ feedback \in Reply /\ feedbackFile \in Reply
      /\ rounds \in [Node -> 0..MaxRounds] /\ toArchive \subseteq Loop
  BY DEF ControlInv, HandoffTypeOK
<1>c. stage[Declarer] # "waiting" => \A n \in Loop \ {Declarer} : stage[n] = "done"
  BY BodyDone DEF ControlInv, RoundInv
<1>e. Reply = 0..MaxExecs /\ Content = 0..(MaxExecs + 1) /\ Torn = MaxExecs + 1 /\ NoReply = 0
  BY DEF Reply, Content, Torn, NoReply
<1>f. /\ firedBy \in Nat /\ closedWith[Declarer] \in Nat /\ attempt[Declarer] \in Nat /\ feedback \in Nat
      /\ feedbackFile \in Nat /\ previous[Declarer] \in Nat /\ previousFile[Declarer] \in Nat /\ rounds[Declarer] \in Nat
      /\ attempt'[Declarer] \in Nat /\ MaxRounds \in Nat
  BY <1>a, <1>b, <1>e DEF ControlInv, HandoffTypeOK, HandoffAssumption
<1>1. ASSUME NEW n \in Node, Start(n) PROVE LoopInv'
  <2>1. UNCHANGED <<feedbackFile, previousFile, feedback, previous, toArchive, rounds, firedBy, closedWith>>
    BY <1>1 DEF Start, Taken, Becomes
  <2>2. /\ stage[n] \notin {"done", "archiving"} /\ stage'[n] # "archiving"
        /\ \A m \in Node \ {n} : stage'[m] = stage[m]
    BY <1>1, <1>b DEF Start, Taken, Becomes, Runnable
  <2>5. \A m \in Node \ {n} : out'[m] = out[m] /\ (m \in artifacts' <=> m \in artifacts)
    BY <1>1, <1>b DEF Start, Taken, Becomes
  <2>6. (\A m \in Node \ {n} : attempt'[m] = attempt[m]) /\ attempt'[n] >= attempt[n]
    <3>1. attempt[n] \in Nat
      BY <1>a, <1>b, <1>e
    <3>2. attempt' = attempt \/ attempt' = [attempt EXCEPT ![n] = @ + 1]
      BY <1>1 DEF Start, Taken, Becomes
    <3> QED BY <1>b, <3>1, <3>2
  <2>3. MidLoop' => MidLoop
    BY <1>1, <1>a, <1>b DEF Start, Taken, Becomes, MidLoop
  <2>4. attempt'[Declarer] >= attempt[Declarer]
    BY <2>6, <1>a, <1>f
  <2> QED BY <2>1, <2>2, <2>3, <2>4, <2>5, <2>6, <1>a, <1>b, <1>f, LoopStands
<1>2. ASSUME NEW n \in Node, NEW judged \in BOOLEAN, NEW said \in BOOLEAN, Retry(n, judged, said) PROVE LoopInv'
  <2>1. UNCHANGED <<feedbackFile, previousFile, feedback, previous, toArchive, rounds, firedBy, closedWith>>
    BY <1>2 DEF Retry
  <2>2. /\ stage[n] \notin {"done", "archiving"} /\ stage'[n] # "archiving"
        /\ \A m \in Node \ {n} : stage'[m] = stage[m]
    BY <1>2, <1>b DEF Retry, Runnable
  <2>5. \A m \in Node \ {n} : out'[m] = out[m] /\ (m \in artifacts' <=> m \in artifacts)
    BY <1>2, <1>b DEF Retry
  <2>6. (\A m \in Node \ {n} : attempt'[m] = attempt[m]) /\ attempt'[n] >= attempt[n]
    <3>1. attempt[n] \in Nat
      BY <1>a, <1>b, <1>e
    <3>2. attempt' = attempt \/ attempt' = [attempt EXCEPT ![n] = @ + 1]
      BY <1>2 DEF Retry
    <3> QED BY <1>b, <3>1, <3>2
  <2>3. MidLoop' => MidLoop
    BY <1>2, <1>a, <1>b DEF Retry, MidLoop
  <2>4. attempt'[Declarer] >= attempt[Declarer]
    BY <2>6, <1>a, <1>f
  <2> QED BY <2>1, <2>2, <2>3, <2>4, <2>5, <2>6, <1>a, <1>b, <1>f, LoopStands
<1>3. ASSUME NEW n \in Node, OpenOutput(n) PROVE LoopInv'
  <2>1. UNCHANGED <<feedbackFile, previousFile, feedback, previous, toArchive, rounds, firedBy, closedWith>>
    BY <1>3 DEF OpenOutput, Becomes
  <2>2. /\ stage[n] \notin {"done", "archiving"} /\ stage'[n] # "archiving"
        /\ \A m \in Node \ {n} : stage'[m] = stage[m]
    BY <1>3, <1>b DEF OpenOutput, Becomes, Runnable
  <2>5. \A m \in Node \ {n} : out'[m] = out[m] /\ (m \in artifacts' <=> m \in artifacts)
    BY <1>3, <1>b DEF OpenOutput, Becomes
  <2>6. (\A m \in Node \ {n} : attempt'[m] = attempt[m]) /\ attempt'[n] >= attempt[n]
    <3>1. attempt[n] \in Nat
      BY <1>a, <1>b, <1>e
    <3>2. attempt' = attempt \/ attempt' = [attempt EXCEPT ![n] = @ + 1]
      BY <1>3 DEF OpenOutput, Becomes
    <3> QED BY <1>b, <3>1, <3>2
  <2>3. MidLoop' => MidLoop
    BY <1>3, <1>a, <1>b DEF OpenOutput, Becomes, MidLoop
  <2>4. attempt'[Declarer] >= attempt[Declarer]
    BY <2>6, <1>a, <1>f
  <2> QED BY <2>1, <2>2, <2>3, <2>4, <2>5, <2>6, <1>a, <1>b, <1>f, LoopStands
<1>4. ASSUME NEW n \in Node, PersistOutput(n) PROVE LoopInv'
  <2>1. UNCHANGED <<feedbackFile, previousFile, feedback, previous, toArchive, rounds, firedBy, closedWith>>
    BY <1>4 DEF PersistOutput, Becomes
  <2>2. /\ stage[n] \notin {"done", "archiving"} /\ stage'[n] # "archiving"
        /\ \A m \in Node \ {n} : stage'[m] = stage[m]
    BY <1>4, <1>b DEF PersistOutput, Becomes, Runnable
  <2>5. \A m \in Node \ {n} : out'[m] = out[m] /\ (m \in artifacts' <=> m \in artifacts)
    BY <1>4, <1>b DEF PersistOutput, Becomes
  <2>6. (\A m \in Node \ {n} : attempt'[m] = attempt[m]) /\ attempt'[n] >= attempt[n]
    <3>1. attempt[n] \in Nat
      BY <1>a, <1>b, <1>e
    <3>2. attempt' = attempt \/ attempt' = [attempt EXCEPT ![n] = @ + 1]
      BY <1>4 DEF PersistOutput, Becomes
    <3> QED BY <1>b, <3>1, <3>2
  <2>3. MidLoop' => MidLoop
    BY <1>4, <1>a, <1>b DEF PersistOutput, Becomes, MidLoop
  <2>4. attempt'[Declarer] >= attempt[Declarer]
    BY <2>6, <1>a, <1>f
  <2> QED BY <2>1, <2>2, <2>3, <2>4, <2>5, <2>6, <1>a, <1>b, <1>f, LoopStands
<1>5. ASSUME NEW n \in Node, DropFailure(n) PROVE LoopInv'
  <2>1. UNCHANGED <<feedbackFile, previousFile, feedback, previous, toArchive, rounds, firedBy, closedWith>>
    BY <1>5 DEF DropFailure, Dropped, Becomes
  <2>2. /\ stage[n] \notin {"done", "archiving"} /\ stage'[n] # "archiving"
        /\ \A m \in Node \ {n} : stage'[m] = stage[m]
    BY <1>5, <1>b DEF DropFailure, Dropped, Becomes, Runnable
  <2>5. \A m \in Node \ {n} : out'[m] = out[m] /\ (m \in artifacts' <=> m \in artifacts)
    BY <1>5, <1>b DEF DropFailure, Dropped, Becomes
  <2>6. (\A m \in Node \ {n} : attempt'[m] = attempt[m]) /\ attempt'[n] >= attempt[n]
    <3>1. attempt[n] \in Nat
      BY <1>a, <1>b, <1>e
    <3>2. attempt' = attempt \/ attempt' = [attempt EXCEPT ![n] = @ + 1]
      BY <1>5 DEF DropFailure, Dropped, Becomes
    <3> QED BY <1>b, <3>1, <3>2
  <2>3. MidLoop' => MidLoop
    BY <1>5, <1>a, <1>b DEF DropFailure, Dropped, Becomes, MidLoop
  <2>4. attempt'[Declarer] >= attempt[Declarer]
    BY <2>6, <1>a, <1>f
  <2> QED BY <2>1, <2>2, <2>3, <2>4, <2>5, <2>6, <1>a, <1>b, <1>f, LoopStands
<1>6. ASSUME NEW n \in Node, RecordPass(n) PROVE LoopInv'
  <2>1. UNCHANGED <<feedbackFile, previousFile, feedback, previous, toArchive, rounds, firedBy, closedWith>>
    BY <1>6 DEF RecordPass, Recorded, Becomes
  <2>2. /\ stage[n] \notin {"done", "archiving"} /\ stage'[n] # "archiving"
        /\ \A m \in Node \ {n} : stage'[m] = stage[m]
    BY <1>6, <1>b DEF RecordPass, Recorded, Becomes, Runnable
  <2>5. \A m \in Node \ {n} : out'[m] = out[m] /\ (m \in artifacts' <=> m \in artifacts)
    BY <1>6, <1>b DEF RecordPass, Recorded, Becomes
  <2>6. (\A m \in Node \ {n} : attempt'[m] = attempt[m]) /\ attempt'[n] >= attempt[n]
    <3>1. attempt[n] \in Nat
      BY <1>a, <1>b, <1>e
    <3>2. attempt' = attempt \/ attempt' = [attempt EXCEPT ![n] = @ + 1]
      BY <1>6 DEF RecordPass, Recorded, Becomes
    <3> QED BY <1>b, <3>1, <3>2
  <2>3. MidLoop' => MidLoop
    BY <1>6, <1>a, <1>b DEF RecordPass, Recorded, Becomes, MidLoop
  <2>4. attempt'[Declarer] >= attempt[Declarer]
    BY <2>6, <1>a, <1>f
  <2> QED BY <2>1, <2>2, <2>3, <2>4, <2>5, <2>6, <1>a, <1>b, <1>f, LoopStands
<1>7. ASSUME NEW n \in Node, NEW said \in BOOLEAN, FailJudged(n, said) PROVE LoopInv'
  <2>1. UNCHANGED <<feedbackFile, previousFile, feedback, previous, toArchive, rounds, firedBy, closedWith>>
    BY <1>7 DEF FailJudged, PersistFailure, Failing, Becomes
  <2>2. /\ stage[n] \notin {"done", "archiving"} /\ stage'[n] # "archiving"
        /\ \A m \in Node \ {n} : stage'[m] = stage[m]
    BY <1>7, <1>b DEF FailJudged, PersistFailure, Failing, Becomes, Runnable
  <2>5. \A m \in Node \ {n} : out'[m] = out[m] /\ (m \in artifacts' <=> m \in artifacts)
    BY <1>7, <1>b DEF FailJudged, PersistFailure, Failing, Becomes
  <2>6. (\A m \in Node \ {n} : attempt'[m] = attempt[m]) /\ attempt'[n] >= attempt[n]
    <3>1. attempt[n] \in Nat
      BY <1>a, <1>b, <1>e
    <3>2. attempt' = attempt \/ attempt' = [attempt EXCEPT ![n] = @ + 1]
      BY <1>7 DEF FailJudged, PersistFailure, Failing, Becomes
    <3> QED BY <1>b, <3>1, <3>2
  <2>3. MidLoop' => MidLoop
    BY <1>7, <1>a, <1>b DEF FailJudged, PersistFailure, Failing, Becomes, MidLoop
  <2>4. attempt'[Declarer] >= attempt[Declarer]
    BY <2>6, <1>a, <1>f
  <2> QED BY <2>1, <2>2, <2>3, <2>4, <2>5, <2>6, <1>a, <1>b, <1>f, LoopStands
<1>8. ASSUME NEW n \in Node, NEW said \in BOOLEAN, FailUnjudged(n, said) PROVE LoopInv'
  <2>1. UNCHANGED <<feedbackFile, previousFile, feedback, previous, toArchive, rounds, firedBy, closedWith>>
    BY <1>8 DEF FailUnjudged, PersistFailure, Failing, Becomes
  <2>2. /\ stage[n] \notin {"done", "archiving"} /\ stage'[n] # "archiving"
        /\ \A m \in Node \ {n} : stage'[m] = stage[m]
    BY <1>8, <1>b DEF FailUnjudged, PersistFailure, Failing, Becomes, Runnable
  <2>5. \A m \in Node \ {n} : out'[m] = out[m] /\ (m \in artifacts' <=> m \in artifacts)
    BY <1>8, <1>b DEF FailUnjudged, PersistFailure, Failing, Becomes
  <2>6. (\A m \in Node \ {n} : attempt'[m] = attempt[m]) /\ attempt'[n] >= attempt[n]
    <3>1. attempt[n] \in Nat
      BY <1>a, <1>b, <1>e
    <3>2. attempt' = attempt \/ attempt' = [attempt EXCEPT ![n] = @ + 1]
      BY <1>8 DEF FailUnjudged, PersistFailure, Failing, Becomes
    <3> QED BY <1>b, <3>1, <3>2
  <2>3. MidLoop' => MidLoop
    BY <1>8, <1>a, <1>b DEF FailUnjudged, PersistFailure, Failing, Becomes, MidLoop
  <2>4. attempt'[Declarer] >= attempt[Declarer]
    BY <2>6, <1>a, <1>f
  <2> QED BY <2>1, <2>2, <2>3, <2>4, <2>5, <2>6, <1>a, <1>b, <1>f, LoopStands
<1>9. ASSUME NEW n \in Node, NEW said \in BOOLEAN, PersistFails(n, said) PROVE LoopInv'
  <2>1. UNCHANGED <<feedbackFile, previousFile, feedback, previous, toArchive, rounds, firedBy, closedWith>>
    BY <1>9 DEF PersistFails, PersistFailure, Failing, Becomes
  <2>2. /\ stage[n] \notin {"done", "archiving"} /\ stage'[n] # "archiving"
        /\ \A m \in Node \ {n} : stage'[m] = stage[m]
    BY <1>9, <1>b DEF PersistFails, PersistFailure, Failing, Becomes, Runnable
  <2>5. \A m \in Node \ {n} : out'[m] = out[m] /\ (m \in artifacts' <=> m \in artifacts)
    BY <1>9, <1>b DEF PersistFails, PersistFailure, Failing, Becomes
  <2>6. (\A m \in Node \ {n} : attempt'[m] = attempt[m]) /\ attempt'[n] >= attempt[n]
    <3>1. attempt[n] \in Nat
      BY <1>a, <1>b, <1>e
    <3>2. attempt' = attempt \/ attempt' = [attempt EXCEPT ![n] = @ + 1]
      BY <1>9 DEF PersistFails, PersistFailure, Failing, Becomes
    <3> QED BY <1>b, <3>1, <3>2
  <2>3. MidLoop' => MidLoop
    BY <1>9, <1>a, <1>b DEF PersistFails, PersistFailure, Failing, Becomes, MidLoop
  <2>4. attempt'[Declarer] >= attempt[Declarer]
    BY <2>6, <1>a, <1>f
  <2> QED BY <2>1, <2>2, <2>3, <2>4, <2>5, <2>6, <1>a, <1>b, <1>f, LoopStands
<1>10. ASSUME NEW n \in Node, RunFails(n) PROVE LoopInv'
  <2>1. UNCHANGED <<feedbackFile, previousFile, feedback, previous, toArchive, rounds, firedBy, closedWith>>
    BY <1>10 DEF RunFails, Failing, Becomes
  <2>2. /\ stage[n] \notin {"done", "archiving"} /\ stage'[n] # "archiving"
        /\ \A m \in Node \ {n} : stage'[m] = stage[m]
    BY <1>10, <1>b DEF RunFails, Failing, Becomes, Runnable
  <2>5. \A m \in Node \ {n} : out'[m] = out[m] /\ (m \in artifacts' <=> m \in artifacts)
    BY <1>10, <1>b DEF RunFails, Failing, Becomes
  <2>6. (\A m \in Node \ {n} : attempt'[m] = attempt[m]) /\ attempt'[n] >= attempt[n]
    <3>1. attempt[n] \in Nat
      BY <1>a, <1>b, <1>e
    <3>2. attempt' = attempt \/ attempt' = [attempt EXCEPT ![n] = @ + 1]
      BY <1>10 DEF RunFails, Failing, Becomes
    <3> QED BY <1>b, <3>1, <3>2
  <2>3. MidLoop' => MidLoop
    BY <1>10, <1>a, <1>b DEF RunFails, Failing, Becomes, MidLoop
  <2>4. attempt'[Declarer] >= attempt[Declarer]
    BY <2>6, <1>a, <1>f
  <2> QED BY <2>1, <2>2, <2>3, <2>4, <2>5, <2>6, <1>a, <1>b, <1>f, LoopStands
<1>11. ASSUME NEW n \in Node, RecordFail(n) PROVE LoopInv'
  <2>1. UNCHANGED <<feedbackFile, previousFile, feedback, previous, toArchive, rounds, firedBy, closedWith>>
    BY <1>11 DEF RecordFail, Recorded, Becomes
  <2>2. /\ stage[n] \notin {"done", "archiving"} /\ stage'[n] # "archiving"
        /\ \A m \in Node \ {n} : stage'[m] = stage[m]
    BY <1>11, <1>b DEF RecordFail, Recorded, Becomes, Runnable
  <2>5. \A m \in Node \ {n} : out'[m] = out[m] /\ (m \in artifacts' <=> m \in artifacts)
    BY <1>11, <1>b DEF RecordFail, Recorded, Becomes
  <2>6. (\A m \in Node \ {n} : attempt'[m] = attempt[m]) /\ attempt'[n] >= attempt[n]
    <3>1. attempt[n] \in Nat
      BY <1>a, <1>b, <1>e
    <3>2. attempt' = attempt \/ attempt' = [attempt EXCEPT ![n] = @ + 1]
      BY <1>11 DEF RecordFail, Recorded, Becomes
    <3> QED BY <1>b, <3>1, <3>2
  <2>3. MidLoop' => MidLoop
    <3>1. records' = [records EXCEPT ![n] = records'[n]] /\ records'[n].verdict = "FAIL"
      BY <1>11, <1>b DEF RecordFail, Recorded
    <3> QED BY <1>b, <3>1 DEF MidLoop
  <2>4. attempt'[Declarer] >= attempt[Declarer]
    BY <2>6, <1>a, <1>f
  <2> QED BY <2>1, <2>2, <2>3, <2>4, <2>5, <2>6, <1>a, <1>b, <1>f, LoopStands
<1>12. ASSUME SetFeedback PROVE LoopInv'
  <2>1. /\ stage[Declarer] = "running" /\ stage'[Declarer] = "archiving" /\ toArchive' = Loop
        /\ feedbackFile' = attempt[Declarer] /\ feedback' = attempt[Declarer]
        /\ UNCHANGED <<previous, previousFile, rounds, attempt, firedBy, closedWith, records>>
        /\ \A m \in Loop \ {Declarer} : stage'[m] = "done"
    BY <1>12, <1>a, <1>b, <1>c DEF SetFeedback, Becomes
  <2>2. attempt[Declarer] >= 1
    BY <2>1, <1>a DEF ControlInv, RecordInv, Executing, ExecStage
  <2>3. HoldsNothing' /\ HoldsTheRound' /\ ArchivesTheRound'
    BY <2>1 DEF HoldsNothing, HoldsTheRound, ArchivesTheRound
  <2>4. NeverOlder'
    BY <2>1, <1>f DEF LoopInv, NeverOlder
  <2>5. MarkerHasFiles'
    BY <2>1, <2>2, <1>e, <1>f DEF LoopInv, MarkerHasFiles, MidLoop
  <2> QED BY <2>3, <2>4, <2>5 DEF LoopInv
<1>13. ASSUME NEW n \in Loop, ArchiveRound(n) PROVE LoopInv'
  <2>1. /\ stage[Declarer] = "archiving" /\ n \in Node /\ toArchive' = toArchive \ {n}
        /\ previousFile' = [previousFile EXCEPT ![n] = Archived(n)] /\ previous' = [previous EXCEPT ![n] = Archived(n)]
        /\ UNCHANGED <<feedback, feedbackFile, rounds, attempt, firedBy, closedWith, records, stage, out, artifacts>>
    BY <1>13, <1>a DEF ArchiveRound
  <2>2. Archived(n) \in 1..MaxExecs /\ (n = Declarer => Archived(n) = attempt[Declarer])
    BY <2>1, ArchivedReply
  <2>3. \A m : Archived(m)' = Archived(m)
    BY <2>1 DEF Archived, Resolve
  <2>4. \A m \in Node \ {n} : previousFile'[m] = previousFile[m] /\ previous'[m] = previous[m]
    BY <2>1, <1>b
  <2>5. previousFile'[n] = Archived(n) /\ previous'[n] = Archived(n)
    BY <2>1, <1>b
  <2>6. HoldsNothing' /\ HoldsTheRound'
    BY <2>1, <1>c DEF HoldsNothing, HoldsTheRound
  <2>7. ArchivesTheRound'
    <3> SUFFICES ASSUME NEW m \in Loop \ toArchive' PROVE previousFile'[m] = Archived(m) /\ previous'[m] = Archived(m)
      BY <2>1, <2>3 DEF LoopInv, ArchivesTheRound
    <3>1. m = n \/ m \in Loop \ toArchive
      BY <2>1
    <3> QED BY <3>1, <2>1, <2>4, <2>5, <1>a DEF LoopInv, ArchivesTheRound
  <2>8. NeverOlder'
    <3>1. previousFile'[Declarer] \in {previousFile[Declarer], attempt[Declarer]}
          /\ previous'[Declarer] \in {previous[Declarer], attempt[Declarer]}
      BY <2>2, <2>4, <2>5, <1>a
    <3> QED BY <3>1, <2>1, <1>f DEF LoopInv, NeverOlder
  <2>9. MarkerHasFiles'
    <3>1. Archived(n) \notin {NoReply, Torn}
      BY <2>2, <1>a, <1>e
    <3> QED BY <3>1, <2>1, <2>4, <2>5, <1>a DEF LoopInv, MarkerHasFiles, MidLoop
  <2> QED BY <2>6, <2>7, <2>8, <2>9 DEF LoopInv
<1>14. ASSUME Fire PROVE LoopInv'
  <2>1. /\ stage[Declarer] = "archiving" /\ toArchive = {} /\ rounds'[Declarer] = rounds[Declarer] + 1
        /\ stage'[Declarer] = "waiting" /\ firedBy' = attempt[Declarer]
        /\ UNCHANGED <<previous, previousFile, feedback, feedbackFile, attempt>>
        /\ closedWith' = [n \in Node |-> IF n = Declarer THEN attempt[n] ELSE IF n \in Loop THEN records[n].reply ELSE NoReply]
    BY <1>14, <1>a, <1>b DEF Fire, FireReady
  <2>2. feedback = attempt[Declarer] /\ feedbackFile = attempt[Declarer]
    BY <2>1 DEF LoopInv, ArchivesTheRound
  <2>3. \A n \in Loop : previousFile[n] = Archived(n) /\ previous[n] = Archived(n)
    BY <2>1 DEF LoopInv, ArchivesTheRound
  <2>4. \A n \in Loop : closedWith'[n] = Archived(n) /\ Archived(n) \in 1..MaxExecs
    BY <2>1, <1>a, ArchivedReply
  <2>5. closedWith'[Declarer] = attempt[Declarer] /\ Archived(Declarer) = attempt[Declarer]
    BY <2>1, <1>a DEF Archived
  <2>6. HoldsNothing' /\ ArchivesTheRound'
    BY <2>1, <1>f DEF HoldsNothing, ArchivesTheRound
  <2>7. HoldsTheRound'
    BY <2>1, <2>2, <2>3, <2>4 DEF HoldsTheRound
  <2>8. NeverOlder'
    BY <2>1, <2>2, <2>3, <2>5, <1>a, <1>f DEF NeverOlder
  <2>9. MarkerHasFiles'
    <3>a. feedbackFile' = feedbackFile /\ previousFile' = previousFile
      BY <2>1
    <3>b. \A n \in Loop : Archived(n) \in 1..MaxExecs
      BY <2>4
    <3>c. Declarer \in Loop
      BY <1>a
    <3>d. attempt[Declarer] \in 1..MaxExecs
      BY <3>b, <3>c, <2>5
    <3>1. feedbackFile' \in 1..MaxExecs
      BY <3>a, <3>d, <2>2
    <3>e. \A n \in Loop : previousFile[n] \in 1..MaxExecs
      BY <3>b, <2>3
    <3>3. \A n \in Loop : previousFile'[n] \in 1..MaxExecs
      BY <3>a, <3>e
    <3>2. \A reply \in 1..MaxExecs : reply \notin {NoReply, Torn}
      BY <1>a, <1>e
    <3> QED BY <3>1, <3>2, <3>3 DEF MarkerHasFiles
  <2> QED BY <2>6, <2>7, <2>8, <2>9 DEF LoopInv
<1>15. ASSUME Resume PROVE LoopInv'
  <2>1. /\ records' = [m \in Node |-> IF m \in Cleared THEN NoRecord ELSE records[m]]
        /\ stage' = [m \in Node |-> IF Seeded(m) /\ m \notin Superseded THEN "done" ELSE "waiting"]
        /\ rounds'[Declarer] = IF MidLoop THEN records[Declarer].round ELSE 0
        /\ feedback' = (IF MidLoop THEN feedbackFile ELSE NoReply)
        /\ \A m \in Loop : previous'[m] = IF MidLoop THEN previousFile[m] ELSE NoReply
        /\ UNCHANGED <<feedbackFile, previousFile, attempt>>
        /\ MidLoop => UNCHANGED <<firedBy, closedWith>>
        /\ ~MidLoop => firedBy' = NoReply /\ closedWith' = Nothing
    BY <1>15, <1>a DEF Resume, SeedFeedback, SeedPrevious
  <2>2. stage'[Declarer] # "archiving"
    BY <2>1, <1>a
  <2>3. ArchivesTheRound'
    BY <2>2 DEF ArchivesTheRound
  <2>4. CASE ~MidLoop
    <3>1. rounds'[Declarer] = 0 /\ feedback' = NoReply /\ firedBy' = NoReply /\ closedWith'[Declarer] = NoReply
          /\ \A m \in Loop : previous'[m] = NoReply
      BY <2>1, <2>4, <1>a DEF Nothing
    <3>2. ~MidLoop'
      BY <2>1, <2>4, <1>a DEF MidLoop, NoRecord
    <3>3. HoldsNothing' /\ HoldsTheRound' /\ NeverOlder' /\ MarkerHasFiles'
      BY <2>1, <3>1, <3>2, <1>e, <1>f DEF HoldsNothing, HoldsTheRound, NeverOlder, MarkerHasFiles
    <3> QED BY <3>3, <2>3 DEF LoopInv
  <2>5. CASE MidLoop
    <3>1. /\ rounds'[Declarer] = rounds[Declarer] /\ rounds[Declarer] > 0
          /\ records[Declarer].verdict = "marker"
      BY <2>1, <2>5 DEF MidLoop, ControlInv, RoundInv
    <3>2. feedback' = feedbackFile /\ (\A m \in Loop : previous'[m] = previousFile[m]) /\ UNCHANGED <<firedBy, closedWith>>
      BY <2>1, <2>5
    <3>3. \A m \in Loop : stage[m] = "done" => stage'[m] = "done"
      <4> SUFFICES ASSUME NEW m \in Loop, stage[m] = "done" PROVE stage'[m] = "done"
        OBVIOUS
      <4>1. m \in Node /\ records[m].verdict = "PASS" /\ m \notin Superseded
        BY <1>a DEF ControlInv, RecordInv
      <4>2. m \notin Cleared
        BY <3>1, <4>1 DEF Cleared
      <4> QED BY <2>1, <4>1, <4>2 DEF Seeded
    <3>4. HoldsNothing'
      BY <3>1, <1>f DEF HoldsNothing
    <3>5. HoldsTheRound'
      BY <2>1, <3>1, <3>2, <3>3 DEF HoldsTheRound, LoopInv
    <3>6. NeverOlder'
      BY <2>1, <3>1, <3>2, <1>a, <1>f DEF NeverOlder, LoopInv
    <3>7. MarkerHasFiles'
      BY <2>1, <2>5 DEF MarkerHasFiles, LoopInv
    <3> QED BY <2>3, <3>4, <3>5, <3>6, <3>7 DEF LoopInv
  <2> QED BY <2>4, <2>5
<1>16. ASSUME UNCHANGED handoffVars PROVE LoopInv'
  BY <1>16 DEF handoffVars, LoopInv, HoldsNothing, HoldsTheRound, NeverOlder, MarkerHasFiles, ArchivesTheRound, MidLoop, Archived, Resolve
<1> QED BY <1>1, <1>2, <1>3, <1>4, <1>5, <1>6, <1>7, <1>8, <1>9, <1>10, <1>11, <1>12, <1>13, <1>14, <1>15, <1>16 DEF HandoffNext

----------------------------------------------------------------------------
(* The theorems. *)

\* The four parts together are inductive.
LEMMA HandoffInductive == HandoffSpec => []HandoffInv
<1>1. HandoffInit => HandoffInv
  BY HandoffInvInit, HandoffAssumption, LoopAssumption
<1>2. HandoffInv /\ [HandoffNext]_handoffVars => HandoffInv'
  <2> SUFFICES ASSUME HandoffInv, [HandoffNext]_handoffVars PROVE HandoffInv'
    OBVIOUS
  <2>1. ControlInv'
    BY ControlStep, HandoffAssumption, LoopAssumption DEF HandoffInv
  <2>2. DiskInv'
    BY DiskStep, HandoffAssumption, LoopAssumption DEF HandoffInv
  <2>3. ToldInv'
    BY ToldStep, HandoffAssumption, LoopAssumption DEF HandoffInv
  <2>4. LoopInv'
    BY <2>1, LoopStep, HandoffAssumption, LoopAssumption DEF HandoffInv
  <2> QED BY <2>1, <2>2, <2>3, <2>4 DEF HandoffInv
<1> QED BY <1>1, <1>2, PTL DEF HandoffSpec

\* Whatever the graph, its loop, the number of legs and of executions: every
\* file, record and invocation is of its kind.
THEOREM HandoffTypes == HandoffSpec => []HandoffTypeOK
<1>1. HandoffInv => HandoffTypeOK
  BY DEF HandoffInv, ControlInv
<1> QED BY <1>1, HandoffInductive, PTL

\* A running node is told of each parent the reply its PASS record stands for,
\* and resumes the session of that reply (BuildInvocation over PersistOutput).
THEOREM InputsRecorded == HandoffSpec => []InputsAreRecorded
<1>1. HandoffInv => InputsAreRecorded
  <2> SUFFICES ASSUME HandoffInv, NEW n \in Node, stage[n] \in Executing
               PROVE  /\ \A p \in Parents[n] : records[p].verdict = "PASS" /\ told[n].inputs[p] = records[p].reply
                      /\ told[n].session # NoReply => \A p \in Parents[n] : told[n].session = told[n].inputs[p]
    BY DEF InputsAreRecorded
  <2>1. stage[n] # "waiting"
    BY DEF Executing
  <2>2. \A p \in Parents[n] : p \in Node /\ stage[p] = "done"
    BY <2>1, HandoffAssumption DEF HandoffInv, ControlInv, StageInv, HandoffAssumption
  <2>3. \A p \in Parents[n] : records[p].verdict = "PASS"
    BY <2>2 DEF HandoffInv, ControlInv, RecordInv
  <2> QED BY <2>3 DEF HandoffInv, ToldInv, ToldOf
<1> QED BY <1>1, HandoffInductive, PTL

\* A round's files, the marker beside them and what its nodes are told agree,
\* wherever a leg dies (SetFeedback, ArchiveRound, the marker, and continueRun
\* reading them back).
THEOREM RoundFiles == HandoffSpec => []FilesAgree
<1>1. HandoffInv => RoundsAgree
  <2> SUFFICES ASSUME HandoffInv, NEW n \in Loop, stage[n] \in Executing \ {"archiving"}
               PROVE  /\ rounds[n] = 0 => told[n].feedback = NoReply /\ told[n].previous = NoReply
                      /\ n # Declarer /\ rounds[n] > 0 => told[n].feedback = firedBy /\ told[n].previous = closedWith[n]
                      /\ n = Declarer /\ rounds[n] > 0 => told[n].feedback >= firedBy /\ told[n].previous >= closedWith[n]
                      /\ \A p \in Parents[n] \cap Loop : records[p].round = rounds[n]
    BY DEF RoundsAgree
  <2>1. n \in Node /\ Declarer \in Loop /\ Declarer \in Node /\ rounds[n] = rounds[Declarer] /\ stage[n] \notin {"waiting", "done"}
    BY LoopAssumption DEF LoopAssumption, HandoffInv, ControlInv, RoundInv, Executing
  <2>2. n # Declarer => stage[Declarer] = "waiting"
    BY <2>1, BodyDone, HandoffAssumption, LoopAssumption DEF HandoffInv, ControlInv
  <2>3. told[n].feedback = feedback /\ told[n].previous = previous[n]
    BY <2>1 DEF HandoffInv, ToldInv, ToldOf
  <2>4. stage[Declarer] # "archiving" /\ stage[Declarer] # "done"
    BY <2>1, <2>2
  <2>5. rounds[n] = 0 => feedback = NoReply /\ previous[n] = NoReply
    BY <2>1, <2>4 DEF HandoffInv, LoopInv, HoldsNothing
  <2>6. n # Declarer /\ rounds[n] > 0 => feedback = firedBy /\ previous[n] = closedWith[n]
    BY <2>1 DEF HandoffInv, LoopInv, HoldsTheRound
  <2>7. n = Declarer /\ rounds[n] > 0 => feedback >= firedBy /\ previous[n] >= closedWith[n]
    BY <2>1 DEF HandoffInv, LoopInv, NeverOlder
  <2>8. ASSUME NEW p \in Parents[n] \cap Loop PROVE records[p].round = rounds[n]
    <3>1. records[Declarer].verdict # "PASS"
      BY <2>1, <2>4 DEF HandoffInv, ControlInv, RecordInv, Superseded, MidLoop
    <3>2. stage[p] = "done"
      BY <2>1 DEF HandoffInv, ControlInv, StageInv
    <3> QED BY <2>1, <3>1, <3>2 DEF HandoffInv, ControlInv, RoundInv
  <2> QED BY <2>3, <2>5, <2>6, <2>7, <2>8
<1>2. HandoffInv => FilesMatchRecords
  BY DEF HandoffInv, LoopInv, MarkerHasFiles, DiskInv, DiskOf, FilesMatchRecords
<1>3. HandoffInv => FilesAgree
  BY <1>1, <1>2 DEF FilesAgree
<1> QED BY <1>3, HandoffInductive, PTL

\* A reply quoted into an execution is the attempt it repeats, or the reply that
\* last failed the node since it last passed, and then no session is resumed
\* (TakePriorReply, prepareRetry, SeedPriorReply).
THEOREM PriorNewest == HandoffSpec => PriorIsNewest
<1>1. ASSUME HandoffInv, [HandoffNext]_handoffVars, NEW n \in Node, attempt'[n] # attempt[n], told'[n].prior # NoReply
      PROVE  /\ told'[n].prior = IF stage[n] = "running" THEN attempt[n] ELSE lastFailed[n]
             /\ told'[n].session = NoReply
  <2>t. /\ attempt \in [Node -> Reply] /\ told \in [Node -> Invocation] /\ baseInvocation \in [Node -> Invocation]
        /\ priorReplies[n] \in {NoReply, lastFailed[n]}
    BY <1>1 DEF HandoffInv, ControlInv, HandoffTypeOK, DiskInv, DiskOf
  <2>1. CASE Start(n)
    <3>1. stage[n] = "waiting" /\ told'[n] = IF priorReplies[n] = NoReply THEN InterpolateAs(n)
                                             ELSE StartCold(InterpolateAs(n), priorReplies[n])
      BY <2>1, <2>t DEF Start, Runnable
    <3>2. InterpolateAs(n).prior = NoReply
      BY DEF InterpolateAs
    <3>3. priorReplies[n] = lastFailed[n] /\ priorReplies[n] # NoReply
      BY <1>1, <2>t, <3>1, <3>2
    <3>4. told'[n].prior = priorReplies[n] /\ told'[n].session = NoReply
      BY <3>1, <3>3 DEF StartCold, InterpolateAs
    <3> QED BY <3>1, <3>3, <3>4
  <2>2. ASSUME NEW judged \in BOOLEAN, NEW said \in BOOLEAN, Retry(n, judged, said)
        PROVE  /\ told'[n].prior = IF stage[n] = "running" THEN attempt[n] ELSE lastFailed[n]
               /\ told'[n].session = NoReply
    <3> DEFINE quote == RetryQuote(n, judged, said)
    <3>1. stage[n] = "running" /\ told'[n] = StartCold(baseInvocation[n], quote) /\ baseInvocation[n] \in Invocation
      BY <2>2, <2>t DEF Retry
    <3>2. quote \in {NoReply, attempt[n]}
      BY DEF RetryQuote
    <3>3. told'[n].prior = quote /\ told'[n].session = NoReply
      <4> HIDE DEF quote
      <4> QED BY <3>1 DEF StartCold, Invocation
    <3> QED BY <1>1, <3>1, <3>2, <3>3
  <2>3. Start(n) \/ \E judged, said \in BOOLEAN : Retry(n, judged, said)
    <3>1. ASSUME NEW m \in Node, Start(m) PROVE m = n
      BY <3>1, <1>1, <2>t DEF Start
    <3>2. ASSUME NEW m \in Node, NEW judged \in BOOLEAN, NEW said \in BOOLEAN, Retry(m, judged, said) PROVE m = n
      BY <3>2, <1>1, <2>t DEF Retry
    <3>3. attempt' # attempt
      BY <1>1
    <3>4. \A m \in Node : ~OpenOutput(m) /\ ~PersistOutput(m) /\ ~DropFailure(m) /\ ~RecordPass(m) /\ ~RecordFail(m) /\ ~RunFails(m)
      BY <3>3 DEF OpenOutput, PersistOutput, DropFailure, RecordPass, RecordFail, RunFails
    <3>5. \A m \in Node, said \in BOOLEAN : ~FailJudged(m, said) /\ ~FailUnjudged(m, said) /\ ~PersistFails(m, said)
      BY <3>3 DEF FailJudged, FailUnjudged, PersistFails, PersistFailure
    <3>6. ~SetFeedback /\ (\A m \in Loop : ~ArchiveRound(m)) /\ ~Fire /\ ~Resume /\ ~UNCHANGED handoffVars
      BY <3>3 DEF SetFeedback, ArchiveRound, Fire, Resume, handoffVars
    <3>7. (\E m \in Node : Start(m)) \/ \E m \in Node, judged, said \in BOOLEAN : Retry(m, judged, said)
      BY <1>1, <3>4, <3>5, <3>6 DEF HandoffNext
    <3> QED BY <3>1, <3>2, <3>7
  <2> QED BY <2>1, <2>2, <2>3
<1>2. HandoffInv /\ [HandoffNext]_handoffVars =>
        [\A n \in Node : attempt'[n] # attempt[n] /\ told'[n].prior # NoReply =>
            /\ told'[n].prior = IF stage[n] = "running" THEN attempt[n] ELSE lastFailed[n]
            /\ told'[n].session = NoReply]_handoffVars
  BY <1>1
<1> QED BY <1>2, HandoffInductive, PTL DEF HandoffSpec, PriorIsNewest
=============================================================================
