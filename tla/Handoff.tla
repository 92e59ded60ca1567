------------------------------- MODULE Handoff -------------------------------
(***************************************************************************)
(* What one node hands to another, and to its own next attempt.  A leg     *)
(* keeps artifact paths, sessions, feedback payloads and earlier replies   *)
(* in memory; the run directory keeps the files a later leg re-reads them  *)
(* from, each written in steps of its own beside the snapshot's records.   *)
(* A leg may die between any two of those steps, and `resume               *)
(* --retry-failed` opens the next one.                                     *)
(*                                                                         *)
(* A reply is named by the execution of its node that gave it (1, 2, ...), *)
(* so that reading a file says whose and which reply was read.  The launch *)
(* order is the graph's; module Scheduler has what this one leaves out     *)
(* (slots, gates, halts, the ledger).                                      *)
(***************************************************************************)
EXTENDS Naturals, FiniteSets

CONSTANTS
    Node,
    Parents,     \* [Node -> SUBSET Node]
    Sessions,    \* the nodes with handoff: session
    Declarer,    \* the node that declares the feedback arc
    Loop,        \* its body, the declarer included
    MaxRounds,   \* the arc's max
    MaxExecs,    \* bound: executions of one node, retries included
    MaxLegs      \* bound: legs of the run

ASSUME HandoffAssumption ==
    /\ IsFiniteSet(Node) /\ Parents \in [Node -> SUBSET Node]
    /\ Sessions \subseteq Node
    /\ \A n \in Sessions : \E p \in Node : Parents[n] = {p}
    /\ {MaxRounds, MaxExecs} \subseteq Nat /\ MaxLegs \in Nat \ {0}
\* validateFeedback: every body node leads to the declarer, and out of the body
\* through the declarer alone.
ASSUME LoopAssumption ==
    /\ Declarer \in Loop /\ Loop \subseteq Node
    /\ \A n \in Node \ Loop : Parents[n] \cap Loop \subseteq {Declarer}
    /\ \A ns \in SUBSET Loop :
          Declarer \in ns /\ (\A n \in ns : Parents[n] \cap Loop \subseteq ns) => ns = Loop

VARIABLES
    out,          \* <id>.out: the reply on disk
    feedbackFile, \* feedback/<declarer>.out
    previousFile, \* previous/<id>.out
    failedFile,   \* failed/<id>.out
    records,      \* snapshot: Nodes
    artifacts,    \* memory: the nodes with a registered artifact path
    sessions,     \* memory: the session a session child would resume
    feedback,     \* memory: the declarer's payload
    previous,     \* memory: each node's reply of the round before
    priorReplies, \* memory: seeded failed replies not yet taken
    rounds,       \* memory: the feedback round of each body node
    stage,        \* where the leg is with each node
    attempt,      \* the execution of each node, counted over the run
    told,         \* what the running attempt's invocation was built from
    baseInvocation, \* the interpolated invocation every retry is rebuilt from
    toArchive,    \* the body nodes ArchiveRound has still to write
    legs,
    firedBy,      \* history: the reply whose failure opened the round
    closedWith,   \* history: each body node's reply in the round before
    lastFailed,   \* history: the newest reply since the node's last PASS that failed it
    faulted       \* history: the last execution's reply, if a check found fault with it

handoffFiles == <<out, feedbackFile, previousFile, failedFile>>
handoffMemory == <<artifacts, sessions, feedback, previous, priorReplies, rounds>>
running == <<stage, attempt, told, baseInvocation, toArchive>>
handoffHistory == <<firedBy, closedWith, lastFailed, faulted>>
handoffVars == <<handoffFiles, records, handoffMemory, running, legs, handoffHistory>>

NoReply == 0
Torn == MaxExecs + 1
Reply == 0..MaxExecs
Content == 0..Torn

Invocation == [inputs : [Node -> Content], session : Reply, feedback : Reply,
               previous : Content, prior : Reply]
NoInvocation == [inputs |-> [n \in Node |-> NoReply], session |-> NoReply,
                 feedback |-> NoReply, previous |-> NoReply, prior |-> NoReply]
Record == [verdict : {"none", "PASS", "FAIL", "marker"}, round : 0..MaxRounds,
           judged : BOOLEAN, reply : Reply]
NoRecord == [verdict |-> "none", round |-> 0, judged |-> FALSE, reply |-> NoReply]

\* "kept" and "kept unjudged": the reply is saved, the FAIL not yet recorded.
ExecStage == {"waiting", "running", "writing", "persisted", "dropped", "done",
          "kept", "kept unjudged", "failed", "archiving"}
Executing == ExecStage \ {"waiting", "done", "failed"}

HandoffTypeOK ==
    /\ out \in [Node -> Content] /\ failedFile \in [Node -> Reply]
    /\ feedbackFile \in Reply /\ previousFile \in [Node -> Content]
    /\ records \in [Node -> Record]
    /\ artifacts \subseteq Node /\ sessions \in [Node -> Reply]
    /\ feedback \in Reply /\ previous \in [Node -> Content]
    /\ priorReplies \in [Node -> Reply]
    /\ rounds \in [Node -> 0..MaxRounds]
    /\ stage \in [Node -> ExecStage] /\ attempt \in [Node -> Reply]
    /\ told \in [Node -> Invocation] /\ baseInvocation \in [Node -> Invocation]
    /\ toArchive \subseteq Loop
    /\ legs \in 1..MaxLegs
    /\ firedBy \in Reply /\ closedWith \in [Node -> Content]
    /\ lastFailed \in [Node -> Reply] /\ faulted \in [Node -> Reply]

Nothing == [n \in Node |-> NoReply]

HandoffInit ==
    /\ out = Nothing /\ previousFile = Nothing /\ failedFile = Nothing
    /\ feedbackFile = NoReply
    /\ records = [n \in Node |-> NoRecord]
    /\ artifacts = {} /\ sessions = Nothing /\ feedback = NoReply
    /\ previous = Nothing /\ priorReplies = Nothing
    /\ rounds = [n \in Node |-> 0]
    /\ stage = [n \in Node |-> "waiting"] /\ attempt = Nothing
    /\ told = [n \in Node |-> NoInvocation] /\ baseInvocation = [n \in Node |-> NoInvocation]
    /\ toArchive = {} /\ legs = 1
    /\ firedBy = NoReply /\ closedWith = Nothing /\ lastFailed = Nothing /\ faulted = Nothing

Becomes(n, s) == stage' = [stage EXCEPT ![n] = s]

----------------------------------------------------------------------------
(* Building an attempt. *)

\* resolveLocked, {{ artifacts.<id> }}: the file at the registered path; an
\* unregistered one is an InterpolationError.
Resolve(p) == IF p \in artifacts THEN out[p] ELSE NoReply

\* ResumeSessionFor: the session of the node's only parent.
ResumeSessionFor(n) ==
    IF n \in Sessions THEN sessions[CHOOSE p \in Node : Parents[n] = {p}] ELSE NoReply

\* {{ feedback.<id> }} is legal in the body only; {{ self.previous }} anywhere.
InterpolateAs(n) ==
    [inputs |-> [p \in Node |-> IF p \in Parents[n] THEN Resolve(p) ELSE NoReply],
     session |-> ResumeSessionFor(n),
     feedback |-> IF n \in Loop THEN feedback ELSE NoReply,
     previous |-> previous[n],
     prior |-> NoReply]

\* startCold: an execution that quotes a failed attempt resumes no session.
StartCold(invocation, reply) == [invocation EXCEPT !.session = NoReply, !.prior = reply]

TakenAndKept(n) == priorReplies
\* TakePriorReply hands a seeded reply over and forgets it.
Taken(n) == [priorReplies EXCEPT ![n] = NoReply]

Runnable(n) == stage[n] = "waiting" /\ attempt[n] < MaxExecs
               /\ \A p \in Parents[n] : stage[p] = "done"

\* runNode up to the first spawn: the seeded reply is taken, the prompt built.
Start(n) ==
    /\ Runnable(n)
    /\ priorReplies' = Taken(n)
    /\ baseInvocation' = [baseInvocation EXCEPT ![n] = InterpolateAs(n)]
    /\ told' = [told EXCEPT ![n] = IF priorReplies[n] = NoReply THEN InterpolateAs(n)
                                   ELSE StartCold(InterpolateAs(n), priorReplies[n])]
    /\ attempt' = [attempt EXCEPT ![n] = @ + 1]
    /\ Becomes(n, "running")
    /\ UNCHANGED <<handoffFiles, records, artifacts, sessions, feedback, previous, rounds,
                   toArchive, legs, handoffHistory>>

\* Only an attempt that a check judged is quoted.
RetryQuote(n, judged, said) == IF judged /\ said THEN attempt[n] ELSE NoReply
\* prepareRetry: rebuilt from the base, quoting the attempt just judged or nothing.
Retry(n, judged, said) ==
    /\ stage[n] = "running" /\ attempt[n] < MaxExecs
    /\ told' = [told EXCEPT ![n] = StartCold(baseInvocation[n], RetryQuote(n, judged, said))]
    /\ attempt' = [attempt EXCEPT ![n] = @ + 1]
    /\ faulted' = [faulted EXCEPT ![n] = RetryQuote(n, judged, said)]
    /\ UNCHANGED <<handoffFiles, records, handoffMemory, stage, baseInvocation, toArchive, legs, firedBy,
                   closedWith, lastFailed>>

----------------------------------------------------------------------------
(* A pass: PersistOutput, then recordPass. *)

\* os.WriteFile truncates the artifact and then writes it.
OpenOutput(n) ==
    /\ stage[n] = "running"
    /\ out' = [out EXCEPT ![n] = Torn]
    /\ Becomes(n, "writing")
    /\ UNCHANGED <<feedbackFile, previousFile, failedFile, records, handoffMemory, attempt,
                   told, baseInvocation, toArchive, legs, handoffHistory>>

PersistOutput(n) ==
    /\ stage[n] = "writing"
    /\ out' = [out EXCEPT ![n] = attempt[n]]
    /\ artifacts' = artifacts \cup {n}
    /\ sessions' = [sessions EXCEPT ![n] = attempt[n]]
    /\ Becomes(n, "persisted")
    /\ UNCHANGED <<feedbackFile, previousFile, failedFile, records, feedback, previous,
                   priorReplies, rounds, attempt, told, baseInvocation, toArchive, legs, handoffHistory>>

Dropped(n) == [failedFile EXCEPT ![n] = NoReply]
\* DropFailure: an earlier leg's failed reply stops being true of the node.
DropFailure(n) ==
    /\ stage[n] = "persisted"
    /\ failedFile' = Dropped(n)
    /\ Becomes(n, "dropped")
    /\ UNCHANGED <<out, feedbackFile, previousFile, records, handoffMemory, attempt, told, baseInvocation,
                   toArchive, legs, handoffHistory>>

Recorded(n, verdict, judged) ==
    records' = [records EXCEPT ![n] =
        [verdict |-> verdict, round |-> rounds[n], judged |-> judged,
         reply |-> attempt[n]]]

RecordPass(n) ==
    /\ stage[n] = "dropped"
    /\ Recorded(n, "PASS", FALSE)
    /\ lastFailed' = [lastFailed EXCEPT ![n] = NoReply]
    /\ faulted' = [faulted EXCEPT ![n] = NoReply]
    /\ Becomes(n, "done")
    /\ UNCHANGED <<handoffFiles, handoffMemory, attempt, told, baseInvocation, toArchive, legs, firedBy,
                   closedWith>>

----------------------------------------------------------------------------
(* A failure: judgeFeedback, or keepFailedReply and recordFail. *)

\* What the history remembers of an execution that failed the node.
Failing(n, judged, said) ==
    /\ lastFailed' = IF said THEN [lastFailed EXCEPT ![n] = attempt[n]] ELSE lastFailed
    /\ faulted' = [faulted EXCEPT ![n] = RetryQuote(n, judged, said)]

\* PersistFailure writes nothing for a reply that says nothing.
PersistFailure(n, judged, said) ==
    /\ failedFile' = IF said THEN [failedFile EXCEPT ![n] = attempt[n]] ELSE failedFile
    /\ Becomes(n, IF judged THEN "kept" ELSE "kept unjudged")
    /\ UNCHANGED <<out, feedbackFile, previousFile, records, handoffMemory, attempt, told, baseInvocation,
                   toArchive, legs, firedBy, closedWith>>

ArcFires(n) == n = Declarer /\ rounds[n] < MaxRounds

\* A judged failure is final, unless the node declares an arc with rounds left.
FailJudged(n, said) ==
    /\ stage[n] = "running" /\ ~ArcFires(n)
    /\ PersistFailure(n, TRUE, said) /\ Failing(n, TRUE, said)
\* No check judged the reply: a verification that could not be completed, or a
\* blown budget, found after the artifact has been persisted.
FailUnjudged(n, said) ==
    /\ stage[n] \in {"running", "persisted"}
    /\ PersistFailure(n, FALSE, said) /\ Failing(n, FALSE, said)
\* isJudgmentFailure reads every error it does not know as a non-zero exit: an
\* artifact that cannot be written, ...
PersistFails(n, said) ==
    /\ stage[n] = "writing"
    /\ PersistFailure(n, TRUE, said) /\ Failing(n, FALSE, said)
\* ... and a spawn, a timeout or a cancellation that left no reply at all.
RunFails(n) ==
    /\ stage[n] = "running"
    /\ Becomes(n, "kept")
    /\ Failing(n, FALSE, FALSE)
    /\ UNCHANGED <<handoffFiles, records, handoffMemory, attempt, told, baseInvocation, toArchive, legs,
                   firedBy, closedWith>>

RecordFail(n) ==
    /\ stage[n] \in {"kept", "kept unjudged"}
    /\ Recorded(n, "FAIL", stage[n] = "kept")
    /\ Becomes(n, "failed")
    /\ UNCHANGED <<handoffFiles, handoffMemory, attempt, told, baseInvocation, toArchive, legs, handoffHistory>>

SetFeedback ==
    /\ stage[Declarer] = "running" /\ ArcFires(Declarer)
    /\ feedbackFile' = attempt[Declarer] /\ feedback' = attempt[Declarer]
    /\ toArchive' = Loop
    /\ Becomes(Declarer, "archiving")
    /\ UNCHANGED <<out, previousFile, failedFile, records, artifacts, sessions, previous,
                   priorReplies, rounds, attempt, told, baseInvocation, legs, handoffHistory>>

\* The declarer's reply is passed in; any other body node's is its artifact.
Archived(n) == IF n = Declarer THEN attempt[n] ELSE Resolve(n)

ArchiveRound(n) ==
    /\ stage[Declarer] = "archiving" /\ n \in toArchive
    /\ toArchive' = toArchive \ {n}
    /\ previousFile' = [previousFile EXCEPT ![n] = Archived(n)]
    /\ previous' = [previous EXCEPT ![n] = Archived(n)]
    /\ UNCHANGED <<out, feedbackFile, failedFile, records, artifacts, sessions, feedback,
                   priorReplies, rounds, stage, attempt, told, baseInvocation, legs, handoffHistory>>

\* The round is counted, the marker recorded, and the body re-armed.
FireEarly == stage[Declarer] = "archiving"
FireReady == stage[Declarer] = "archiving" /\ toArchive = {}
Fire ==
    LET round == rounds[Declarer] + 1 IN
    /\ FireReady
    /\ rounds' = [n \in Node |-> IF n \in Loop THEN round ELSE rounds[n]]
    /\ records' = [records EXCEPT ![Declarer] =
           [verdict |-> "marker", round |-> round, judged |-> FALSE, reply |-> NoReply]]
    /\ stage' = [n \in Node |-> IF n \in Loop THEN "waiting" ELSE stage[n]]
    /\ toArchive' = {}
    /\ firedBy' = attempt[Declarer]
    /\ closedWith' = [n \in Node |->
           IF n = Declarer THEN attempt[n]
           ELSE IF n \in Loop THEN records[n].reply ELSE NoReply]
    /\ UNCHANGED <<handoffFiles, artifacts, sessions, feedback, previous, priorReplies,
                   attempt, told, baseInvocation, legs, lastFailed, faulted>>

----------------------------------------------------------------------------
(* The leg ends, or dies, and the next is opened from the run directory. *)

\* partitionForRetry: a declarer that failed mid-loop takes its body with it.
Cleared ==
    {n \in Node : records[n].verdict = "FAIL"} \cup
    IF records[Declarer].verdict = "FAIL" /\ records[Declarer].round > 0
    THEN {n \in Loop : records[n].verdict # "none"} ELSE {}

MidLoop == records[Declarer].verdict = "marker"
SupersededNone == {}
Superseded == {n \in Loop : MidLoop /\ records[n].round < records[Declarer].round}

\* continueRun seeds the reply of a cleared node whose failure was judged.
SeedPriorReply(n) ==
    IF n \in Cleared /\ records[n].judged THEN failedFile[n] ELSE NoReply

\* The payload and the archived replies are re-read for a loop left open only.
SeedFeedback == IF MidLoop THEN feedbackFile ELSE NoReply
SeedPrevious(n) == IF MidLoop /\ n \in Loop THEN previousFile[n] ELSE NoReply

Seeded(n) == records[n].verdict = "PASS" /\ n \notin Cleared

Resume ==
    /\ legs < MaxLegs /\ legs' = legs + 1
    /\ \E n \in Node : ~Seeded(n) \/ n \in Superseded
    /\ records' = [n \in Node |-> IF n \in Cleared THEN NoRecord ELSE records[n]]
    /\ artifacts' = {n \in Node : Seeded(n)}
    /\ sessions' = [n \in Node |-> IF Seeded(n) THEN records[n].reply ELSE NoReply]
    /\ feedback' = SeedFeedback
    /\ previous' = [n \in Node |-> SeedPrevious(n)]
    /\ priorReplies' = [n \in Node |-> SeedPriorReply(n)]
    /\ rounds' = [n \in Node |-> IF MidLoop /\ n \in Loop THEN records[Declarer].round ELSE 0]
    /\ stage' = [n \in Node |->
           IF Seeded(n) /\ n \notin Superseded THEN "done" ELSE "waiting"]
    /\ told' = [n \in Node |-> NoInvocation] /\ baseInvocation' = [n \in Node |-> NoInvocation]
    /\ toArchive' = {}
    /\ IF MidLoop THEN UNCHANGED <<firedBy, closedWith>>
       ELSE firedBy' = NoReply /\ closedWith' = Nothing
    /\ UNCHANGED <<handoffFiles, attempt, lastFailed, faulted>>

HandoffNext ==
    \/ \E n \in Node : Start(n) \/ OpenOutput(n) \/ PersistOutput(n) \/ DropFailure(n)
                       \/ RecordPass(n) \/ RecordFail(n)
    \/ \E n \in Node, judged, said \in BOOLEAN : Retry(n, judged, said)
    \/ \E n \in Node, said \in BOOLEAN : FailJudged(n, said) \/ FailUnjudged(n, said)
                                        \/ PersistFails(n, said)
    \/ \E n \in Node : RunFails(n)
    \/ SetFeedback
    \/ \E n \in Loop : ArchiveRound(n)
    \/ Fire
    \/ Resume

HandoffSpec == HandoffInit /\ [][HandoffNext]_handoffVars

----------------------------------------------------------------------------
(* Properties. *)

\* What a running node was told of a parent is the reply the parent's PASS
\* record stands for - never a torn file, an overspent attempt's artifact or an
\* earlier round's - and the session it resumes is the same reply's.
InputsAreRecorded == \A n \in Node : stage[n] \in Executing =>
    /\ \A p \in Parents[n] :
        records[p].verdict = "PASS" /\ told[n].inputs[p] = records[p].reply
    /\ told[n].session # NoReply =>
        \A p \in Parents[n] : told[n].session = told[n].inputs[p]

\* "quoted into exactly one execution" (TakePriorReply): a retry is shown the
\* attempt it repeats, and the first attempt of an execution the reply that last
\* failed the node, given since it last passed - once in a leg, also across legs
\* and however the failed file and the record got out of step.  An attempt so
\* told resumes no conversation (ADR 0020).
PriorIsNewest == [][\A n \in Node :
    attempt'[n] # attempt[n] /\ told'[n].prior # NoReply =>
        /\ told'[n].prior = IF stage[n] = "running" THEN attempt[n] ELSE lastFailed[n]
        /\ told'[n].session = NoReply]_handoffVars

\* A reply is quoted back to its node only when a check found fault with it:
\* "never a spawn error, an interpolation error, a blown budget, or a
\* verification that could not be completed" (runstate.go:307-312), and "the
\* attempt immediately before this one [...] is the only one a prompt may quote"
\* (scheduler.go:998-1000).
QuoteIsJudged == [][\A n \in Node :
    attempt'[n] # attempt[n] /\ told'[n].prior # NoReply =>
        told'[n].prior = faulted'[n]]_handoffVars

\* A body node in round k works from the payload that opened round k and from
\* its own reply of the round before, and judges replies of round k; outside a
\* round it is told of neither.  A
\* death between SetFeedback and the marker leaves newer files under an older
\* marker: then the declarer alone may be shown the newer ones, never older.
RoundsAgree == \A n \in Loop : stage[n] \in Executing \ {"archiving"} =>
    /\ rounds[n] = 0 => told[n].feedback = NoReply /\ told[n].previous = NoReply
    /\ n # Declarer /\ rounds[n] > 0 =>
        told[n].feedback = firedBy /\ told[n].previous = closedWith[n]
    /\ n = Declarer /\ rounds[n] > 0 =>
        told[n].feedback >= firedBy /\ told[n].previous >= closedWith[n]
    /\ \A p \in Parents[n] \cap Loop : records[p].round = rounds[n]

\* Wherever the process dies, the run directory holds what its records claim:
\* "a feedback re-run without its payload is a paid lie", so a marker on disk has
\* its payload and every body reply whole beside it; and no "run directory
\* holding the losing reply beside the winning artifact", so the PASS of the
\* current round has no failed reply beside it.
FilesMatchRecords ==
    /\ MidLoop =>
        /\ feedbackFile # NoReply
        /\ \A n \in Loop : previousFile[n] \notin {NoReply, Torn}
    /\ \A n \in Node :
        records[n].verdict = "PASS" /\ n \notin Superseded /\ stage[n] = "done" =>
            failedFile[n] = NoReply

\* A round's files, the marker beside them and what its nodes are told agree, in
\* every interleaving of the writes with the nodes and with deaths.
FilesAgree == RoundsAgree /\ FilesMatchRecords
=============================================================================
