------------------------------- MODULE GoalLoop -------------------------------
(***************************************************************************)
(* `auto --max-cycles N`: an interview before planning, then at most N     *)
(* cycles of plan, run and assess.  A refused plan buys one correction, a  *)
(* failed run is fed to the next cycle, and only the assessor, a ceiling   *)
(* on what was spent, or an error ends the loop early.  Every call is paid *)
(* for: it reports its cost, or reports that it does not know, or never    *)
(* answers.  A cycle's run has one leg, opened before its planner call.    *)
(* The models behind the calls and the nodes of the runs are external.     *)
(***************************************************************************)
EXTENDS Naturals, Sequences

CONSTANTS
    MaxCycles,     \* --max-cycles
    Ceilings,      \* values of --max-goal-budget-usd (0: none)
    MaxQuestions,  \* interview.MaxQuestions
    MaxRepairs,    \* maxPlanRepairAttempts
    SpawnAttempts  \* assessorSpawnAttempts

ASSUME GoalAssumption ==
    /\ MaxCycles \in Nat \ {0} /\ Ceilings \subseteq Nat
    /\ MaxQuestions \in Nat \ {0} /\ MaxRepairs \in Nat /\ SpawnAttempts \in Nat \ {0}

VARIABLES
    ceiling,    \* the launch's ceiling
    goalAt,     \* where the loop is
    interview,  \* interview.Result, and whether the launch asked for one
    cycle,      \* cycles begun
    correction, \* corrections bought by this cycle's planning
    spawns,     \* launches of the current call that never started a process
    stepBill,   \* plan()'s sum over its attempts
    planBill,   \* the accepted Plan's cost, with the interview's on cycle 1
    evidence,   \* CycleEvidence: how the run ended, and its cost
    loopBill,   \* RunGoal's spentUSD and spendUnknown
    reports,    \* GoalResult.Cycles: how many, their rows' sum, how the last run ended
    ending,     \* GoalResult.Stop, or the kind of error, and the cost it carries
    cycleLeg,   \* each cycle's leg as its stream shows it
    price,      \* the planning cost on the current leg's stream
    cancelled,  \* whether the user interrupted
    spend       \* history: what was really paid: in all, and by the current cycle

goalVars == <<ceiling, goalAt, interview, cycle, correction, spawns, stepBill, planBill, evidence,
              loopBill, reports, ending, cycleLeg, price, cancelled, spend>>

Cycle == 1..MaxCycles
Free == [usd |-> 0, unknown |-> FALSE]
Charge == {[usd |-> 1, unknown |-> FALSE], [usd |-> 0, unknown |-> TRUE]}
Unreported == [usd |-> 0, unknown |-> TRUE]
AddBill(a, b) == [usd |-> a.usd + b.usd, unknown |-> a.unknown \/ b.unknown]

Bill == [usd : Nat, unknown : BOOLEAN]
Stop == {"goal_met", "cycles_exhausted", "budget_exceeded", "budget_unmeasurable",
         "unrunnable_done_item"}
Failure == {"abandoned", "refused", "silent", "broken", "paused", "interrupted", "garbage"}

GoalTypeOK ==
    /\ ceiling \in Ceilings
    /\ goalAt \in {"asking", "answering", "boundary", "planning", "committed", "assessing", "ended"}
    /\ interview \in [on : BOOLEAN, asked : 0..MaxQuestions, answered : 0..MaxQuestions, bill : Bill]
    /\ cycle \in 0..MaxCycles /\ correction \in 0..MaxRepairs /\ spawns \in 0..(SpawnAttempts - 1)
    /\ {stepBill, planBill, loopBill} \subseteq Bill
    /\ evidence \in [run : {"none", "passed", "failed", "forbidden"}, cost : Bill]
    /\ reports \in [rows : Bill, number : {n \in {cycle - 1, cycle} : n >= 0},
                    last : {"none", "passed", "failed", "forbidden"}]
    /\ ending \in [how : {"none"} \cup Stop \cup Failure, bill : Bill]
    /\ (ending.how = "none") <=> (goalAt # "ended")
    /\ cycleLeg \in [Cycle -> {"none", "planning", "running", "passed", "failed", "paused"}]
    /\ price \in Bill
    /\ cancelled \in BOOLEAN
    /\ spend \in [all : Bill, plan : Bill, run : Bill]

GoalInit ==
    /\ ceiling \in Ceilings
    /\ interview \in [on : BOOLEAN, asked : {0}, answered : {0}, bill : {Free}]
    /\ goalAt = IF interview.on THEN "asking" ELSE "boundary"
    /\ cycle = 0 /\ correction = 0 /\ spawns = 0
    /\ stepBill = Free /\ planBill = Free /\ loopBill = Free
    /\ evidence = [run |-> "none", cost |-> Free]
    /\ reports = [rows |-> Free, number |-> 0, last |-> "none"]
    /\ ending = [how |-> "none", bill |-> Free]
    /\ cycleLeg = [c \in Cycle |-> "none"] /\ price = Free
    /\ cancelled = FALSE
    /\ spend = [all |-> Free, plan |-> Free, run |-> Free]

Pay(b) == spend' = [spend EXCEPT !.all = AddBill(@, b)]
PayPlanning(b) == spend' = [spend EXCEPT !.all = AddBill(@, b), !.plan = AddBill(@, b)]

\* Every close of a leg, the deferred sweeps included: the first one wins, and
\* only a leg that announced itself is closed on its stream.
Close(outcome, cost) ==
    IF cycle > 0 /\ cycleLeg[cycle] \in {"planning", "running"}
    THEN cycleLeg' = [cycleLeg EXCEPT ![cycle] = outcome] /\ price' = cost
    ELSE UNCHANGED <<cycleLeg, price>>

\* The loop returns an error of kind `how`; what the error's cost says is `bill`.
FailWith(how, bill) ==
    /\ goalAt' = "ended" /\ ending' = [how |-> how, bill |-> bill]

----------------------------------------------------------------------------
(* The interview, once, before cycle 1. *)

loopState == <<cycle, correction, stepBill, planBill, evidence, loopBill, reports>>
legState == <<cycleLeg, price>>

Ask(reply, bill) ==
    /\ goalAt = "asking" /\ ~cancelled
    /\ reply = "repeat" => interview.asked > 0
    /\ interview' = [interview EXCEPT !.bill = AddBill(@, bill),
                                      !.asked = @ + (IF reply = "question" THEN 1 ELSE 0)]
    /\ PayPlanning(bill)
    /\ goalAt' = IF reply = "question" THEN "answering" ELSE "boundary"
    /\ spawns' = 0
    /\ UNCHANGED <<ceiling, loopState, ending, legState, cancelled>>

AskFails(bill) ==
    /\ goalAt = "asking"
    /\ interview' = [interview EXCEPT !.bill = AddBill(@, bill)]
    /\ PayPlanning(IF bill = Free THEN Unreported ELSE bill)
    /\ FailWith("abandoned", interview'.bill)
    /\ UNCHANGED <<ceiling, loopState, spawns, legState, cancelled>>

Answer(line) ==
    /\ goalAt = "answering"
    /\ interview' = [interview EXCEPT !.answered = @ + (IF line = "answer" THEN 1 ELSE 0)]
    /\ \/ line = "eof" /\ interview.answered = 0 /\ FailWith("abandoned", interview.bill)
       \/ /\ line = "eof" => interview.answered > 0
          /\ goalAt' = IF line \in {"answer", "skip"} /\ interview.asked < MaxQuestions
                       THEN "asking" ELSE "boundary"
          /\ UNCHANGED ending
    /\ UNCHANGED <<ceiling, loopState, spawns, legState, cancelled, spend>>

----------------------------------------------------------------------------
(* The top of the loop. *)

OverCeiling == cycle > 0 /\ ceiling > 0 /\ loopBill.usd >= ceiling
Unmeasurable == cycle > 0 /\ ceiling > 0 /\ loopBill.unknown

StopLoop(how) ==
    /\ goalAt' = "ended" /\ ending' = [how |-> how, bill |-> Free]

Boundary ==
    /\ goalAt = "boundary"
    /\ \/ cycle = MaxCycles /\ StopLoop("cycles_exhausted")
       \/ cycle < MaxCycles /\ OverCeiling /\ StopLoop("budget_exceeded")
       \/ cycle < MaxCycles /\ ~OverCeiling /\ Unmeasurable /\ StopLoop("budget_unmeasurable")
    /\ UNCHANGED <<ceiling, interview, loopState, spawns, legState, cancelled, spend>>

\* onCyclePlanning: a run id, its lock, and the event that says PLANNING.
BeginCycle ==
    /\ goalAt = "boundary" /\ cycle < MaxCycles /\ ~OverCeiling /\ ~Unmeasurable
    /\ cycle' = cycle + 1 /\ price' = Free
    /\ spend' = [spend EXCEPT !.plan = IF cycle = 0 THEN @ ELSE Free, !.run = Free]
    /\ \/ /\ cycleLeg' = [cycleLeg EXCEPT ![cycle'] = "planning"]
          /\ goalAt' = "planning" /\ UNCHANGED ending
       \/ FailWith("broken", Free) /\ UNCHANGED cycleLeg
    /\ UNCHANGED <<ceiling, interview, correction, spawns, stepBill, planBill, evidence, loopBill,
                   reports, cancelled>>

----------------------------------------------------------------------------
(* coordinator.plan: one call, and one correction of what the validator refused. *)

InterviewBillAlways == IF interview.on THEN interview.bill ELSE Free
InterviewBill == IF interview.on /\ cycle = 1 THEN interview.bill ELSE Free
\* closeRejectedPlanning's: the interview is cycle 1's when no cycle completed.
RejectedPrice(step) ==
    IF interview.on /\ reports.number = 0 THEN AddBill(step, interview.bill) ELSE step

\* Planning is over: its locals are gone.
PlanningOver == correction' = 0 /\ stepBill' = Free /\ spawns' = 0

RejectUnclosed(how, step) ==
    FailWith(how, step) /\ UNCHANGED legState /\ PlanningOver

Reject(how, step) ==
    /\ FailWith(how, step) /\ Close("failed", RejectedPrice(step)) /\ PlanningOver

PlanReply(reply, bill) ==
    LET step == AddBill(stepBill, bill) IN
    /\ goalAt = "planning" /\ ~cancelled /\ PayPlanning(bill)
    /\ \/ /\ reply = "valid" /\ PlanningOver
          /\ planBill' = AddBill(step, InterviewBill)
          /\ goalAt' = "committed" /\ UNCHANGED <<ending, legState>>
       \/ /\ reply = "repairable" /\ correction < MaxRepairs
          /\ correction' = correction + 1 /\ stepBill' = step /\ spawns' = 0
          /\ UNCHANGED <<goalAt, planBill, ending, legState>>
       \/ /\ reply = "unusable" \/ (reply = "repairable" /\ correction >= MaxRepairs)
          /\ Reject("refused", step) /\ UNCHANGED planBill
    /\ UNCHANGED <<ceiling, interview, cycle, evidence, loopBill, reports, cancelled>>

\* The call ends without a reply: timed out, killed, garbled.  attemptPlan
\* returns no accounting for it, though the runner says its cost is unknown.
PlanSilent ==
    /\ goalAt = "planning" /\ PayPlanning(Unreported) /\ Reject("silent", stepBill)
    /\ UNCHANGED <<ceiling, interview, cycle, planBill, evidence, loopBill, reports, cancelled>>

\* runAssessorWithSpawnRetry: no process ran, so nothing was paid; the last
\* attempt's failure is the call's.
SpawnFails ==
    /\ goalAt \in {"asking", "planning", "assessing"}
    /\ \/ /\ spawns + 1 < SpawnAttempts /\ spawns' = spawns + 1
          /\ UNCHANGED <<goalAt, ending, correction, stepBill, legState>>
       \/ /\ spawns + 1 = SpawnAttempts \/ cancelled
          /\ \/ /\ goalAt = "planning" /\ Reject("silent", stepBill)
             \/ /\ goalAt = "asking" /\ FailWith("abandoned", interview.bill) /\ spawns' = 0
                /\ UNCHANGED <<correction, stepBill, legState>>
             \/ /\ goalAt = "assessing" /\ FailWith("broken", Free) /\ spawns' = 0
                /\ UNCHANGED <<correction, stepBill, legState>>
    /\ UNCHANGED <<ceiling, interview, cycle, planBill, evidence, loopBill, reports, cancelled, spend>>

----------------------------------------------------------------------------
(* The cycle's run, and its judgment. *)

NoEvidence == [run |-> "none", cost |-> Free]

\* executeGraph settles before the scheduler starts: a spec or a snapshot that
\* cannot be written, an interrupt during the remote snapshot.
SetupFails ==
    /\ goalAt = "committed" /\ cycleLeg[cycle] = "planning"
    /\ FailWith(IF cancelled THEN "interrupted" ELSE "broken", Free)
    /\ Close("failed", planBill)
    /\ UNCHANGED <<ceiling, interview, loopState, spawns, cancelled, spend>>

\* The scheduler's own run_started carries the planning cost from here on.
StartRun ==
    /\ goalAt = "committed" /\ cycleLeg[cycle] = "planning"
    /\ cycleLeg' = [cycleLeg EXCEPT ![cycle] = "running"] /\ price' = planBill
    /\ UNCHANGED <<ceiling, interview, loopState, spawns, goalAt, ending, cancelled, spend>>

\* The run's leg ends, and the cycle's evidence is read back from its snapshot.
RunEnds(how, nodes, readable) ==
    /\ goalAt = "committed" /\ cycleLeg[cycle] = "running"
    /\ spend' = [spend EXCEPT !.all = AddBill(@, nodes), !.run = nodes]
    /\ Close(IF how \in {"passed", "paused"} THEN how ELSE "failed", price)
    /\ planBill' = Free
    /\ IF how # "passed" /\ cancelled THEN FailWith("interrupted", Free) /\ UNCHANGED evidence
       ELSE IF how = "paused" THEN FailWith("paused", Free) /\ UNCHANGED evidence
       ELSE IF ~readable THEN FailWith("broken", Free) /\ UNCHANGED evidence
       ELSE /\ evidence' = [run |-> how, cost |-> AddBill(planBill, nodes)]
            /\ goalAt' = "assessing" /\ UNCHANGED ending
    /\ UNCHANGED <<ceiling, interview, cycle, correction, spawns, stepBill, loopBill, reports, cancelled>>

\* The assessor gives no verdict: a garbled reply stops the loop with what it
\* cost; a call without a reply, with an error that carries no cost.
NoVerdict(bill) ==
    /\ goalAt = "assessing"
    /\ \/ bill # Free /\ ~cancelled /\ Pay(bill) /\ FailWith("garbage", bill)
       \/ bill = Free /\ Pay(Unreported) /\ FailWith("broken", Free)
    /\ UNCHANGED <<ceiling, interview, loopState, spawns, legState, cancelled>>

\* What the loop has spent once the cycle's run and its assessment are paid.
SpentOnRuns(bill) == AddBill(loopBill, evidence.cost)
SpentAfter(bill) == AddBill(loopBill, AddBill(evidence.cost, bill))

\* A verdict: the report, and whether the loop goes on.  Only a node that failed
\* can have named a done-list command nobody can run.
Verdict(met, unrunnable, bill) ==
    /\ goalAt = "assessing" /\ ~cancelled
    /\ unrunnable => evidence.run = "failed"
    /\ Pay(bill)
    /\ loopBill' = SpentAfter(bill)
    /\ reports' = [number |-> reports.number + 1, last |-> evidence.run,
                   rows |-> AddBill(reports.rows, AddBill(evidence.cost, bill))]
    /\ evidence' = NoEvidence /\ spawns' = 0
    /\ \/ met /\ StopLoop("goal_met")
       \/ ~met /\ unrunnable /\ StopLoop("unrunnable_done_item")
       \/ ~met /\ ~unrunnable /\ goalAt' = "boundary" /\ UNCHANGED ending
    /\ UNCHANGED <<ceiling, interview, cycle, correction, stepBill, planBill, legState, cancelled>>

UserInterrupts ==
    /\ goalAt # "ended" /\ ~cancelled /\ cancelled' = TRUE
    /\ UNCHANGED <<ceiling, goalAt, interview, loopState, spawns, ending, legState, spend>>

GoalNext ==
    \/ \E bill \in Charge :
          \/ \E reply \in {"question", "repeat", "enough", "malformed"} : Ask(reply, bill)
          \/ \E reply \in {"valid", "repairable", "unusable"} : PlanReply(reply, bill)
          \/ \E how \in {"passed", "failed", "forbidden", "paused"}, readable \in BOOLEAN :
                RunEnds(how, bill, readable)
          \/ \E met, unrunnable \in BOOLEAN : Verdict(met, unrunnable, bill)
    \/ \E bill \in Charge \cup {Free} : AskFails(bill) \/ NoVerdict(bill)
    \/ \E line \in {"answer", "skip", "done", "eof"} : Answer(line)
    \/ Boundary \/ BeginCycle \/ PlanSilent \/ SpawnFails
    \/ SetupFails \/ StartRun \/ UserInterrupts

GoalSpec == GoalInit /\ [][GoalNext]_goalVars

----------------------------------------------------------------------------
(* What the loop owes whoever pays for it. *)

\* goalExit: 0 needs a goal that was judged met and a final run that passed.
ExitCode ==
    IF ending.how \in Failure THEN "error"
    ELSE IF reports.last = "forbidden" THEN "forbidden"
    ELSE IF ending.how = "goal_met" /\ reports.last = "passed" THEN "ok" ELSE "unmet"

\* printGoalSummary's total: its rows, the interview when no row carries it, and
\* what the error says the incomplete cycle cost.
SummaryTotal ==
    AddBill(reports.rows,
            AddBill(IF reports.number = 0 THEN interview.bill ELSE Free, ending.bill))

\* The ceiling is compared with all the money there is: when a later cycle's
\* planner is called, everything paid since the launch is known and below it --
\* the interview, corrections, refused plans, runs and assessments included.
BudgetHolds ==
    goalAt = "planning" /\ correction = 0 /\ cycle > 1 /\ ceiling > 0
        => ~spend.all.unknown /\ spend.all.usd < ceiling

\* No money is lost from the accounts: a closed leg's stream priced all the
\* planning of its cycle, with the interview on cycle 1 only; and the summary's
\* total is what was paid, but for the ledger of a run whose cycle was never
\* judged.  A call that never answered is the exception: no record says that it
\* was made.
AccountsComplete ==
    /\ goalAt # "ended" /\ cycle > 0 /\ cycleLeg[cycle] \in {"passed", "failed", "paused"}
          => price = spend.plan
    /\ goalAt = "ended" /\ cycle > 0 /\ cycleLeg[cycle] # "none" /\ ending.how # "silent"
          => price = spend.plan
    /\ ending.how \in Stop \cup {"refused"} => SummaryTotal = spend.all
    /\ ending.how = "silent" => SummaryTotal.usd = spend.all.usd
    /\ ending.how = "garbage" =>
          SummaryTotal.usd + spend.run.usd + spend.plan.usd
              = spend.all.usd + (IF reports.number = 0 THEN interview.bill.usd ELSE 0)

\* A leg is open only while its cycle is, so a process that exits leaves none for
\* a reader to call abandoned; a planner is never called without one; and exit 0
\* means that the last leg closed as passed.
LegsBracketed ==
    /\ \A c \in Cycle : cycleLeg[c] \in {"planning", "running"} =>
          c = cycle /\ goalAt \in {"planning", "committed"}
    /\ goalAt = "planning" => cycleLeg[cycle] = "planning"
    /\ goalAt = "ended" /\ ExitCode = "ok" => cycleLeg[cycle] = "passed"
=============================================================================
