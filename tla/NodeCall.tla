------------------------------ MODULE NodeCall ------------------------------
(***************************************************************************)
(* What a leg does for one node: spawn the model CLI, read what it printed, *)
(* price it, judge it, and record one row.  The child is a process that     *)
(* spends money, may leave descendants behind and may be killed at any      *)
(* moment by its own timeout or by the run's cancellation, so that what the *)
(* row claims has to be settled from what the leg can still see.            *)
(*                                                                          *)
(* A node with handoff: session resumes its parent's conversation, whose    *)
(* running total the CLI reports; the leg subtracts the parent's share.     *)
(* The feedback arc, the quoted replies and the files are in module         *)
(* Handoff, the launch order and the halt in module Scheduler.              *)
(***************************************************************************)
EXTENDS Naturals, FiniteSets

CONSTANTS
    CallNode,       \* the declarations to try, see CallAssumption
    Attempts,       \* 1 + retry.max
    LookupAttempts, \* spawnAttempts: how often a missing binary is looked up
    Baseline,       \* what the leg may know of the parent's reported cost
    ParentTotal,    \* what the parent's session had cost when it passed
    MaxSpend,       \* bound: the money one child spends
    MaxExecutions   \* bound: executions of the node, one in each leg

Causes == {"run_error", "timeout", "output_error", "budget_exceeded", "verify_failed",
           "result_mismatch", "nonzero_exit"}

ASSUME CallAssumption ==
    /\ CallNode \subseteq [runtime : {"claude", "codex"}, session : BOOLEAN, budget : Nat,
                           checks : SUBSET {"exit_zero", "result_matches", "verify"},
                           retryOn : SUBSET Causes]
    /\ {Attempts, LookupAttempts, MaxExecutions} \subseteq Nat \ {0}
    /\ {ParentTotal, MaxSpend} \subseteq Nat
    /\ Baseline \subseteq [usd : {0, ParentTotal}, unknown : BOOLEAN]
    /\ \A b \in Baseline : b.unknown \/ b.usd = ParentTotal

VARIABLES
    callee,     \* the node's declaration
    baseline,   \* the parent's raw figure: this leg's, or its record's
    transcript, \* external: the total saved in the parent's session
    runCancelled,  \* the run's context
    expired,    \* the attempt's own timeout has passed
    child,      \* the CLI process of the attempt
    stray,      \* a descendant of it that holds its output pipe
    call,       \* where runNode and CLIRunner.Run are
    row,        \* the ledger row and the record of it
    executions

callVars == <<callee, baseline, transcript, runCancelled, expired, child, stray, call, row, executions>>

\* What a CLI prints: an answer the node's result checks accept or not, its own
\* report of a failure, of the subscription's limit or of a spent budget.
Parseable == {"reply", "short", "failed", "limit", "overbudget"}
Printed == Parseable \cup {"nothing", "garbled"}

Child == [state : {"none", "alive", "exited", "killed"}, code : 0..1, printed : Printed,
          thread : BOOLEAN, spent : 0..MaxSpend, carried : Nat]
NoChild == [state |-> "none", code |-> 0, printed |-> "nothing", thread |-> FALSE, spent |-> 0,
            carried |-> 0]
NoRow == [verdict |-> "none", usd |-> 0, unknown |-> FALSE, judged |-> FALSE, child |-> NoChild,
          held |-> FALSE, verified |-> FALSE]
Idle(cold) == [at |-> "idle", attempt |-> 0, lookups |-> 0, cold |-> cold, events |-> 0]

CallTypeOK ==
    /\ callee \in CallNode /\ baseline \in Baseline
    /\ transcript \in Nat /\ runCancelled \in BOOLEAN /\ expired \in BOOLEAN
    /\ child \in Child /\ stray \in {"none", "group", "escaped"}
    /\ call \in [at : {"idle", "looking", "running", "verifying", "limited", "over"},
                 attempt : 0..Attempts, lookups : 0..LookupAttempts, cold : BOOLEAN, events : Nat]
    /\ row \in [verdict : {"none", "PASS", "FAIL"}, usd : Nat, unknown : BOOLEAN, judged : BOOLEAN,
                child : Child, held : BOOLEAN, verified : BOOLEAN]
    /\ executions \in 1..MaxExecutions

CallInit ==
    /\ callee \in CallNode /\ baseline \in Baseline
    /\ transcript = ParentTotal
    /\ runCancelled = FALSE /\ expired = FALSE
    /\ child = NoChild /\ stray = "none"
    /\ call = Idle(FALSE) /\ row = NoRow /\ executions = 1

AttemptEnded == runCancelled \/ expired
Resumes == callee.session /\ ~call.cold

----------------------------------------------------------------------------
(* Settling an attempt: retried, or recorded in the node's one row. *)

\* An attempt starts; claude's session id is chosen, and told, before the spawn.
Attempt(k, cold) ==
    /\ call' = [at |-> "looking", attempt |-> k, lookups |-> 0, cold |-> cold,
                events |-> IF callee.runtime = "claude" THEN 1 ELSE 0]
    /\ child' = NoChild /\ expired' = FALSE
    /\ stray' = "none"

\* isJudgmentFailure: all but a spent budget and a verification left undone.
JudgedFail(cause, fault) == ~fault /\ cause # "budget_exceeded"

RecordRow(verdict, cost, judged, verified) ==
    /\ row' = [verdict |-> verdict, usd |-> cost.usd, unknown |-> cost.unknown, judged |-> judged,
               child |-> child, held |-> child.state = "exited" /\ stray # "none",
               verified |-> verified]
    /\ call' = [call EXCEPT !.at = "over"]
    /\ UNCHANGED <<child, expired, stray>>

MayRetry(cause) == call.attempt < Attempts /\ cause \in callee.retryOn
\* A retry starts cold; the attempt it repeats leaves no row.
RetryOrFail(cause, cost, fault) ==
    IF MayRetry(cause) THEN Attempt(call.attempt + 1, TRUE) /\ row' = row
    ELSE RecordRow("FAIL", cost, JudgedFail(cause, fault), FALSE)

----------------------------------------------------------------------------
(* The run's environment: the child, its descendants, the contexts. *)

Running == call.at = "running" /\ child.state = "alive"

Spend ==
    /\ Running /\ child.spent < MaxSpend
    /\ child' = [child EXCEPT !.spent = @ + 1]
    /\ UNCHANGED <<callee, baseline, transcript, runCancelled, expired, stray, call, row, executions>>

\* reportSession keeps the first id only, whoever reports it.
Reported == [call EXCEPT !.events = 1]

\* codex names its session itself, in a line of its output.
ThreadStarted ==
    /\ Running /\ callee.runtime = "codex" /\ ~child.thread
    /\ child' = [child EXCEPT !.thread = TRUE]
    /\ call' = Reported
    /\ UNCHANGED <<callee, baseline, transcript, runCancelled, expired, stray, row, executions>>

\* The child exits; a descendant may outlive it, in its process group or not.
\* The session's transcript has its spend if it got as far as reporting it.
ChildExits(printed, code, left) ==
    /\ Running /\ (printed = "overbudget" => callee.runtime = "claude")
    /\ child' = [child EXCEPT !.state = "exited", !.printed = printed, !.code = code]
    /\ stray' = left
    /\ transcript' \in IF ~Resumes THEN {transcript}
                       ELSE IF printed \in Parseable THEN {transcript + child.spent}
                       ELSE {transcript, transcript + child.spent}
    /\ UNCHANGED <<callee, baseline, runCancelled, expired, call, row, executions>>

\* The descendant ends by itself.
StrayEnds ==
    /\ stray # "none" /\ stray' = "none"
    /\ UNCHANGED <<callee, baseline, transcript, runCancelled, expired, child, call, row, executions>>

Busy == call.at \in {"looking", "running", "verifying"}

\* The attempt's timeout, or the run's cancellation.
Expire ==
    /\ call.at \in {"looking", "running"} /\ ~expired /\ expired' = TRUE
    /\ UNCHANGED <<callee, baseline, transcript, runCancelled, child, stray, call, row, executions>>
Cancel ==
    /\ Busy /\ ~runCancelled /\ runCancelled' = TRUE
    /\ UNCHANGED <<callee, baseline, transcript, expired, child, stray, call, row, executions>>

\* killProcessGroup reaches every descendant that has not left the group.
KilledGroup(left) == IF left = "group" THEN "none" ELSE left
Kill(left) ==
    /\ Running /\ AttemptEnded
    /\ child' = [child EXCEPT !.state = "killed"]
    /\ stray' = KilledGroup(left)
    /\ transcript' \in IF Resumes THEN {transcript, transcript + child.spent} ELSE {transcript}
    /\ UNCHANGED <<callee, baseline, runCancelled, expired, call, row, executions>>

----------------------------------------------------------------------------
(* CLIRunner.Run and what runNode makes of its answer. *)

NodeStarts ==
    /\ call.at = "idle"
    /\ Attempt(1, call.cold)
    /\ UNCHANGED <<callee, baseline, transcript, runCancelled, row, executions>>

RunCause == IF expired /\ ~runCancelled THEN "timeout" ELSE "run_error"
CostOfKillFree == [usd |-> 0, unknown |-> FALSE]
\* A context that ended first makes the cost unknown; a process that could not
\* be started is known to have cost nothing.
CostOfKill == [usd |-> 0, unknown |-> AttemptEnded]
RunFailed == RetryOrFail(RunCause, CostOfKill, FALSE)

\* retryMissingBinary: only a name that PATH does not resolve is asked for again.
BinaryMissing ==
    /\ call.at = "looking"
    /\ IF call.lookups + 1 < LookupAttempts /\ ~AttemptEnded
       THEN call' = [call EXCEPT !.lookups = @ + 1] /\ UNCHANGED <<child, stray, expired, row>>
       ELSE RunFailed
    /\ UNCHANGED <<callee, baseline, transcript, runCancelled, executions>>

\* Any other start failure, an ended context included.
StartFails ==
    /\ call.at = "looking" /\ RunFailed
    /\ UNCHANGED <<callee, baseline, transcript, runCancelled, executions>>

Spawn ==
    /\ call.at = "looking" /\ ~AttemptEnded
    /\ child' = [NoChild EXCEPT !.state = "alive",
                                !.carried = IF Resumes THEN transcript - ParentTotal ELSE 0]
    /\ call' = [call EXCEPT !.at = "running"]
    /\ UNCHANGED <<callee, baseline, transcript, runCancelled, expired, stray, row, executions>>

\* Wait's error: a kill; a context that ended while the child was exiting; and,
\* after an exit with code 0, a pipe still held when WaitDelay has passed.
RunReturnsError ==
    /\ call.at = "running"
    /\ \/ child.state = "killed"
       \/ child.state = "exited" /\ (AttemptEnded \/ (child.code = 0 /\ stray # "none"))
    /\ RunFailed
    /\ UNCHANGED <<callee, baseline, transcript, runCancelled, executions>>

\* The child's output can be read.
CallReturns ==
    /\ call.at = "running" /\ child.state = "exited"
    /\ IF child.code = 0 THEN stray = "none" ELSE ~AttemptEnded

ReplyDecodes == child.printed \in Parseable /\ (callee.runtime = "codex" => child.thread)

OutputUnreadable ==
    /\ CallReturns /\ ~ReplyDecodes
    /\ RetryOrFail("output_error", [usd |-> 0, unknown |-> TRUE], FALSE)
    /\ UNCHANGED <<callee, baseline, transcript, runCancelled, executions>>

\* correctSessionCost: claude's total is the session's when it resumed one.
Corrected(total) ==
    IF ~Resumes THEN [usd |-> total, unknown |-> FALSE]
    ELSE IF baseline.unknown \/ total < baseline.usd THEN [usd |-> 0, unknown |-> TRUE]
    ELSE [usd |-> total - baseline.usd, unknown |-> FALSE]
Cost == IF callee.runtime = "codex" THEN [usd |-> 0, unknown |-> TRUE]
        ELSE Corrected(IF Resumes THEN transcript ELSE child.spent)

ExitStatus == IF callee.runtime = "codex" /\ child.printed \in {"failed", "limit"} THEN 1
            ELSE child.code

\* The causes of evaluateSuccessCheck, and of claude's own budget kill before it.
ExitFails == ("exit_zero" \in callee.checks \/ callee.checks = {}) /\ ExitStatus # 0
ResultMismatches == "result_matches" \in callee.checks /\ child.printed # "reply"
CheckFailure ==
    IF child.printed = "overbudget" THEN "budget_exceeded"
    ELSE IF ExitFails THEN "nonzero_exit"
    ELSE IF ResultMismatches THEN "result_mismatch" ELSE "none"

\* The subscription's limit pauses the run: no row, no retry.
SessionLimit ==
    /\ CallReturns /\ ReplyDecodes /\ child.printed = "limit"
    /\ call' = [Reported EXCEPT !.at = "limited"]
    /\ UNCHANGED <<callee, baseline, transcript, runCancelled, expired, child, stray, row, executions>>

CheckFails ==
    /\ CallReturns /\ ReplyDecodes /\ child.printed # "limit" /\ CheckFailure # "none"
    /\ RetryOrFail(CheckFailure, Cost, FALSE)
    /\ UNCHANGED <<callee, baseline, transcript, runCancelled, executions>>

\* PersistOutput and then the budget: what overspends has left its artifact.
OverBudget == callee.budget > 0 /\ ~Cost.unknown /\ Cost.usd > callee.budget
PersistAndPrice(verified) ==
    \/ RecordRow("FAIL", Cost, TRUE, verified)
    \/ IF OverBudget THEN RetryOrFail("budget_exceeded", Cost, FALSE)
       ELSE RecordRow("PASS", Cost, FALSE, verified)

CheckPasses ==
    /\ CallReturns /\ ReplyDecodes /\ child.printed # "limit" /\ CheckFailure = "none"
    /\ IF "verify" \in callee.checks
       THEN call' = [Reported EXCEPT !.at = "verifying"] /\ UNCHANGED <<child, stray, expired, row>>
       ELSE PersistAndPrice(FALSE)
    /\ UNCHANGED <<callee, baseline, transcript, runCancelled, executions>>

\* The verification's command holds, refuses, or reaches no verdict; one that a
\* cancellation has killed is not judged by its exit code.
VerifyHolds ==
    /\ call.at = "verifying" /\ PersistAndPrice(TRUE)
    /\ UNCHANGED <<callee, baseline, transcript, runCancelled, executions>>
VerifyRefuses ==
    /\ call.at = "verifying" /\ ~runCancelled
    /\ RetryOrFail("verify_failed", Cost, FALSE)
    /\ UNCHANGED <<callee, baseline, transcript, runCancelled, executions>>
VerifyFaults ==
    /\ call.at = "verifying"
    /\ RetryOrFail("verify_failed", Cost, TRUE)
    /\ UNCHANGED <<callee, baseline, transcript, runCancelled, executions>>

\* The next leg re-executes a node that failed, was cut short by the limit, or
\* whose leg died; a judged reply, if one was kept, makes it start cold.
NextExecution ==
    /\ executions < MaxExecutions /\ executions' = executions + 1
    /\ row.verdict # "PASS" /\ call.at # "idle"
    /\ \E quoted \in {FALSE, row.judged} : call' = Idle(quoted)
    /\ transcript' \in IF Running /\ Resumes THEN {transcript, transcript + child.spent}
                       ELSE {transcript}
    /\ runCancelled' = FALSE /\ expired' = FALSE /\ child' = NoChild /\ stray' = "none" /\ row' = NoRow
    /\ UNCHANGED <<callee, baseline>>

CallNext ==
    \/ NodeStarts \/ BinaryMissing \/ StartFails \/ Spawn \/ Spend \/ ThreadStarted
    \/ \E printed \in Printed, code \in 0..1, left \in {"none", "group", "escaped"} :
        ChildExits(printed, code, left)
    \/ StrayEnds \/ Expire \/ Cancel
    \/ \E left \in {"none", "group", "escaped"} : Kill(left)
    \/ RunReturnsError \/ OutputUnreadable \/ SessionLimit \/ CheckFails \/ CheckPasses
    \/ VerifyHolds \/ VerifyRefuses \/ VerifyFaults
    \/ NextExecution

CallSpec == CallInit /\ [][CallNext]_callVars

----------------------------------------------------------------------------
(* Properties. *)

\* A known cost is the money this execution's session was charged since the
\* parent passed ("it never guesses"): its own, and what an earlier execution
\* left in the same session.  A child whose pipe a descendant holds is priced as
\* one that never started.
KnownCostIsReal ==
    row.verdict # "none" /\ ~row.unknown =>
        \/ row.usd = row.child.spent + row.child.carried
        \/ row.held /\ row.verdict = "FAIL" /\ row.usd = 0

\* A PASS was answered by a child that came to its end, and every declared check
\* held of that very attempt.
PassIsEarned ==
    row.verdict = "PASS" =>
        /\ row.child.state = "exited" /\ row.child.printed \in Parseable \ {"limit"}
        /\ "result_matches" \in callee.checks => row.child.printed = "reply"
        /\ "exit_zero" \in callee.checks => row.child.code = 0
        /\ "verify" \in callee.checks => row.verified
        /\ callee.budget > 0 /\ ~row.unknown => row.usd <= callee.budget

\* A killed attempt leaves nothing of its process group behind, and a session is
\* announced once in an attempt, and always before it is judged.
NothingLeftRunning == child.state = "killed" => stray # "group"
AnnouncedOnce == call.events <= 1 /\ (call.at = "verifying" => call.events = 1)

\* What a row claims, all its readers (budgets, totals, the feed) rely on.
RowIsTrue == KnownCostIsReal /\ PassIsEarned /\ NothingLeftRunning /\ AnnouncedOnce
=============================================================================
