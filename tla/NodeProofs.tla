----------------------------- MODULE NodeProofs -----------------------------
(***************************************************************************)
(* What is proved of one node: of its calls, for every declaration, number *)
(* of attempts and of lookups, that the row the ledger gets is true; of    *)
(* its checkout, for any number of lanes, names, commits and runs, that    *)
(* while no child detaches its head no work is lost from a branch or a     *)
(* worktree.                                                               *)
(***************************************************************************)
EXTENDS NodeCall, Worktree, TLAPS

----------------------------------------------------------------------------
(* What a leg can still see of the child it has to judge. *)

\* The session's total is the parent's and what its children reported; a child
\* that a context killed belongs to an attempt that has ended.
SeenInv ==
    /\ transcript >= ParentTotal
    /\ call.at \in {"idle", "looking"} => child = NoChild
    /\ call.at = "running" => child.state # "none"
    /\ call.at \in {"running", "verifying"} =>
        /\ ~Resumes => child.carried = 0
        /\ Resumes /\ child.state = "alive" => transcript = ParentTotal + child.carried
        /\ Resumes /\ child.state = "exited" /\ child.printed \in Parseable =>
              transcript = ParentTotal + child.carried + child.spent
    /\ call.at = "running" /\ child.state = "killed" => AttemptEnded
    /\ call.at = "verifying" =>
        /\ child.state = "exited" /\ child.printed \in Parseable /\ child.printed # "limit"
        /\ CheckFailure = "none" /\ "verify" \in callee.checks

CallInv == CallTypeOK /\ SeenInv /\ RowIsTrue

\* The absent child is a child.
LEMMA NoChildTyped == CallAssumption => NoChild \in Child
BY DEF CallAssumption, NoChild, Child, Printed, Parseable

\* The absent row is a row.
LEMMA NoRowTyped ==
    CallAssumption => NoRow \in [verdict : {"none", "PASS", "FAIL"}, usd : Nat, unknown : BOOLEAN, judged : BOOLEAN,
                                 child : Child, held : BOOLEAN, verified : BOOLEAN]
BY NoChildTyped DEF NoRow

\* A session's child starts with what earlier executions left in the session.
LEMMA SpawnedTyped ==
    CallAssumption /\ transcript \in Nat /\ transcript >= ParentTotal =>
        [NoChild EXCEPT !.state = "alive", !.carried = IF Resumes THEN transcript - ParentTotal ELSE 0] \in Child
<1> SUFFICES ASSUME CallAssumption, transcript \in Nat, transcript >= ParentTotal,
                    NEW c, c = IF Resumes THEN transcript - ParentTotal ELSE 0
             PROVE  [NoChild EXCEPT !.state = "alive", !.carried = c] \in Child
  OBVIOUS
<1>1. c \in Nat
  BY DEF CallAssumption
<1> QED BY <1>1, NoChildTyped DEF Child

\* A node that has not been called is typed and tells nothing.
LEMMA CallInitial == CallAssumption /\ CallInit => CallInv
<1> SUFFICES ASSUME CallAssumption, CallInit PROVE CallInv
  OBVIOUS
<1>1. CallTypeOK
  <2>1. call \in [at : {"idle", "looking", "running", "verifying", "limited", "over"},
                  attempt : 0..Attempts, lookups : 0..LookupAttempts, cold : BOOLEAN, events : Nat]
    BY DEF CallAssumption, CallInit, Idle
  <2>2. executions \in 1..MaxExecutions /\ transcript \in Nat
    BY DEF CallAssumption, CallInit
  <2> QED BY <2>1, <2>2, NoChildTyped, NoRowTyped DEF CallInit, CallTypeOK
<1>2. SeenInv
  BY DEF CallAssumption, CallInit, SeenInv, Idle
<1>3. RowIsTrue
  BY DEF CallInit, RowIsTrue, KnownCostIsReal, PassIsEarned, NothingLeftRunning, AnnouncedOnce, Idle, NoRow, NoChild
<1> QED BY <1>1, <1>2, <1>3 DEF CallInv

\* A price that claims to be known is what the session was charged, unless the
\* child's pipe was still held: then nothing was read of it.
Honest(cost) ==
    /\ cost \in [usd : Nat, unknown : BOOLEAN]
    /\ ~cost.unknown => \/ cost.usd = child.spent + child.carried
                        \/ child.state = "exited" /\ stray # "none" /\ cost.usd = 0

\* The price of a reply that was read is honest, session or none.
LEMMA CostIsHonest ==
    ASSUME CallAssumption, CallInv, call.at \in {"running", "verifying"}, child.state = "exited", child.printed \in Parseable
    PROVE  Honest(Cost) /\ (~Cost.unknown => Cost.usd = child.spent + child.carried)
BY DEF CallAssumption, CallInv, CallTypeOK, SeenInv, Honest, Cost, Corrected, Child

\* A row that fails the node, and what a PASS has to show.
LEMMA FailureRecorded ==
    ASSUME CallAssumption, CallInv, NEW cost, Honest(cost), NEW judged \in BOOLEAN, NEW verified \in BOOLEAN,
           RecordRow("FAIL", cost, judged, verified),
           UNCHANGED <<callee, baseline, transcript, runCancelled, executions>>
    PROVE  CallInv'
<1>1. CallTypeOK'
  BY DEF CallInv, CallTypeOK, Honest, RecordRow, Child
<1>2. SeenInv'
  BY DEF CallInv, CallTypeOK, SeenInv, RecordRow
<1>3. RowIsTrue'
  BY DEF CallInv, CallTypeOK, Honest, RecordRow, RowIsTrue, KnownCostIsReal, PassIsEarned, NothingLeftRunning, AnnouncedOnce
<1> QED BY <1>1, <1>2, <1>3 DEF CallInv

\* A pass writes a row that says what the calls were.
LEMMA PassRecorded ==
    ASSUME CallAssumption, CallInv, NEW verified \in BOOLEAN, RecordRow("PASS", Cost, FALSE, verified),
           call.at \in {"running", "verifying"}, child.state = "exited", child.printed \in Parseable \ {"limit"},
           CheckFailure = "none", ~OverBudget, "verify" \in callee.checks => verified,
           UNCHANGED <<callee, baseline, transcript, runCancelled, executions>>
    PROVE  CallInv'
<1>0. Honest(Cost) /\ (~Cost.unknown => Cost.usd = child.spent + child.carried)
  BY CostIsHonest
<1> SUFFICES ASSUME NEW cost, cost = Cost PROVE CallInv'
  OBVIOUS
<1>1. RecordRow("PASS", cost, FALSE, verified) /\ Honest(cost)
  BY <1>0
<1>2. CallTypeOK'
  BY <1>1 DEF CallInv, CallTypeOK, Honest, RecordRow, Child
<1>3. SeenInv'
  BY <1>1 DEF CallInv, CallTypeOK, SeenInv, RecordRow
<1>4. callee \in [runtime : {"claude", "codex"}, session : BOOLEAN, budget : Nat,
                  checks : SUBSET {"exit_zero", "result_matches", "verify"}, retryOn : SUBSET Causes]
  BY DEF CallAssumption, CallInv, CallTypeOK
<1>5. /\ "result_matches" \in callee.checks => child.printed = "reply"
      /\ "exit_zero" \in callee.checks => child.code = 0
      /\ callee.budget > 0 /\ ~cost.unknown => cost.usd <= callee.budget
  BY <1>0, <1>1, <1>4 DEF CheckFailure, ExitFails, ResultMismatches, ExitStatus, OverBudget, Honest, CallInv, CallTypeOK, Child
<1>6. RowIsTrue'
  BY <1>0, <1>1, <1>5 DEF CallInv, CallTypeOK, Honest, RecordRow, RowIsTrue, KnownCostIsReal, PassIsEarned, NothingLeftRunning, AnnouncedOnce
<1> QED BY <1>2, <1>3, <1>6 DEF CallInv

\* An attempt starts with nothing of the one before it.
LEMMA AttemptStarts ==
    ASSUME CallAssumption, CallInv, NEW k \in 1..Attempts, NEW cold \in BOOLEAN, Attempt(k, cold),
           UNCHANGED <<callee, baseline, transcript, runCancelled, row, executions>>
    PROVE  CallInv'
<1>1. CallTypeOK'
  <2>1. call'.events \in Nat /\ call'.attempt \in 0..Attempts /\ call'.lookups \in 0..LookupAttempts
    BY DEF CallAssumption, Attempt
  <2> QED BY <2>1, NoChildTyped DEF CallInv, CallTypeOK, Attempt
<1>2. SeenInv'
  BY DEF CallInv, CallTypeOK, SeenInv, Attempt
<1>3. RowIsTrue'
  BY DEF CallInv, CallTypeOK, Attempt, RowIsTrue, KnownCostIsReal, PassIsEarned, NothingLeftRunning, AnnouncedOnce, NoChild
<1> QED BY <1>1, <1>2, <1>3 DEF CallInv

\* A failure either asks for another attempt or writes the row.
LEMMA FailureSettled ==
    ASSUME CallAssumption, CallInv, NEW cause, NEW cost, Honest(cost), NEW fault \in BOOLEAN, RetryOrFail(cause, cost, fault),
           UNCHANGED <<callee, baseline, transcript, runCancelled, executions>>
    PROVE  CallInv'
<1>1. CASE MayRetry(cause)
  <2>1. Attempt(call.attempt + 1, TRUE) /\ UNCHANGED row
    BY <1>1 DEF RetryOrFail
  <2>2. call.attempt + 1 \in 1..Attempts
    BY <1>1 DEF MayRetry, CallInv, CallTypeOK, CallAssumption
  <2> QED BY <2>1, <2>2, AttemptStarts
<1>2. CASE ~MayRetry(cause)
  <2>1. RecordRow("FAIL", cost, JudgedFail(cause, fault), FALSE)
    BY <1>2 DEF RetryOrFail
  <2>2. JudgedFail(cause, fault) \in BOOLEAN
    BY DEF JudgedFail
  <2> QED BY <2>1, <2>2, FailureRecorded
<1> QED BY <1>1, <1>2

\* What a child reports is priced before it is judged.
LEMMA PricedAndRecorded ==
    ASSUME CallAssumption, CallInv, NEW verified \in BOOLEAN, PersistAndPrice(verified),
           call.at \in {"running", "verifying"}, child.state = "exited", child.printed \in Parseable \ {"limit"},
           CheckFailure = "none", "verify" \in callee.checks => verified,
           UNCHANGED <<callee, baseline, transcript, runCancelled, executions>>
    PROVE  CallInv'
<1>1. Honest(Cost)
  BY CostIsHonest
<1>2. CASE RecordRow("FAIL", Cost, TRUE, verified)
  BY <1>1, <1>2, FailureRecorded
<1>3. CASE OverBudget /\ RetryOrFail("budget_exceeded", Cost, FALSE)
  BY <1>1, <1>3, FailureSettled
<1>4. CASE ~OverBudget /\ RecordRow("PASS", Cost, FALSE, verified)
  BY <1>4, PassRecorded
<1> QED BY <1>2, <1>3, <1>4 DEF PersistAndPrice

----------------------------------------------------------------------------
(* Every step of the call. *)

\* Every step of the node keeps types, tally and row.
LEMMA CallStep == CallAssumption /\ CallInv /\ [CallNext]_callVars => CallInv'
<1> SUFFICES ASSUME CallAssumption, CallInv, [CallNext]_callVars PROVE CallInv'
  OBVIOUS
<1> USE DEF CallInv
<1>t. /\ child \in Child /\ call.at \in {"idle", "looking", "running", "verifying", "limited", "over"}
      /\ callee.checks \subseteq {"exit_zero", "result_matches", "verify"} /\ callee.session \in BOOLEAN
  BY DEF CallTypeOK, CallAssumption
<1>1. ASSUME NodeStarts PROVE CallInv'
  BY <1>1, AttemptStarts DEF NodeStarts, CallAssumption, CallTypeOK
<1>2. ASSUME RunFailed, call.at = "looking", UNCHANGED <<callee, baseline, transcript, runCancelled, executions>> PROVE CallInv'
  <2>1. Honest(CostOfKill)
    BY <1>2 DEF Honest, CostOfKill, AttemptEnded, SeenInv, NoChild, CallTypeOK
  <2> QED BY <1>2, <2>1, FailureSettled DEF RunFailed
<1>3. ASSUME BinaryMissing PROVE CallInv'
  <2>1. CASE RunFailed
    BY <2>1, <1>3, <1>2 DEF BinaryMissing
  <2>2. CASE call' = [call EXCEPT !.lookups = @ + 1] /\ UNCHANGED <<child, stray, expired, row>> /\ call.lookups + 1 < LookupAttempts
    <3>1. CallTypeOK'
      BY <2>2, <1>3 DEF BinaryMissing, CallTypeOK, CallAssumption
    <3>2. SeenInv'
      BY <2>2, <1>3, <1>t DEF BinaryMissing, CallTypeOK, SeenInv
    <3>3. RowIsTrue'
      BY <2>2, <1>3 DEF BinaryMissing, CallTypeOK, RowIsTrue, KnownCostIsReal, PassIsEarned, NothingLeftRunning, AnnouncedOnce
    <3> QED BY <3>1, <3>2, <3>3
  <2> QED BY <2>1, <2>2, <1>3 DEF BinaryMissing
<1>4. ASSUME StartFails PROVE CallInv'
  BY <1>4, <1>2 DEF StartFails
<1>5. ASSUME Spawn PROVE CallInv'
  <2>1. CallTypeOK'
    <3>1. child' \in Child
      BY <1>5, NoChildTyped, SpawnedTyped DEF Spawn, CallTypeOK, SeenInv
    <3>2. call' \in [at : {"idle", "looking", "running", "verifying", "limited", "over"},
                     attempt : 0..Attempts, lookups : 0..LookupAttempts, cold : BOOLEAN, events : Nat]
      BY <1>5 DEF Spawn, CallTypeOK
    <3> QED BY <1>5, <3>1, <3>2 DEF Spawn, CallTypeOK
  <2>2. SeenInv'
    BY <1>5, <1>t DEF CallTypeOK, Child, SeenInv, Resumes, AttemptEnded, CheckFailure, ExitFails, ExitStatus, ResultMismatches, Spawn, NoChild, Printed, Parseable, CallAssumption
  <2>3. RowIsTrue'
    BY <1>5, <1>t DEF CallTypeOK, Child, RowIsTrue, KnownCostIsReal, PassIsEarned, NothingLeftRunning, AnnouncedOnce, SeenInv, Spawn, NoChild, Printed, Parseable, CallAssumption
  <2> QED BY <2>1, <2>2, <2>3
<1>6. ASSUME Spend PROVE CallInv'
  <2>1. CallTypeOK'
    BY <1>6 DEF CallTypeOK, Child, Spend, Running
  <2>2. SeenInv'
    BY <1>6, <1>t DEF CallTypeOK, Child, SeenInv, Resumes, AttemptEnded, CheckFailure, ExitFails, ExitStatus, ResultMismatches, Spend, Running
  <2>3. RowIsTrue'
    BY <1>6, <1>t DEF CallTypeOK, Child, RowIsTrue, KnownCostIsReal, PassIsEarned, NothingLeftRunning, AnnouncedOnce, SeenInv, Spend, Running
  <2> QED BY <2>1, <2>2, <2>3
<1>7. ASSUME ThreadStarted PROVE CallInv'
  <2>1. CallTypeOK'
    <3>1. child' \in Child
      BY <1>7 DEF ThreadStarted, CallTypeOK, Child
    <3>2. call' \in [at : {"idle", "looking", "running", "verifying", "limited", "over"},
                     attempt : 0..Attempts, lookups : 0..LookupAttempts, cold : BOOLEAN, events : Nat]
      BY <1>7 DEF ThreadStarted, Reported, CallTypeOK
    <3> QED BY <1>7, <3>1, <3>2 DEF ThreadStarted, CallTypeOK
  <2>2. SeenInv'
    BY <1>7, <1>t DEF CallTypeOK, Child, SeenInv, Resumes, AttemptEnded, CheckFailure, ExitFails, ExitStatus, ResultMismatches, ThreadStarted, Running, Reported
  <2>3. RowIsTrue'
    BY <1>7, <1>t DEF CallTypeOK, Child, RowIsTrue, KnownCostIsReal, PassIsEarned, NothingLeftRunning, AnnouncedOnce, SeenInv, ThreadStarted, Running, Reported
  <2> QED BY <2>1, <2>2, <2>3
<1>8. ASSUME NEW printed \in Printed, NEW code \in 0..1, NEW left \in {"none", "group", "escaped"}, ChildExits(printed, code, left) PROVE CallInv'
  <2>1. CallTypeOK'
    <3>1. child' \in Child
      BY <1>8 DEF ChildExits, CallTypeOK, Child
    <3>2. call' \in [at : {"idle", "looking", "running", "verifying", "limited", "over"},
                     attempt : 0..Attempts, lookups : 0..LookupAttempts, cold : BOOLEAN, events : Nat]
      BY <1>8 DEF ChildExits, CallTypeOK
    <3> QED BY <1>8, <3>1, <3>2 DEF ChildExits, CallTypeOK, Child
  <2>2. SeenInv'
    BY <1>8, <1>t DEF CallTypeOK, Child, SeenInv, Resumes, AttemptEnded, CheckFailure, ExitFails, ExitStatus, ResultMismatches, ChildExits, Running, Parseable, Printed
  <2>3. RowIsTrue'
    BY <1>8, <1>t DEF CallTypeOK, Child, RowIsTrue, KnownCostIsReal, PassIsEarned, NothingLeftRunning, AnnouncedOnce, SeenInv, ChildExits, Running, Parseable, Printed
  <2> QED BY <2>1, <2>2, <2>3
<1>9. ASSUME StrayEnds PROVE CallInv'
  <2>1. CallTypeOK'
    BY <1>9 DEF CallTypeOK, Child, StrayEnds
  <2>2. SeenInv'
    BY <1>9, <1>t DEF CallTypeOK, Child, SeenInv, Resumes, AttemptEnded, CheckFailure, ExitFails, ExitStatus, ResultMismatches, StrayEnds
  <2>3. RowIsTrue'
    BY <1>9, <1>t DEF CallTypeOK, Child, RowIsTrue, KnownCostIsReal, PassIsEarned, NothingLeftRunning, AnnouncedOnce, SeenInv, StrayEnds
  <2> QED BY <2>1, <2>2, <2>3
<1>10. ASSUME Expire PROVE CallInv'
  <2>1. CallTypeOK'
    BY <1>10 DEF CallTypeOK, Child, Expire
  <2>2. SeenInv'
    BY <1>10, <1>t DEF CallTypeOK, Child, SeenInv, Resumes, AttemptEnded, CheckFailure, ExitFails, ExitStatus, ResultMismatches, Expire
  <2>3. RowIsTrue'
    BY <1>10, <1>t DEF CallTypeOK, Child, RowIsTrue, KnownCostIsReal, PassIsEarned, NothingLeftRunning, AnnouncedOnce, SeenInv, Expire
  <2> QED BY <2>1, <2>2, <2>3
<1>11. ASSUME Cancel PROVE CallInv'
  <2>1. CallTypeOK'
    BY <1>11 DEF CallTypeOK, Child, Cancel
  <2>2. SeenInv'
    BY <1>11, <1>t DEF CallTypeOK, Child, SeenInv, Resumes, AttemptEnded, CheckFailure, ExitFails, ExitStatus, ResultMismatches, Cancel
  <2>3. RowIsTrue'
    BY <1>11, <1>t DEF CallTypeOK, Child, RowIsTrue, KnownCostIsReal, PassIsEarned, NothingLeftRunning, AnnouncedOnce, SeenInv, Cancel
  <2> QED BY <2>1, <2>2, <2>3
<1>12. ASSUME NEW left \in {"none", "group", "escaped"}, Kill(left) PROVE CallInv'
  <2>1. CallTypeOK'
    BY <1>12 DEF CallTypeOK, Child, Kill, Running, KilledGroup
  <2>2. SeenInv'
    BY <1>12, <1>t DEF CallTypeOK, Child, SeenInv, Resumes, AttemptEnded, CheckFailure, ExitFails, ExitStatus, ResultMismatches, Kill, Running, KilledGroup
  <2>3. RowIsTrue'
    BY <1>12, <1>t DEF CallTypeOK, Child, RowIsTrue, KnownCostIsReal, PassIsEarned, NothingLeftRunning, AnnouncedOnce, SeenInv, Kill, Running, KilledGroup
  <2> QED BY <2>1, <2>2, <2>3
<1>13. ASSUME RunReturnsError PROVE CallInv'
  <2>1. Honest(CostOfKill)
    BY <1>13 DEF RunReturnsError, Honest, CostOfKill, AttemptEnded, SeenInv, CallTypeOK
  <2> QED BY <1>13, <2>1, FailureSettled DEF RunReturnsError, RunFailed
<1>14. ASSUME OutputUnreadable PROVE CallInv'
  <2>1. Honest([usd |-> 0, unknown |-> TRUE])
    BY DEF Honest
  <2> QED BY <1>14, <2>1, FailureSettled DEF OutputUnreadable
<1>15. ASSUME SessionLimit PROVE CallInv'
  <2>1. CallTypeOK'
    <3>1. child' \in Child
      BY <1>15 DEF SessionLimit, CallTypeOK
    <3>2. call' \in [at : {"idle", "looking", "running", "verifying", "limited", "over"},
                     attempt : 0..Attempts, lookups : 0..LookupAttempts, cold : BOOLEAN, events : Nat]
      BY <1>15 DEF SessionLimit, Reported, CallTypeOK
    <3> QED BY <1>15, <3>1, <3>2 DEF SessionLimit, CallTypeOK
  <2>2. SeenInv'
    BY <1>15, <1>t DEF CallTypeOK, Child, SeenInv, Resumes, AttemptEnded, CheckFailure, ExitFails, ExitStatus, ResultMismatches, SessionLimit, Reported
  <2>3. RowIsTrue'
    BY <1>15, <1>t DEF CallTypeOK, Child, RowIsTrue, KnownCostIsReal, PassIsEarned, NothingLeftRunning, AnnouncedOnce, SeenInv, SessionLimit, Reported
  <2> QED BY <2>1, <2>2, <2>3
<1>16. ASSUME CheckFails PROVE CallInv'
  <2>1. Honest(Cost)
    BY <1>16, CostIsHonest DEF CheckFails, CallReturns, ReplyDecodes
  <2> QED BY <1>16, <2>1, FailureSettled DEF CheckFails
<1>17. ASSUME CheckPasses PROVE CallInv'
  <2>0. /\ call.at = "running" /\ child.state = "exited" /\ child.printed \in Parseable \ {"limit"}
        /\ CheckFailure = "none" /\ UNCHANGED <<callee, baseline, transcript, runCancelled, executions>>
    BY <1>17 DEF CheckPasses, CallReturns, ReplyDecodes
  <2>1. CASE "verify" \in callee.checks
    <3>1. call' = [call EXCEPT !.events = 1, !.at = "verifying"] /\ UNCHANGED <<child, stray, expired, row>>
      BY <1>17, <2>1 DEF CheckPasses, Reported, CallTypeOK
    <3>2. CallTypeOK'
      BY <2>0, <3>1 DEF CallTypeOK
    <3>3. SeenInv'
      BY <2>0, <2>1, <3>1, <1>t DEF CallTypeOK, SeenInv, Resumes, CheckFailure, ExitFails, ExitStatus, ResultMismatches
    <3>4. RowIsTrue'
      BY <2>0, <3>1 DEF CallTypeOK, RowIsTrue, KnownCostIsReal, PassIsEarned, NothingLeftRunning, AnnouncedOnce
    <3> QED BY <3>2, <3>3, <3>4
  <2>2. CASE "verify" \notin callee.checks
    BY <1>17, <2>0, <2>2, PricedAndRecorded DEF CheckPasses
  <2> QED BY <2>1, <2>2
<1>18. ASSUME VerifyHolds PROVE CallInv'
  BY <1>18, PricedAndRecorded DEF VerifyHolds, SeenInv
<1>19. ASSUME VerifyRefuses PROVE CallInv'
  <2>1. Honest(Cost)
    BY <1>19, CostIsHonest DEF VerifyRefuses, SeenInv
  <2> QED BY <1>19, <2>1, FailureSettled DEF VerifyRefuses
<1>20. ASSUME VerifyFaults PROVE CallInv'
  <2>1. Honest(Cost)
    BY <1>20, CostIsHonest DEF VerifyFaults, SeenInv
  <2> QED BY <1>20, <2>1, FailureSettled DEF VerifyFaults
<1>21. ASSUME NextExecution PROVE CallInv'
  <2>1. CallTypeOK'
    <3>1. child' \in Child
      BY <1>21, NoChildTyped DEF NextExecution
    <3>2. call' \in [at : {"idle", "looking", "running", "verifying", "limited", "over"},
                     attempt : 0..Attempts, lookups : 0..LookupAttempts, cold : BOOLEAN, events : Nat]
      <4>1. PICK quoted \in {FALSE, row.judged} : call' = Idle(quoted)
        BY <1>21 DEF NextExecution
      <4>2. quoted \in BOOLEAN
        BY DEF CallTypeOK
      <4> QED BY <4>1, <4>2 DEF Idle, CallAssumption
    <3>3. transcript' \in Nat
      BY <1>21 DEF NextExecution, CallTypeOK, Child
    <3>4. executions' \in 1..MaxExecutions
      BY <1>21 DEF NextExecution, CallTypeOK, CallAssumption
    <3> QED BY <1>21, <3>1, <3>2, <3>3, <3>4, NoRowTyped DEF NextExecution, CallTypeOK
  <2>2. SeenInv'
    BY <1>21, <1>t DEF CallTypeOK, Child, SeenInv, Resumes, AttemptEnded, CheckFailure, ExitFails, ExitStatus, ResultMismatches, NextExecution, Idle, NoRow, NoChild, Running, Printed, Parseable, CallAssumption
  <2>3. RowIsTrue'
    BY <1>21, <1>t DEF CallTypeOK, Child, RowIsTrue, KnownCostIsReal, PassIsEarned, NothingLeftRunning, AnnouncedOnce, SeenInv, NextExecution, Idle, NoRow, NoChild, Running, Printed, Parseable, CallAssumption
  <2> QED BY <2>1, <2>2, <2>3
<1>22. CASE UNCHANGED callVars
  BY <1>22 DEF callVars, CallTypeOK, SeenInv, RowIsTrue, KnownCostIsReal, PassIsEarned, NothingLeftRunning, AnnouncedOnce,
               Resumes, AttemptEnded, CheckFailure, ExitFails, ExitStatus, ResultMismatches
<1> QED BY <1>1, <1>2, <1>3, <1>4, <1>5, <1>6, <1>7, <1>8, <1>9, <1>10, <1>11, <1>12, <1>13, <1>14, <1>15, <1>16, <1>17, <1>18, <1>19, <1>20, <1>21, <1>22 DEF CallNext

\* The types of a call, for any declarations, attempts and sums of money.
THEOREM CallTypes == CallSpec => []CallTypeOK
<1>1. CallInit => CallInv
  BY CallInitial, CallAssumption
<1>2. CallInv /\ [CallNext]_callVars => CallInv'
  BY CallStep, CallAssumption
<1>3. CallInv => CallTypeOK
  BY DEF CallInv
<1> QED BY <1>1, <1>2, <1>3, PTL DEF CallSpec

\* What a row claims is true of the child it was recorded for.
THEOREM RowsAreTrue == CallSpec => []RowIsTrue
<1>1. CallInit => CallInv
  BY CallInitial, CallAssumption
<1>2. CallInv /\ [CallNext]_callVars => CallInv'
  BY CallStep, CallAssumption
<1>3. CallInv => RowIsTrue
  BY DEF CallInv
<1> QED BY <1>1, <1>2, <1>3, PTL DEF CallSpec

----------------------------------------------------------------------------
(* The lineage of a commit, before and after a commit is made. *)

\* Every parent is an older commit, and the names and histories hold no commit
\* that has not been made.
GitInv ==
    /\ \A c \in Commit : parent[c] <= commits /\ (c > commits => parent[c] = NoCommit)
    /\ repoHead <= commits
    /\ \A l \in Lane :
        /\ \A n \in Name : branches[l][n] <= commits
        /\ head[l].at <= commits
        /\ \A w \in work[l] : w <= commits

\* A commit is reachable from itself, and what is reachable from a commit that
\* is reachable is reachable too.
LEMMA LineageReaches ==
    ASSUME NEW c \in Commit
    PROVE  /\ c \in Lineage(c) /\ Lineage(c) \subseteq Commit
           /\ \A d \in Lineage(c) : Lineage(d) \subseteq Lineage(c)
<1>1. c \in Lineage(c) /\ Lineage(c) \subseteq Commit
  BY DEF Lineage
<1>2. ASSUME NEW d \in Lineage(c), NEW e \in Lineage(d) PROVE e \in Lineage(c)
  <2>1. SUFFICES ASSUME NEW cs \in SUBSET Commit, c \in cs, Rooted(cs) PROVE e \in cs
    BY <1>2 DEF Lineage
  <2>2. d \in cs
    BY <2>1 DEF Lineage
  <2> QED BY <2>1, <2>2 DEF Lineage
<1> QED BY <1>1, <1>2

\* What is reachable from a commit holds the parents of its members.
LEMMA LineageRooted ==
    ASSUME parent \in [Commit -> Commit \cup {NoCommit}], NEW c \in Commit
    PROVE  Rooted(Lineage(c))
<1> SUFFICES ASSUME NEW d \in Lineage(c), parent[d] # NoCommit PROVE parent[d] \in Lineage(c)
  BY DEF Rooted
<1>1. d \in Commit /\ parent[d] \in Commit
  BY DEF Lineage
<1>2. ASSUME NEW cs \in SUBSET Commit, c \in cs, Rooted(cs) PROVE parent[d] \in cs
  BY <1>2 DEF Lineage, Rooted
<1> QED BY <1>1, <1>2 DEF Lineage

\* What was committed is what was reachable: no commit to come is.
LEMMA LineageMade ==
    ASSUME WorktreeTypeOK, GitInv, NEW c \in Commit, c <= commits
    PROVE  \A d \in Lineage(c) : d <= commits
<1> DEFINE cs == {d \in Commit : d <= commits}
<1>1. cs \in SUBSET Commit /\ c \in cs /\ Rooted(cs)
  BY DEF Rooted, WorktreeTypeOK, GitInv
<1> QED BY <1>1 DEF Lineage

\* A new commit hides nothing: what was reachable from a commit still is, and no
\* more than that; and the new one reaches everything its parent reaches.
LEMMA LineageKept ==
    ASSUME WorktreeAssumption, WorktreeTypeOK, GitInv, NEW on \in Commit, on <= commits, NewCommit(on),
           NEW new, new = commits + 1
    PROVE  /\ \A c \in Commit : c <= commits => Lineage(c)' = Lineage(c)
           /\ Lineage(on) \subseteq Lineage(new)'
           /\ new \in Commit /\ new \in Lineage(new)'
<1>1. /\ commits \in Nat /\ commits + 1 \in Commit /\ commits + 1 \notin {d \in Commit : d <= commits}
      /\ parent \in [Commit -> Commit \cup {NoCommit}] /\ parent[commits + 1] = NoCommit
      /\ parent' = [parent EXCEPT ![commits + 1] = on] /\ commits' = commits + 1
  BY DEF WorktreeTypeOK, GitInv, NewCommit, WorktreeAssumption, Commit
<1>2. \A d \in Commit : d <= commits => parent'[d] = parent[d] /\ d # commits + 1
  BY <1>1
<1>3. \A d \in Commit : parent[d] # NoCommit => parent'[d] = parent[d]
  BY <1>1
<1>4. ASSUME NEW c \in Commit PROVE Lineage(c) \subseteq Lineage(c)'
  <2>1. \A cs \in SUBSET Commit : Rooted(cs)' => Rooted(cs)
    BY <1>3 DEF Rooted
  <2> QED BY <2>1 DEF Lineage
<1>5. ASSUME NEW c \in Commit, c <= commits PROVE Lineage(c)' \subseteq Lineage(c)
  <2>1. Lineage(c) \in SUBSET Commit /\ c \in Lineage(c) /\ Rooted(Lineage(c))
    BY <1>1, LineageReaches, LineageRooted
  <2>2. \A d \in Lineage(c) : parent'[d] = parent[d]
    BY <1>2, <1>5, <2>1, LineageMade
  <2>3. \A cs \in SUBSET Commit : cs = Lineage(c) => (\A d \in cs : parent'[d] # NoCommit => parent'[d] \in cs)
    BY <2>1, <2>2 DEF Rooted
  <2> SUFFICES ASSUME NEW S, S = Lineage(c), S \in SUBSET Commit PROVE Lineage(c)' \subseteq S
    BY <2>1
  <2>4. c \in S /\ \A d \in S : parent'[d] # NoCommit => parent'[d] \in S
    BY <2>1, <2>3
  <2> QED BY <2>4 DEF Lineage, Rooted
<1>6. new \in Lineage(new)'
  BY <1>1 DEF Lineage
<1>7. parent'[new] = on
  BY <1>1
<1>8. on \in Lineage(new)'
  BY <1>1, <1>6, <1>7 DEF Lineage, Rooted, NoCommit, Commit
<1>9. Lineage(on) \subseteq Lineage(new)'
  <2>1. ASSUME NEW e \in Lineage(on), NEW cs \in SUBSET Commit, new \in cs, Rooted(cs)' PROVE e \in cs
    <3>1. on \in cs
      BY <2>1, <1>7 DEF Rooted, NoCommit, Commit
    <3>2. Rooted(cs)
      BY <2>1, <1>3 DEF Rooted
    <3> QED BY <2>1, <3>1, <3>2 DEF Lineage
  <2> QED BY <2>1 DEF Lineage
<1> QED BY <1>1, <1>4, <1>5, <1>6, <1>9

----------------------------------------------------------------------------
(* Types, and where a lane is between its steps. *)

\* A lane is provisioned while its checkout is there, and doomed once it is gone.
LaneInv == \A l \in Lane :
    /\ dir[l] = "checkout" <=> head[l].on # "none"
    /\ created[l] = "no" => doomed[l] = "none"
    /\ doomed[l] # "none" => created[l] = "fresh" /\ dir[l] = "none" /\ manager = "cleanup"
    /\ created[l] # "no" /\ doomed[l] = "none" => dir[l] = "checkout"
    /\ created[l] = "adopted" => l \in adoptions
    /\ manager = "gone" => created[l] = "no"
    /\ l \in dirty => dir[l] = "checkout"

LanesOK == WorktreeTypeOK /\ GitInv /\ LaneInv

\* Every lane opens as it may.
LEMMA LanesInit == WorktreeAssumption /\ WorktreeInit => LanesOK
BY DEF WorktreeAssumption, WorktreeInit, LanesOK, WorktreeTypeOK, GitInv, LaneInv, Commit, NoCommit, Name, Absent, NoHead

\* Every step leaves every lane as it may be.
LEMMA LanesStep == WorktreeAssumption /\ LanesOK /\ [WorktreeNext]_worktreeVars => LanesOK'
<1> SUFFICES ASSUME WorktreeAssumption, LanesOK, [WorktreeNext]_worktreeVars PROVE LanesOK'
  OBVIOUS
<1> USE DEF LanesOK, laneMemory, gitState, laneHistory
<1>1. ASSUME NEW l \in Lane, Reuse(l) PROVE LanesOK'
  <2>1. WorktreeTypeOK'
    BY <1>1 DEF Reuse, Unprovisioned, Adopts, WorktreeTypeOK, GitInv, LaneInv, WorktreeAssumption, Commit, NoCommit, Name, NoHead
  <2>2. GitInv'
    BY <1>1 DEF Reuse, Unprovisioned, Adopts, WorktreeTypeOK, GitInv, LaneInv, WorktreeAssumption, Commit, NoCommit, Name, NoHead
  <2>3. LaneInv'
    BY <1>1 DEF Reuse, Unprovisioned, Adopts, WorktreeTypeOK, GitInv, LaneInv, WorktreeAssumption, Commit, NoCommit, Name, NoHead
  <2> QED BY <2>1, <2>2, <2>3
<1>2. ASSUME NEW l \in Lane, Attach(l) PROVE LanesOK'
  <2>1. WorktreeTypeOK'
    BY <1>2 DEF Attach, Unprovisioned, BranchExists, WorktreeTypeOK, GitInv, LaneInv, WorktreeAssumption, Commit, NoCommit, Name, NoHead
  <2>2. GitInv'
    BY <1>2 DEF Attach, Unprovisioned, BranchExists, WorktreeTypeOK, GitInv, LaneInv, WorktreeAssumption, Commit, NoCommit, Name, NoHead
  <2>3. LaneInv'
    BY <1>2 DEF Attach, Unprovisioned, BranchExists, WorktreeTypeOK, GitInv, LaneInv, WorktreeAssumption, Commit, NoCommit, Name, NoHead
  <2> QED BY <2>1, <2>2, <2>3
<1>3. ASSUME NEW l \in Lane, Create(l) PROVE LanesOK'
  <2>1. WorktreeTypeOK'
    BY <1>3 DEF Create, Unprovisioned, BranchExists, WorktreeTypeOK, GitInv, LaneInv, WorktreeAssumption, Commit, NoCommit, Name, NoHead
  <2>2. GitInv'
    BY <1>3 DEF Create, Unprovisioned, BranchExists, WorktreeTypeOK, GitInv, LaneInv, WorktreeAssumption, Commit, NoCommit, Name, NoHead
  <2>3. LaneInv'
    BY <1>3 DEF Create, Unprovisioned, BranchExists, WorktreeTypeOK, GitInv, LaneInv, WorktreeAssumption, Commit, NoCommit, Name, NoHead
  <2> QED BY <2>1, <2>2, <2>3
<1>4. ASSUME NEW l \in Lane, NodeEdits(l) PROVE LanesOK'
  <2>1. WorktreeTypeOK'
    BY <1>4 DEF NodeEdits, Working, WorktreeTypeOK, GitInv, LaneInv, WorktreeAssumption, Commit, NoCommit, Name, NoHead
  <2>2. GitInv'
    BY <1>4 DEF NodeEdits, Working, WorktreeTypeOK, GitInv, LaneInv, WorktreeAssumption, Commit, NoCommit, Name, NoHead
  <2>3. LaneInv'
    BY <1>4 DEF NodeEdits, Working, WorktreeTypeOK, GitInv, LaneInv, WorktreeAssumption, Commit, NoCommit, Name, NoHead
  <2> QED BY <2>1, <2>2, <2>3
<1>5. ASSUME NEW l \in Lane, NodeCommits(l) PROVE LanesOK'
  <2>1. WorktreeTypeOK'
    BY <1>5 DEF NodeCommits, Working, NewCommit, WorktreeTypeOK, GitInv, LaneInv, WorktreeAssumption, Commit, NoCommit, Name, NoHead
  <2>2. GitInv'
    <3>1. /\ commits' = commits + 1 /\ commits \in Nat /\ commits' \in Commit /\ UNCHANGED repoHead
          /\ parent' = [parent EXCEPT ![commits + 1] = head[l].at] /\ head[l].at \in 0..commits
          /\ head' = [head EXCEPT ![l].at = commits + 1]
          /\ work' = [work EXCEPT ![l] = @ \cup {commits + 1}]
      BY <1>5 DEF NodeCommits, NewCommit, WorktreeTypeOK, GitInv, WorktreeAssumption, Commit, NoCommit
    <3>2. \A c \in Commit : parent'[c] <= commits' /\ (c > commits' => parent'[c] = NoCommit)
      BY <3>1 DEF WorktreeTypeOK, GitInv, Commit, NoCommit
    <3>3. \A k \in Lane : head'[k].at <= commits' /\ \A w \in work'[k] : w <= commits'
      BY <3>1 DEF WorktreeTypeOK, GitInv, Commit, NoCommit
    <3>4. \A k \in Lane, n \in Name : branches'[k][n] <= commits'
      BY <1>5, <3>1 DEF NodeCommits, WorktreeTypeOK, GitInv, Commit, NoCommit
    <3> QED BY <3>1, <3>2, <3>3, <3>4 DEF GitInv, WorktreeTypeOK, Commit
  <2>3. LaneInv'
    BY <1>5 DEF NodeCommits, Working, NewCommit, WorktreeTypeOK, GitInv, LaneInv, WorktreeAssumption, Commit, NoCommit, Name, NoHead
  <2> QED BY <2>1, <2>2, <2>3
<1>6. ASSUME NEW l \in Lane, NodeRenames(l) PROVE LanesOK'
  <2>1. WorktreeTypeOK'
    BY <1>6 DEF NodeRenames, Working, WorktreeTypeOK, GitInv, LaneInv, WorktreeAssumption, Commit, NoCommit, Name, NoHead
  <2>2. GitInv'
    BY <1>6 DEF NodeRenames, Working, WorktreeTypeOK, GitInv, LaneInv, WorktreeAssumption, Commit, NoCommit, Name, NoHead
  <2>3. LaneInv'
    BY <1>6 DEF NodeRenames, Working, WorktreeTypeOK, GitInv, LaneInv, WorktreeAssumption, Commit, NoCommit, Name, NoHead
  <2> QED BY <2>1, <2>2, <2>3
<1>7. ASSUME NEW l \in Lane, NEW c \in Commit, NodeBranches(l, c) PROVE LanesOK'
  <2>1. WorktreeTypeOK'
    BY <1>7 DEF NodeBranches, Working, WorktreeTypeOK, GitInv, LaneInv, WorktreeAssumption, Commit, NoCommit, Name, NoHead
  <2>2. GitInv'
    <3>1. head[l].at \in Commit /\ head[l].at <= commits
      BY <1>7 DEF NodeBranches, Working, WorktreeTypeOK, GitInv, LaneInv, Lineage
    <3>2. c <= commits
      BY <1>7, <3>1, LineageMade DEF NodeBranches
    <3> QED BY <1>7, <3>2 DEF NodeBranches, Working, WorktreeTypeOK, GitInv, LaneInv, WorktreeAssumption, Commit, NoCommit, Name, NoHead
  <2>3. LaneInv'
    BY <1>7 DEF NodeBranches, Working, WorktreeTypeOK, GitInv, LaneInv, WorktreeAssumption, Commit, NoCommit, Name, NoHead
  <2> QED BY <2>1, <2>2, <2>3
<1>8. ASSUME NEW l \in Lane, NEW c \in Commit, NodeDetaches(l, c) PROVE LanesOK'
  <2>1. WorktreeTypeOK'
    BY <1>8 DEF NodeDetaches, Working, WorktreeTypeOK, GitInv, LaneInv, WorktreeAssumption, Commit, NoCommit, Name, NoHead
  <2>2. GitInv'
    <3>1. head[l].at \in Commit /\ head[l].at <= commits
      BY <1>8 DEF NodeDetaches, Working, WorktreeTypeOK, GitInv, LaneInv, Lineage
    <3>2. c <= commits
      BY <1>8, <3>1, LineageMade DEF NodeDetaches
    <3> QED BY <1>8, <3>2 DEF NodeDetaches, Working, WorktreeTypeOK, GitInv, LaneInv, WorktreeAssumption, Commit, NoCommit, Name, NoHead
  <2>3. LaneInv'
    BY <1>8 DEF NodeDetaches, Working, WorktreeTypeOK, GitInv, LaneInv, WorktreeAssumption, Commit, NoCommit, Name, NoHead
  <2> QED BY <2>1, <2>2, <2>3
<1>9. ASSUME UserCommits PROVE LanesOK'
  <2>1. WorktreeTypeOK'
    BY <1>9 DEF UserCommits, NewCommit, WorktreeTypeOK, GitInv, LaneInv, WorktreeAssumption, Commit, NoCommit, Name, NoHead
  <2>2. GitInv'
    <3>1. /\ commits' = commits + 1 /\ commits \in Nat /\ commits' \in Commit /\ repoHead' = commits + 1
          /\ parent' = [parent EXCEPT ![commits + 1] = repoHead] /\ repoHead \in 0..commits
          /\ UNCHANGED <<head, branches, work>>
      BY <1>9 DEF UserCommits, NewCommit, WorktreeTypeOK, GitInv, WorktreeAssumption, Commit, NoCommit
    <3>2. \A c \in Commit : parent'[c] <= commits' /\ (c > commits' => parent'[c] = NoCommit)
      BY <3>1 DEF WorktreeTypeOK, GitInv, Commit, NoCommit
    <3>3. \A k \in Lane : head'[k].at <= commits' /\ \A n \in Name : branches'[k][n] <= commits'
      <4>1. head' = head /\ branches' = branches /\ commits' = commits + 1 /\ commits \in Nat
        BY <3>1
      <4>2. \A k \in Lane : head[k].at \in Nat /\ \A n \in Name : branches[k][n] \in Nat
        BY <4>1 DEF WorktreeTypeOK, Commit, NoCommit
      <4>3. \A k \in Lane : head[k].at <= commits /\ \A n \in Name : branches[k][n] <= commits
        BY DEF GitInv
      <4> QED
        BY <4>1, <4>2, <4>3
    <3>4. \A k \in Lane : \A w \in work'[k] : w <= commits'
      <4>1. work' = work /\ commits' = commits + 1 /\ commits \in Nat
        BY <3>1
      <4>2. \A k \in Lane : \A w \in work[k] : w \in Nat
        BY DEF WorktreeTypeOK, Commit
      <4>3. \A k \in Lane : \A w \in work[k] : w <= commits
        BY DEF GitInv
      <4> QED
        BY <4>1, <4>2, <4>3
    <3> QED BY <3>1, <3>2, <3>3, <3>4 DEF GitInv
  <2>3. LaneInv'
    BY <1>9 DEF UserCommits, NewCommit, WorktreeTypeOK, GitInv, LaneInv, WorktreeAssumption, Commit, NoCommit, Name, NoHead
  <2> QED BY <2>1, <2>2, <2>3
<1>10. ASSUME EndLeg PROVE LanesOK'
  <2>1. WorktreeTypeOK'
    BY <1>10 DEF EndLeg, WorktreeTypeOK, GitInv, LaneInv, WorktreeAssumption, Commit, NoCommit, Name, NoHead
  <2>2. GitInv'
    BY <1>10 DEF EndLeg, WorktreeTypeOK, GitInv, LaneInv, WorktreeAssumption, Commit, NoCommit, Name, NoHead
  <2>3. LaneInv'
    BY <1>10 DEF EndLeg, WorktreeTypeOK, GitInv, LaneInv, WorktreeAssumption, Commit, NoCommit, Name, NoHead
  <2> QED BY <2>1, <2>2, <2>3
<1>11. ASSUME NEW l \in Lane, CleanupKeeps(l) PROVE LanesOK'
  <2>1. WorktreeTypeOK'
    BY <1>11 DEF CleanupKeeps, Pending, RemoveRefused, WorktreeTypeOK, GitInv, LaneInv, WorktreeAssumption, Commit, NoCommit, Name, NoHead
  <2>2. GitInv'
    BY <1>11 DEF CleanupKeeps, Pending, RemoveRefused, WorktreeTypeOK, GitInv, LaneInv, WorktreeAssumption, Commit, NoCommit, Name, NoHead
  <2>3. LaneInv'
    BY <1>11 DEF CleanupKeeps, Pending, RemoveRefused, WorktreeTypeOK, GitInv, LaneInv, WorktreeAssumption, Commit, NoCommit, Name, NoHead
  <2> QED BY <2>1, <2>2, <2>3
<1>12. ASSUME NEW l \in Lane, CleanupRemoves(l) PROVE LanesOK'
  <2>1. WorktreeTypeOK'
    <3>1. CleanupBranch(l) \in Name
      BY <1>12 DEF CleanupRemoves, Pending, CleanupBranch, WorktreeTypeOK, LaneInv, Name
    <3>2. doomed' \in [Lane -> Name \cup {"none"}] /\ created' \in [Lane -> {"no", "fresh", "adopted"}]
      <4>1. doomed \in [Lane -> Name \cup {"none"}] /\ created \in [Lane -> {"no", "fresh", "adopted"}]
        BY DEF WorktreeTypeOK
      <4>2. \/ doomed' = [doomed EXCEPT ![l] = CleanupBranch(l)] /\ created' = created
            \/ created' = [created EXCEPT ![l] = "no"] /\ doomed' = doomed
        BY <1>12 DEF CleanupRemoves
      <4> QED BY <3>1, <4>1, <4>2
    <3>3. /\ head' \in [Lane -> [on : Name \cup {"none", "detached"}, at : Commit \cup {NoCommit}]]
          /\ dir' \in [Lane -> {"none", "checkout", "foreign"}]
          /\ \A k \in Lane : dir'[k] = "checkout" <=> head'[k].at # NoCommit
      BY <1>12 DEF CleanupRemoves, WorktreeTypeOK, NoHead
    <3> QED BY <1>12, <3>2, <3>3 DEF CleanupRemoves, WorktreeTypeOK
  <2>2. GitInv'
    BY <1>12 DEF CleanupRemoves, Pending, RemoveRefused, ProvablyEmpty, CleanupBranch, WorktreeTypeOK, GitInv, LaneInv, WorktreeAssumption, Commit, NoCommit, Name, NoHead
  <2>3. LaneInv'
    BY <1>12 DEF CleanupRemoves, Pending, RemoveRefused, ProvablyEmpty, CleanupBranch, WorktreeTypeOK, GitInv, LaneInv, WorktreeAssumption, Commit, NoCommit, Name, NoHead
  <2> QED BY <2>1, <2>2, <2>3
<1>13. ASSUME NEW l \in Lane, CleanupDeletes(l) PROVE LanesOK'
  <2>1. WorktreeTypeOK'
    BY <1>13 DEF CleanupDeletes, WorktreeTypeOK, GitInv, LaneInv, WorktreeAssumption, Commit, NoCommit, Name, NoHead
  <2>2. GitInv'
    BY <1>13 DEF CleanupDeletes, WorktreeTypeOK, GitInv, LaneInv, WorktreeAssumption, Commit, NoCommit, Name, NoHead
  <2>3. LaneInv'
    BY <1>13 DEF CleanupDeletes, WorktreeTypeOK, GitInv, LaneInv, WorktreeAssumption, Commit, NoCommit, Name, NoHead
  <2> QED BY <2>1, <2>2, <2>3
<1>14. ASSUME CleanedUp PROVE LanesOK'
  <2>1. WorktreeTypeOK'
    BY <1>14 DEF CleanedUp, Forget, WorktreeTypeOK, GitInv, LaneInv, WorktreeAssumption, Commit, NoCommit, Name, NoHead
  <2>2. GitInv'
    BY <1>14 DEF CleanedUp, Forget, WorktreeTypeOK, GitInv, LaneInv, WorktreeAssumption, Commit, NoCommit, Name, NoHead
  <2>3. LaneInv'
    BY <1>14 DEF CleanedUp, Forget, WorktreeTypeOK, GitInv, LaneInv, WorktreeAssumption, Commit, NoCommit, Name, NoHead
  <2> QED BY <2>1, <2>2, <2>3
<1>15. ASSUME LaneCrash PROVE LanesOK'
  <2>1. WorktreeTypeOK'
    BY <1>15 DEF LaneCrash, Forget, WorktreeTypeOK, GitInv, LaneInv, WorktreeAssumption, Commit, NoCommit, Name, NoHead
  <2>2. GitInv'
    BY <1>15 DEF LaneCrash, Forget, WorktreeTypeOK, GitInv, LaneInv, WorktreeAssumption, Commit, NoCommit, Name, NoHead
  <2>3. LaneInv'
    BY <1>15 DEF LaneCrash, Forget, WorktreeTypeOK, GitInv, LaneInv, WorktreeAssumption, Commit, NoCommit, Name, NoHead
  <2> QED BY <2>1, <2>2, <2>3
<1>16. ASSUME NextLeg PROVE LanesOK'
  <2>1. WorktreeTypeOK'
    BY <1>16 DEF NextLeg, WorktreeTypeOK, GitInv, LaneInv, WorktreeAssumption, Commit, NoCommit, Name, NoHead
  <2>2. GitInv'
    BY <1>16 DEF NextLeg, WorktreeTypeOK, GitInv, LaneInv, WorktreeAssumption, Commit, NoCommit, Name, NoHead
  <2>3. LaneInv'
    BY <1>16 DEF NextLeg, WorktreeTypeOK, GitInv, LaneInv, WorktreeAssumption, Commit, NoCommit, Name, NoHead
  <2> QED BY <2>1, <2>2, <2>3
<1>17. CASE UNCHANGED worktreeVars
  BY <1>17 DEF worktreeVars, WorktreeTypeOK, GitInv, LaneInv
<1> QED BY <1>1, <1>2, <1>3, <1>4, <1>5, <1>6, <1>7, <1>8, <1>9, <1>10, <1>11, <1>12, <1>13, <1>14, <1>15, <1>16, <1>17 DEF WorktreeNext

----------------------------------------------------------------------------
(* What the nodes of a lane committed, and what cleanup leaves of it. *)

Reach == [c \in Commit |-> Lineage(c)]

\* A checkout's HEAD is on one of the lane's branches and at its tip; the branch
\* that cleanup is about to delete is where the lane was created.
HeadInv(l) ==
    /\ head[l].on # "detached"
    /\ dir[l] = "checkout" => branches[l][head[l].on] = head[l].at
    /\ head[l].on = "other" => l \in strayed
    /\ doomed[l] # "none" => branches[l][doomed[l]] = baseSHA[l]

\* No node's commit is in the history of the invocation repository, where lanes
\* are created from; each is reachable from a branch of its lane, from the
\* lane's own branch unless a node took the lane off it.
WorkInv(l) ==
    /\ \A w \in work[l] : w \notin Reach[repoHead]
    /\ created[l] = "fresh" => baseSHA[l] \in Reach[repoHead]
    /\ \A w \in work[l] : \E n \in Name : branches[l][n] # NoCommit /\ w \in Reach[branches[l][n]]
    /\ l \notin strayed =>
          \A w \in work[l] : branches[l]["own"] # NoCommit /\ w \in Reach[branches[l]["own"]]

\* A lane without work that no leg died over and none found on disk: once it is
\* cleaned up nothing of it is left, and until then its HEAD is where cleanup
\* will see that nothing was done.
EmptyInv(l) == work[l] = {} /\ l \notin dropped \cup adoptions =>
    /\ created[l] = "no" /\ l \notin dirty =>
        /\ dir[l] # "checkout"
        /\ \/ branches[l] = Absent
           \/ l \in strayed /\ branches[l]["own"] # NoCommit
    /\ created[l] # "no" =>
        /\ doomed[l] = "none" =>
              head[l].at = baseSHA[l] \/ (head[l].on = "other" /\ branches[l]["own"] # NoCommit)
        /\ l \notin strayed \/ doomed[l] = "own" \/ head[l].on = "own" => branches[l]["other"] = NoCommit

KeptInv == LanesOK /\ \A l \in Lane : HeadInv(l) /\ WorkInv(l) /\ EmptyInv(l)

\* What a commit reaches holds itself and the ancestors of what it holds.
LEMMA ReachFacts ==
    LanesOK => \A c \in Commit :
        /\ c \in Reach[c] /\ Reach[c] \subseteq Commit
        /\ \A d \in Reach[c] : Reach[d] \subseteq Reach[c]
        /\ c <= commits => \A d \in Reach[c] : d <= commits
<1> SUFFICES ASSUME LanesOK, NEW c \in Commit
             PROVE  /\ c \in Reach[c] /\ Reach[c] \subseteq Commit
                    /\ \A d \in Reach[c] : Reach[d] \subseteq Reach[c]
                    /\ c <= commits => \A d \in Reach[c] : d <= commits
  OBVIOUS
<1>1. Reach[c] = Lineage(c) /\ \A d \in Lineage(c) : d \in Commit /\ Reach[d] = Lineage(d)
  BY LineageReaches DEF Reach
<1> QED BY <1>1, LineageReaches, LineageMade DEF LanesOK

\* A commit reaches the same commits while the parents stand.
LEMMA ReachSame == UNCHANGED parent => Reach' = Reach
BY DEF Reach, Lineage, Rooted

\* A new commit takes nothing from what the older ones reach.
LEMMA ReachGrows ==
    ASSUME WorktreeAssumption, LanesOK, NEW on \in Commit, on <= commits, NewCommit(on)
    PROVE  /\ \A c \in Commit : c <= commits => Reach'[c] = Reach[c]
           /\ Reach[on] \subseteq Reach'[commits + 1]
           /\ commits + 1 \in Commit /\ commits + 1 \in Reach'[commits + 1]
<1> SUFFICES ASSUME NEW new, new = commits + 1
             PROVE  /\ \A c \in Commit : c <= commits => Reach'[c] = Reach[c]
                    /\ Reach[on] \subseteq Reach'[new]
                    /\ new \in Commit /\ new \in Reach'[new]
  OBVIOUS
<1>1. /\ \A c \in Commit : c <= commits => Lineage(c)' = Lineage(c)
      /\ Lineage(on) \subseteq Lineage(new)'
      /\ new \in Commit /\ new \in Lineage(new)'
  BY LineageKept DEF LanesOK
<1>2. Reach' = [c \in Commit |-> Lineage(c)']
  BY DEF Reach
<1>3. \A c \in Commit : Reach'[c] = Lineage(c)' /\ Reach[c] = Lineage(c)
  BY <1>2 DEF Reach
<1> QED BY <1>1, <1>3

\* The new commit reaches nothing but itself and what its parent reaches.
LEMMA ReachTip ==
    ASSUME WorktreeAssumption, LanesOK, NEW on \in Commit, on <= commits, NewCommit(on),
           NEW d \in Reach'[commits + 1], d <= commits
    PROVE  d \in Reach[on]
<1> SUFFICES ASSUME NEW new, new = commits + 1, d \in Reach'[new] PROVE d \in Reach[on]
  OBVIOUS
<1>1. /\ new \in Commit /\ commits \in Nat /\ \A c \in Commit : c = new \/ parent'[c] = parent[c]
      /\ parent'[new] = on
  BY DEF NewCommit, LanesOK, WorktreeTypeOK, WorktreeAssumption, Commit
<1>2. Reach[on] = Lineage(on) /\ d \in Lineage(new)'
  <2>1. Reach' = [c \in Commit |-> Lineage(c)']
    BY DEF Reach
  <2> QED BY <1>1, <2>1 DEF Reach
<1>3. \A e \in Lineage(on) : e <= commits /\ e # new
  BY <1>1, LineageMade DEF LanesOK, Commit
<1> DEFINE S == Lineage(on) \cup {new}
<1>4. S \in SUBSET Commit /\ new \in S
  BY <1>1 DEF Lineage
<1>5. ASSUME NEW e \in S, parent'[e] # NoCommit PROVE parent'[e] \in S
  <2>1. CASE e = new
    BY <2>1, <1>1, LineageReaches
  <2>2. CASE e # new
    BY <2>2, <1>1, <1>4, <1>5, LineageRooted DEF Rooted, LanesOK, WorktreeTypeOK
  <2> QED BY <2>1, <2>2
<1>6. d \in S
  <2> HIDE DEF S
  <2> QED BY <1>2, <1>4, <1>5 DEF Lineage, Rooted
<1>7. d # new
  BY <1>1
<1> QED BY <1>2, <1>6, <1>7

\* No work is alone in a lane before the first step.
LEMMA KeptInit == WorktreeAssumption /\ WorktreeInit => KeptInv
<1> SUFFICES ASSUME WorktreeAssumption, WorktreeInit PROVE KeptInv
  OBVIOUS
<1>1. LanesOK
  BY LanesInit
<1> QED BY <1>1 DEF WorktreeInit, KeptInv, HeadInv, WorkInv, EmptyInv, NoHead, Absent, NoCommit

\* A lane that a step leaves alone keeps what is known of it.
LEMMA KeptStands ==
    ASSUME NEW k, HeadInv(k), WorkInv(k), EmptyInv(k),
           Reach' = Reach, repoHead' = repoHead,
           UNCHANGED <<dir[k], branches[k], head[k], baseSHA[k], created[k], doomed[k], work[k]>>,
           k \in dirty' <=> k \in dirty, k \in strayed' <=> k \in strayed,
           k \in dropped \cup adoptions => k \in dropped' \cup adoptions'
    PROVE  HeadInv(k)' /\ WorkInv(k)' /\ EmptyInv(k)'
<1>1. HeadInv(k)'
  BY DEF HeadInv
<1>2. WorkInv(k)'
  BY DEF WorkInv
<1>3. EmptyInv(k)'
  BY DEF EmptyInv
<1> QED BY <1>1, <1>2, <1>3

\* No step of git or of the lane's owner takes the only copy of work.
LEMMA KeptStep ==
    WorktreeAssumption /\ ~AllowDetach /\ KeptInv /\ [WorktreeNext]_worktreeVars
        => \A k \in Lane : HeadInv(k)' /\ WorkInv(k)' /\ EmptyInv(k)'
<1> SUFFICES ASSUME WorktreeAssumption, ~AllowDetach, KeptInv, [WorktreeNext]_worktreeVars, NEW k \in Lane
             PROVE  HeadInv(k)' /\ WorkInv(k)' /\ EmptyInv(k)'
  OBVIOUS
<1>a. LanesOK /\ HeadInv(k) /\ WorkInv(k) /\ EmptyInv(k)
  BY DEF KeptInv
<1>b. \A c \in Commit :
        /\ c \in Reach[c] /\ Reach[c] \subseteq Commit
        /\ \A d \in Reach[c] : Reach[d] \subseteq Reach[c]
        /\ c <= commits => \A d \in Reach[c] : d <= commits
  BY <1>a, ReachFacts
<1>c. repoHead \in Commit
  BY <1>a DEF LanesOK, WorktreeTypeOK
<1>d. Name = {"own", "other"} /\ NoCommit \notin Commit
  BY DEF Name, NoCommit, Commit
<1> USE DEF laneMemory, gitState, laneHistory
<1>1. ASSUME NEW l \in Lane, Reuse(l) PROVE HeadInv(k)' /\ WorkInv(k)' /\ EmptyInv(k)'
  <2>0. Reach' = Reach /\ repoHead' = repoHead
    BY <1>1, ReachSame DEF Reuse, Unprovisioned, Adopts
  <2>1. /\ created'[l] = "adopted" /\ created[l] = "no" /\ doomed[l] = "none" /\ l \in adoptions'
        /\ UNCHANGED <<dir[l], branches[l], head[l], baseSHA[l], doomed[l], work[l]>> /\ strayed' = strayed
    BY <1>1, <1>a, <1>c, <1>d DEF Reuse, Unprovisioned, Adopts, LanesOK, WorktreeTypeOK, LaneInv
  <2>2. CASE k # l
    <3>1. /\ UNCHANGED <<dir[k], branches[k], head[k], baseSHA[k], created[k], doomed[k], work[k]>>
          /\ k \in dirty' <=> k \in dirty
          /\ k \in strayed' <=> k \in strayed
          /\ k \in dropped \cup adoptions => k \in dropped' \cup adoptions'
      BY <1>1, <1>a, <2>2 DEF Reuse, Unprovisioned, Adopts, LanesOK, WorktreeTypeOK
    <3> QED BY <1>a, <2>0, <3>1, KeptStands
  <2>3. CASE k = l
    <3>1. HeadInv(k)'
      BY <1>a, <1>d, <2>0, <2>1, <2>3 DEF HeadInv, NoHead
    <3>2. WorkInv(k)'
      BY <1>a, <1>b, <1>c, <1>d, <2>0, <2>1, <2>3 DEF WorkInv, HeadInv
    <3>3. EmptyInv(k)'
      BY <1>a, <1>d, <2>0, <2>1, <2>3 DEF EmptyInv, HeadInv, WorkInv, Absent, NoHead
    <3> QED BY <3>1, <3>2, <3>3
  <2> QED BY <2>2, <2>3
<1>2. ASSUME NEW l \in Lane, Attach(l) PROVE HeadInv(k)' /\ WorkInv(k)' /\ EmptyInv(k)'
  <2>0. Reach' = Reach /\ repoHead' = repoHead
    BY <1>2, ReachSame DEF Attach, Unprovisioned, BranchExists
  <2>1. /\ created'[l] = "adopted" /\ created[l] = "no" /\ doomed[l] = "none" /\ l \in adoptions'
        /\ head'[l] = [on |-> "own", at |-> branches[l]["own"]]
        /\ UNCHANGED <<branches[l], baseSHA[l], doomed[l], work[l]>> /\ strayed' = strayed
    BY <1>2, <1>a, <1>c, <1>d DEF Attach, Unprovisioned, BranchExists, LanesOK, WorktreeTypeOK, LaneInv
  <2>2. CASE k # l
    <3>1. /\ UNCHANGED <<dir[k], branches[k], head[k], baseSHA[k], created[k], doomed[k], work[k]>>
          /\ k \in dirty' <=> k \in dirty
          /\ k \in strayed' <=> k \in strayed
          /\ k \in dropped \cup adoptions => k \in dropped' \cup adoptions'
      BY <1>2, <1>a, <2>2 DEF Attach, Unprovisioned, BranchExists, LanesOK, WorktreeTypeOK
    <3> QED BY <1>a, <2>0, <3>1, KeptStands
  <2>3. CASE k = l
    <3>1. HeadInv(k)'
      BY <1>a, <1>d, <2>0, <2>1, <2>3 DEF HeadInv, NoHead
    <3>2. WorkInv(k)'
      BY <1>a, <1>b, <1>c, <1>d, <2>0, <2>1, <2>3 DEF WorkInv, HeadInv
    <3>3. EmptyInv(k)'
      BY <1>a, <1>d, <2>0, <2>1, <2>3 DEF EmptyInv, HeadInv, WorkInv, Absent, NoHead
    <3> QED BY <3>1, <3>2, <3>3
  <2> QED BY <2>2, <2>3
<1>3. ASSUME NEW l \in Lane, Create(l) PROVE HeadInv(k)' /\ WorkInv(k)' /\ EmptyInv(k)'
  <2>0. Reach' = Reach /\ repoHead' = repoHead
    BY <1>3, ReachSame DEF Create, Unprovisioned, BranchExists
  <2>1. /\ created'[l] = "fresh" /\ created[l] = "no" /\ doomed[l] = "none" /\ l \notin dirty
        /\ branches[l]["own"] = NoCommit /\ head'[l] = [on |-> "own", at |-> repoHead]
        /\ branches'[l]["own"] = repoHead /\ branches'[l]["other"] = branches[l]["other"]
        /\ baseSHA'[l] = repoHead /\ repoHead \in Commit
        /\ UNCHANGED <<doomed[l], work[l], strayed, dropped, adoptions>>
    BY <1>3, <1>a, <1>c, <1>d DEF Create, Unprovisioned, BranchExists, LanesOK, WorktreeTypeOK, LaneInv
  <2>2. CASE k # l
    <3>1. /\ UNCHANGED <<dir[k], branches[k], head[k], baseSHA[k], created[k], doomed[k], work[k]>>
          /\ k \in dirty' <=> k \in dirty
          /\ k \in strayed' <=> k \in strayed
          /\ k \in dropped \cup adoptions => k \in dropped' \cup adoptions'
      BY <1>3, <1>a, <2>2 DEF Create, Unprovisioned, BranchExists, LanesOK, WorktreeTypeOK
    <3> QED BY <1>a, <2>0, <3>1, KeptStands
  <2>3. CASE k = l
    <3>1. HeadInv(k)'
      BY <1>a, <1>d, <2>0, <2>1, <2>3 DEF HeadInv, NoHead
    <3>2. WorkInv(k)'
      BY <1>a, <1>b, <1>c, <1>d, <2>0, <2>1, <2>3 DEF WorkInv, HeadInv
    <3>3. EmptyInv(k)'
      BY <1>a, <1>d, <2>0, <2>1, <2>3 DEF EmptyInv, HeadInv, WorkInv, Absent, NoHead
    <3> QED BY <3>1, <3>2, <3>3
  <2> QED BY <2>2, <2>3
<1>4. ASSUME NEW l \in Lane, NodeEdits(l) PROVE HeadInv(k)' /\ WorkInv(k)' /\ EmptyInv(k)'
  <2>0. Reach' = Reach /\ repoHead' = repoHead
    BY <1>4, ReachSame DEF NodeEdits, Working
  <2>1. /\ created[l] # "no"
        /\ UNCHANGED <<created, dir, branches, head, baseSHA, doomed, work, strayed, dropped, adoptions>>
    BY <1>4, <1>a, <1>c, <1>d DEF NodeEdits, Working, LanesOK, WorktreeTypeOK, LaneInv
  <2>2. CASE k # l
    <3>1. /\ UNCHANGED <<dir[k], branches[k], head[k], baseSHA[k], created[k], doomed[k], work[k]>>
          /\ k \in dirty' <=> k \in dirty
          /\ k \in strayed' <=> k \in strayed
          /\ k \in dropped \cup adoptions => k \in dropped' \cup adoptions'
      BY <1>4, <1>a, <2>2 DEF NodeEdits, Working, LanesOK, WorktreeTypeOK
    <3> QED BY <1>a, <2>0, <3>1, KeptStands
  <2>3. CASE k = l
    <3>1. HeadInv(k)'
      BY <1>a, <1>d, <2>0, <2>1, <2>3 DEF HeadInv, NoHead
    <3>2. WorkInv(k)'
      BY <1>a, <1>b, <1>c, <1>d, <2>0, <2>1, <2>3 DEF WorkInv, HeadInv
    <3>3. EmptyInv(k)'
      BY <1>a, <1>d, <2>0, <2>1, <2>3 DEF EmptyInv, HeadInv, WorkInv, Absent, NoHead
    <3> QED BY <3>1, <3>2, <3>3
  <2> QED BY <2>2, <2>3
<1>5. ASSUME NEW l \in Lane, NodeCommits(l) PROVE HeadInv(k)' /\ WorkInv(k)' /\ EmptyInv(k)'
  <2>0. /\ head[l].on \in Name /\ head[l].at \in Commit /\ head[l].at <= commits
        /\ branches[l][head[l].on] = head[l].at
        /\ commits \in Nat /\ repoHead \in Commit /\ repoHead <= commits
    BY <1>5 DEF NodeCommits, Working, KeptInv, HeadInv, LanesOK, WorktreeTypeOK, LaneInv, GitInv, Name, Commit, NoCommit
  <2>a. /\ \A c \in Commit : c <= commits => Reach'[c] = Reach[c]
        /\ Reach[head[l].at] \subseteq Reach'[commits + 1]
        /\ commits + 1 \in Commit /\ commits + 1 \in Reach'[commits + 1]
    BY <1>5, <1>a, <2>0, ReachGrows DEF NodeCommits
  <2>b. /\ head' = [head EXCEPT ![l].at = commits + 1]
        /\ branches' = [branches EXCEPT ![l][head[l].on] = commits + 1]
        /\ work' = [work EXCEPT ![l] = @ \cup {commits + 1}]
        /\ dirty' = dirty \ {l} /\ created[l] # "no" /\ manager = "leg"
        /\ UNCHANGED <<manager, laneMemory, dir, repoHead, strayed, dropped, adoptions>>
    BY <1>5, <2>0 DEF NodeCommits, Working, Name
  <2>c. /\ branches[k] \in [Name -> Commit \cup {NoCommit}] /\ head[k].at \in Commit \cup {NoCommit}
        /\ \A n \in Name : branches[k][n] <= commits
        /\ baseSHA[k] \in Commit \cup {NoCommit} /\ (doomed[k] # "none" => doomed[k] \in Name /\ manager = "cleanup")
        /\ \A w \in work[k] : w \in Commit /\ w <= commits
    BY <1>a DEF LanesOK, WorktreeTypeOK, LaneInv, GitInv
  <2>d. /\ k # l => branches'[k] = branches[k] /\ head'[k] = head[k] /\ work'[k] = work[k]
        /\ k = l => /\ branches'[k] = [branches[k] EXCEPT ![head[k].on] = commits + 1]
                    /\ head'[k].on = head[k].on /\ head'[k].at = commits + 1
                    /\ work'[k] = work[k] \cup {commits + 1}
    <3>1. /\ DOMAIN head = Lane /\ DOMAIN branches = Lane /\ DOMAIN work = Lane
          /\ head[k] \in [on : Name \cup {"none", "detached"}, at : Commit \cup {NoCommit}] /\ k \in Lane
      BY <1>a DEF LanesOK, WorktreeTypeOK
    <3>2. CASE k # l
      BY <2>b, <3>1, <3>2
    <3>3. CASE k = l
      <4>1. head'[k] = [head[k] EXCEPT !.at = commits + 1]
        BY <2>b, <3>1, <3>3
      <4>2. head'[k].on = head[k].on /\ head'[k].at = commits + 1
        BY <3>1, <4>1
      <4>3. branches'[k] = [branches[k] EXCEPT ![head[k].on] = commits + 1]
        BY <2>b, <3>1, <3>3
      <4>4. work'[k] = work[k] \cup {commits + 1}
        BY <2>b, <3>1, <3>3
      <4> QED BY <3>3, <4>2, <4>3, <4>4
    <3> QED BY <3>2, <3>3
  <2>1. HeadInv(k)'
    BY <2>0, <2>b, <2>c, <2>d, <1>a DEF HeadInv
  <2>2. WorkInv(k)'
    <3>1. \A w \in work'[k] : w \notin Reach'[repoHead']
      BY <2>0, <2>a, <2>b, <2>c, <2>d, <1>a, <1>b DEF WorkInv, Commit
    <3>2. created'[k] = "fresh" => baseSHA'[k] \in Reach'[repoHead']
      BY <2>0, <2>a, <2>b, <1>a DEF WorkInv
    <3>3. ASSUME NEW w \in work'[k] PROVE \E n \in Name : branches'[k][n] # NoCommit /\ w \in Reach'[branches'[k][n]]
      <4>1. CASE k = l /\ w = commits + 1
        BY <4>1, <2>0, <2>a, <2>c, <2>d DEF NoCommit, Commit
      <4>2. CASE w \in work[k]
        <5>1. PICK n \in Name : branches[k][n] # NoCommit /\ w \in Reach[branches[k][n]]
          BY <4>2, <1>a DEF WorkInv
        <5>2. Reach'[branches[k][n]] = Reach[branches[k][n]]
          BY <5>1, <2>a, <2>c
        <5>3. CASE k = l /\ n = head[k].on
          BY <5>1, <5>2, <5>3, <2>0, <2>a, <2>c, <2>d DEF NoCommit, Commit
        <5>4. CASE ~(k = l /\ n = head[k].on)
          BY <5>1, <5>2, <5>4, <2>c, <2>d
        <5> QED BY <5>3, <5>4
      <4> QED BY <4>1, <4>2, <3>3, <2>d
    <3>4. ASSUME k \notin strayed', NEW w \in work'[k]
          PROVE  branches'[k]["own"] # NoCommit /\ w \in Reach'[branches'[k]["own"]]
      <4>1. CASE k = l
        <5>1. head[k].on = "own"
          BY <3>4, <4>1, <2>0, <2>b, <1>a DEF HeadInv, Name
        <5> QED BY <5>1, <4>1, <3>4, <2>0, <2>a, <2>b, <2>c, <2>d, <1>a DEF WorkInv, Name, NoCommit, Commit
      <4>2. CASE k # l
        BY <4>2, <3>4, <2>a, <2>b, <2>c, <2>d, <1>a DEF WorkInv, Name
      <4> QED BY <4>1, <4>2
    <3> QED BY <3>1, <3>2, <3>3, <3>4 DEF WorkInv
  <2>3. EmptyInv(k)'
    <3>1. k = l => work'[k] # {}
      BY <2>d
    <3>2. k # l => (k \in dirty' <=> k \in dirty)
      BY <2>b
    <3> QED BY <3>1, <3>2, <2>b, <2>d, <1>a DEF EmptyInv
  <2> QED BY <2>1, <2>2, <2>3
<1>6. ASSUME NEW l \in Lane, NodeRenames(l) PROVE HeadInv(k)' /\ WorkInv(k)' /\ EmptyInv(k)'
  <2>0. Reach' = Reach /\ repoHead' = repoHead
    BY <1>6, ReachSame DEF NodeRenames, Working
  <2>a. HeadInv(l) /\ WorkInv(l)
    BY DEF KeptInv
  <2>1. /\ created[l] # "no" /\ doomed[l] = "none" /\ dir[l] = "checkout" /\ head[l].on = "own" /\ branches[l]["other"] = NoCommit
        /\ branches'[l]["own"] = NoCommit /\ branches'[l]["other"] = head[l].at /\ head[l].at # NoCommit
        /\ head'[l].on = "other" /\ head'[l].at = head[l].at /\ l \in strayed'
        /\ UNCHANGED <<created, dir, baseSHA, doomed, work, dropped, adoptions>>
    BY <1>6, <1>a, <1>c, <1>d, <2>a DEF NodeRenames, Working, LanesOK, WorktreeTypeOK, LaneInv, HeadInv
  <2>2. CASE k # l
    <3>1. /\ UNCHANGED <<dir[k], branches[k], head[k], baseSHA[k], created[k], doomed[k], work[k]>>
          /\ k \in dirty' <=> k \in dirty
          /\ k \in strayed' <=> k \in strayed
          /\ k \in dropped \cup adoptions => k \in dropped' \cup adoptions'
      BY <1>6, <1>a, <2>2 DEF NodeRenames, Working, LanesOK, WorktreeTypeOK
    <3> QED BY <1>a, <2>0, <3>1, KeptStands
  <2>3. CASE k = l
    <3>1. HeadInv(k)'
      BY <1>a, <1>d, <2>0, <2>1, <2>3 DEF HeadInv, NoHead
    <3>2. WorkInv(k)'
      BY <1>a, <1>b, <1>c, <1>d, <2>0, <2>1, <2>3 DEF WorkInv, HeadInv
    <3>3. EmptyInv(k)'
      BY <1>a, <1>d, <2>0, <2>1, <2>3 DEF EmptyInv, HeadInv, WorkInv, Absent, NoHead
    <3> QED BY <3>1, <3>2, <3>3
  <2> QED BY <2>2, <2>3
<1>7. ASSUME NEW l \in Lane, NEW c \in Commit, NodeBranches(l, c) PROVE HeadInv(k)' /\ WorkInv(k)' /\ EmptyInv(k)'
  <2>0. Reach' = Reach /\ repoHead' = repoHead
    BY <1>7, ReachSame DEF NodeBranches, Working
  <2>a. HeadInv(l) /\ WorkInv(l)
    BY DEF KeptInv
  <2>1. /\ created[l] # "no" /\ doomed[l] = "none" /\ head[l].on = "own" /\ branches[l]["other"] = NoCommit
        /\ branches'[l]["own"] = branches[l]["own"] /\ branches'[l]["other"] = c
        /\ branches[l]["own"] # NoCommit /\ head'[l] = [on |-> "other", at |-> c] /\ l \in strayed'
        /\ UNCHANGED <<created, dir, baseSHA, doomed, work, dropped, adoptions>>
    BY <1>7, <1>a, <1>c, <1>d, <2>a DEF NodeBranches, Working, LanesOK, WorktreeTypeOK, LaneInv, HeadInv
  <2>2. CASE k # l
    <3>1. /\ UNCHANGED <<dir[k], branches[k], head[k], baseSHA[k], created[k], doomed[k], work[k]>>
          /\ k \in dirty' <=> k \in dirty
          /\ k \in strayed' <=> k \in strayed
          /\ k \in dropped \cup adoptions => k \in dropped' \cup adoptions'
      BY <1>7, <1>a, <2>2 DEF NodeBranches, Working, LanesOK, WorktreeTypeOK
    <3> QED BY <1>a, <2>0, <3>1, KeptStands
  <2>3. CASE k = l
    <3>1. HeadInv(k)'
      BY <1>a, <1>d, <2>0, <2>1, <2>3 DEF HeadInv, NoHead
    <3>2. WorkInv(k)'
      BY <1>a, <1>b, <1>c, <1>d, <2>0, <2>1, <2>3 DEF WorkInv, HeadInv
    <3>3. EmptyInv(k)'
      BY <1>a, <1>d, <2>0, <2>1, <2>3 DEF EmptyInv, HeadInv, WorkInv, Absent, NoHead
    <3> QED BY <3>1, <3>2, <3>3
  <2> QED BY <2>2, <2>3
<1>8. ASSUME NEW l \in Lane, NEW c \in Commit, NodeDetaches(l, c) PROVE HeadInv(k)' /\ WorkInv(k)' /\ EmptyInv(k)'
  BY <1>8 DEF NodeDetaches
<1>9. ASSUME UserCommits PROVE HeadInv(k)' /\ WorkInv(k)' /\ EmptyInv(k)'
  <2>0. /\ commits \in Nat /\ repoHead \in Commit /\ repoHead <= commits
        /\ branches[k] \in [Name -> Commit \cup {NoCommit}]
        /\ \A n \in Name : branches[k][n] <= commits
        /\ \A w \in work[k] : w \in Commit /\ w <= commits
    BY <1>a DEF LanesOK, WorktreeTypeOK, GitInv, Commit
  <2>a. /\ \A c \in Commit : c <= commits => Reach'[c] = Reach[c]
        /\ Reach[repoHead] \subseteq Reach'[commits + 1]
    BY <1>9, <1>a, <2>0, ReachGrows DEF UserCommits
  <2>b. /\ repoHead' = commits + 1 /\ UNCHANGED <<manager, laneMemory, dir, head, dirty, branches, laneHistory>>
    BY <1>9 DEF UserCommits
  <2>1. HeadInv(k)'
    BY <1>a, <2>b DEF HeadInv
  <2>2. WorkInv(k)'
    <3>1. \A w \in work[k] : w \notin Reach'[commits + 1]
      BY <1>9, <1>a, <2>0, ReachTip DEF UserCommits, WorkInv
    <3>2. \A n \in Name : branches[k][n] # NoCommit => Reach'[branches[k][n]] = Reach[branches[k][n]]
      BY <2>0, <2>a
    <3> QED BY <1>a, <2>0, <2>a, <2>b, <3>1, <3>2 DEF WorkInv, Name
  <2>3. EmptyInv(k)'
    BY <1>a, <2>b DEF EmptyInv
  <2> QED BY <2>1, <2>2, <2>3
<1>10. ASSUME EndLeg PROVE HeadInv(k)' /\ WorkInv(k)' /\ EmptyInv(k)'
  BY <1>10, <1>a, ReachSame, KeptStands DEF EndLeg
<1>11. ASSUME NEW l \in Lane, CleanupKeeps(l) PROVE HeadInv(k)' /\ WorkInv(k)' /\ EmptyInv(k)'
  <2>0. Reach' = Reach /\ repoHead' = repoHead
    BY <1>11, ReachSame DEF CleanupKeeps, Pending, RemoveRefused
  <2>1. /\ created'[l] = "no" /\ doomed[l] = "none" /\ l \in dirty /\ dirty' = dirty
        /\ UNCHANGED <<dir, branches, head, baseSHA, doomed, work, strayed, dropped, adoptions>>
    BY <1>11, <1>a, <1>c, <1>d DEF CleanupKeeps, Pending, RemoveRefused, LanesOK, WorktreeTypeOK, LaneInv
  <2>2. CASE k # l
    <3>1. /\ UNCHANGED <<dir[k], branches[k], head[k], baseSHA[k], created[k], doomed[k], work[k]>>
          /\ k \in dirty' <=> k \in dirty
          /\ k \in strayed' <=> k \in strayed
          /\ k \in dropped \cup adoptions => k \in dropped' \cup adoptions'
      BY <1>11, <1>a, <2>2 DEF CleanupKeeps, Pending, RemoveRefused, LanesOK, WorktreeTypeOK
    <3> QED BY <1>a, <2>0, <3>1, KeptStands
  <2>3. CASE k = l
    <3>1. HeadInv(k)'
      BY <1>a, <1>d, <2>0, <2>1, <2>3 DEF HeadInv, NoHead
    <3>2. WorkInv(k)'
      BY <1>a, <1>b, <1>c, <1>d, <2>0, <2>1, <2>3 DEF WorkInv, HeadInv
    <3>3. EmptyInv(k)'
      BY <1>a, <1>d, <2>0, <2>1, <2>3 DEF EmptyInv, HeadInv, WorkInv, Absent, NoHead
    <3> QED BY <3>1, <3>2, <3>3
  <2> QED BY <2>2, <2>3
<1>12. ASSUME NEW l \in Lane, CleanupRemoves(l) PROVE HeadInv(k)' /\ WorkInv(k)' /\ EmptyInv(k)'
  <2>0. Reach' = Reach /\ repoHead' = repoHead
    BY <1>12, ReachSame DEF CleanupRemoves, Pending, RemoveRefused
  <2>a. HeadInv(l) /\ WorkInv(l)
    BY DEF KeptInv
  <2>1. /\ doomed[l] = "none" /\ created[l] # "no" /\ dir[l] = "checkout" /\ dir'[l] = "none" /\ head'[l] = NoHead
        /\ head[l].on \in Name
        /\ \/ created[l] = "fresh" /\ head[l].at = baseSHA[l] /\ doomed'[l] = head[l].on /\ created'[l] = created[l]
           \/ (created[l] = "fresh" => head[l].at # baseSHA[l]) /\ created'[l] = "no" /\ doomed'[l] = "none"
        /\ created[l] \in {"fresh", "adopted"} /\ (created[l] = "adopted" => l \in adoptions)
        /\ UNCHANGED <<branches, baseSHA, work, strayed, dropped, adoptions>>
    BY <1>12, <1>a, <1>c, <1>d, <2>a DEF CleanupRemoves, Pending, RemoveRefused, ProvablyEmpty, CleanupBranch, LanesOK, WorktreeTypeOK, LaneInv, HeadInv
  <2>2. CASE k # l
    <3>1. /\ UNCHANGED <<dir[k], branches[k], head[k], baseSHA[k], created[k], doomed[k], work[k]>>
          /\ k \in dirty' <=> k \in dirty
          /\ k \in strayed' <=> k \in strayed
          /\ k \in dropped \cup adoptions => k \in dropped' \cup adoptions'
      BY <1>12, <1>a, <2>2 DEF CleanupRemoves, Pending, RemoveRefused, ProvablyEmpty, CleanupBranch, LanesOK, WorktreeTypeOK
    <3> QED BY <1>a, <2>0, <3>1, KeptStands
  <2>3. CASE k = l
    <3>1. HeadInv(k)'
      BY <1>a, <1>d, <2>0, <2>1, <2>3 DEF HeadInv, NoHead
    <3>2. WorkInv(k)'
      BY <1>a, <1>b, <1>c, <1>d, <2>0, <2>1, <2>3 DEF WorkInv, HeadInv
    <3>3. EmptyInv(k)'
      <4>1. CASE created'[l] = "no"
        BY <1>a, <2>1, <2>3, <4>1 DEF EmptyInv, HeadInv
      <4>2. CASE doomed'[l] = head[l].on /\ created'[l] = created[l]
        BY <1>a, <1>d, <2>1, <2>3, <4>2 DEF EmptyInv, NoHead
      <4> QED BY <2>1, <4>1, <4>2
    <3> QED BY <3>1, <3>2, <3>3
  <2> QED BY <2>2, <2>3
<1>13. ASSUME NEW l \in Lane, CleanupDeletes(l) PROVE HeadInv(k)' /\ WorkInv(k)' /\ EmptyInv(k)'
  <2>0. Reach' = Reach /\ repoHead' = repoHead
    BY <1>13, ReachSame DEF CleanupDeletes
  <2>a. HeadInv(l) /\ WorkInv(l)
    BY DEF KeptInv
  <2>1. /\ created[l] = "fresh" /\ doomed[l] \in Name /\ dir[l] = "none" /\ created'[l] = "no" /\ doomed'[l] = "none"
        /\ branches[l] \in [Name -> Commit \cup {NoCommit}] /\ baseSHA[l] \in Commit
        /\ branches'[l] = [branches[l] EXCEPT ![doomed[l]] = NoCommit]
        /\ UNCHANGED <<dir, head, baseSHA, work, strayed, dropped, adoptions>>
    BY <1>13, <1>a, <1>c, <1>d, <2>a, <1>b DEF CleanupDeletes, LanesOK, WorktreeTypeOK, LaneInv, WorkInv
  <2>2. CASE k # l
    <3>1. /\ UNCHANGED <<dir[k], branches[k], head[k], baseSHA[k], created[k], doomed[k], work[k]>>
          /\ k \in dirty' <=> k \in dirty
          /\ k \in strayed' <=> k \in strayed
          /\ k \in dropped \cup adoptions => k \in dropped' \cup adoptions'
      BY <1>13, <1>a, <2>2 DEF CleanupDeletes, LanesOK, WorktreeTypeOK
    <3> QED BY <1>a, <2>0, <3>1, KeptStands
  <2>3. CASE k = l
    <3>1. HeadInv(k)'
      BY <1>a, <1>d, <2>0, <2>1, <2>3 DEF HeadInv, NoHead
    <3>2. WorkInv(k)'
      BY <1>a, <1>b, <1>c, <1>d, <2>0, <2>1, <2>3 DEF WorkInv, HeadInv
    <3>3. EmptyInv(k)'
      <4> SUFFICES ASSUME work[k] = {}, k \notin dropped \cup adoptions, ~(k \in strayed /\ branches'[k]["own"] # NoCommit)
                   PROVE  branches'[k] = Absent
        BY <2>1, <2>3 DEF EmptyInv
      <4>1. k \notin strayed \/ doomed[k] = "own" => branches[k]["other"] = NoCommit
        BY <1>a, <2>1, <2>3 DEF EmptyInv
      <4>2. branches[k][doomed[k]] # NoCommit
        BY <1>a, <1>d, <2>1, <2>3 DEF HeadInv
      <4>3. branches'[k]["own"] = NoCommit /\ branches'[k]["other"] = NoCommit
        BY <1>d, <2>1, <2>3, <4>1, <4>2
      <4> QED BY <1>d, <2>1, <2>3, <4>3 DEF Absent
    <3> QED BY <3>1, <3>2, <3>3
  <2> QED BY <2>2, <2>3
<1>14. ASSUME CleanedUp PROVE HeadInv(k)' /\ WorkInv(k)' /\ EmptyInv(k)'
  <2>0. /\ Reach' = Reach /\ created'[k] = "no" /\ baseSHA'[k] = NoCommit /\ doomed'[k] = "none"
        /\ UNCHANGED <<dir, head, dirty, branches, repoHead, work, strayed, adoptions>>
        /\ k \in dropped => k \in dropped'
        /\ created[k] = "no"
    BY <1>14, ReachSame DEF CleanedUp, Forget
  <2>1. HeadInv(k)'
    BY <1>a, <2>0 DEF HeadInv
  <2>2. WorkInv(k)'
    BY <1>a, <2>0 DEF WorkInv
  <2>3. EmptyInv(k)'
    BY <1>a, <2>0 DEF EmptyInv
  <2> QED BY <2>1, <2>2, <2>3
<1>15. ASSUME LaneCrash PROVE HeadInv(k)' /\ WorkInv(k)' /\ EmptyInv(k)'
  <2>0. /\ Reach' = Reach /\ created'[k] = "no" /\ baseSHA'[k] = NoCommit /\ doomed'[k] = "none"
        /\ UNCHANGED <<dir, head, dirty, branches, repoHead, work, strayed, adoptions>>
        /\ k \in dropped => k \in dropped'
        /\ created[k] # "no" => k \in dropped'
    BY <1>15, ReachSame DEF LaneCrash, Forget
  <2>1. HeadInv(k)'
    BY <1>a, <2>0 DEF HeadInv
  <2>2. WorkInv(k)'
    BY <1>a, <2>0 DEF WorkInv
  <2>3. EmptyInv(k)'
    BY <1>a, <2>0 DEF EmptyInv
  <2> QED BY <2>1, <2>2, <2>3
<1>16. ASSUME NextLeg PROVE HeadInv(k)' /\ WorkInv(k)' /\ EmptyInv(k)'
  BY <1>16, <1>a, ReachSame, KeptStands DEF NextLeg
<1>17. ASSUME UNCHANGED worktreeVars PROVE HeadInv(k)' /\ WorkInv(k)' /\ EmptyInv(k)'
  BY <1>17, <1>a, ReachSame, KeptStands DEF worktreeVars
<1> QED BY <1>1, <1>2, <1>3, <1>4, <1>5, <1>6, <1>7, <1>8, <1>9, <1>10, <1>11, <1>12, <1>13, <1>14, <1>15, <1>16, <1>17 DEF WorktreeNext

\* The types of the lanes and of the repository, for any number of lanes and
\* commits, nodes that detach a HEAD included.
THEOREM WorktreeTypes == WorktreeSpec => []WorktreeTypeOK
<1>1. WorktreeInit => LanesOK
  BY LanesInit, WorktreeAssumption
<1>2. LanesOK /\ [WorktreeNext]_worktreeVars => LanesOK'
  BY LanesStep, WorktreeAssumption
<1>3. LanesOK => WorktreeTypeOK
  BY DEF LanesOK
<1> QED BY <1>1, <1>2, <1>3, PTL DEF WorktreeSpec

\* The invariant says that work alone is kept.
LEMMA KeptSuffices == WorktreeAssumption /\ KeptInv => WorkAloneIsKept
<1> SUFFICES ASSUME WorktreeAssumption, KeptInv PROVE WorkAloneIsKept
  OBVIOUS
<1>1. ASSUME NEW l \in Lane PROVE work[l] \subseteq UNION {Lineage(c) : c \in Tips \ {NoCommit}}
  <2> SUFFICES ASSUME NEW w \in work[l] PROVE \E c \in Tips \ {NoCommit} : w \in Lineage(c)
    OBVIOUS
  <2>1. PICK n \in Name : branches[l][n] # NoCommit /\ w \in Reach[branches[l][n]]
    BY <1>1 DEF KeptInv, WorkInv
  <2>2. branches[l][n] \in Tips /\ branches[l][n] \in Commit
    BY <2>1 DEF Tips, KeptInv, LanesOK, WorktreeTypeOK
  <2>3. Reach[branches[l][n]] = Lineage(branches[l][n])
    BY <2>2 DEF Reach
  <2> QED BY <2>1, <2>2, <2>3
<1>2. ASSUME NEW l \in Lane, created[l] # "no", doomed[l] = "none", manager = "leg"
      PROVE  dir[l] = "checkout" /\ (l \notin strayed => work[l] \subseteq Lineage(head[l].at))
  <2>1. dir[l] = "checkout"
    BY <1>2 DEF KeptInv, LanesOK, LaneInv
  <2>2. ASSUME l \notin strayed PROVE head[l].on = "own" /\ head[l].at = branches[l]["own"] /\ head[l].at \in Commit
    BY <1>2, <2>1, <2>2 DEF KeptInv, LanesOK, LaneInv, HeadInv, WorktreeTypeOK, Name
  <2>3. ASSUME l \notin strayed PROVE Reach[head[l].at] = Lineage(head[l].at)
    BY <2>2, <2>3 DEF Reach
  <2> QED BY <2>1, <2>2, <2>3 DEF KeptInv, WorkInv
<1>3. NoEmptyLeftover
  BY DEF NoEmptyLeftover, KeptInv, EmptyInv, LanesOK, LaneInv
<1> QED BY <1>1, <1>2, <1>3 DEF WorkAloneIsKept, WorkNeverLost

\* What outlives a leg is the work done in it, all of it and no more: for any
\* number of lanes, of commits and of legs, wherever a leg is killed, as long as
\* no node leaves its lane on a detached HEAD (whose branch cleanup guesses).
THEOREM WorkKept ==
    ASSUME ~AllowDetach
    PROVE  WorktreeSpec => []WorkAloneIsKept
<1>1. WorktreeInit => KeptInv
  BY KeptInit, WorktreeAssumption
<1>2. KeptInv /\ [WorktreeNext]_worktreeVars => KeptInv'
  <2>1. KeptInv /\ [WorktreeNext]_worktreeVars => LanesOK'
    BY LanesStep, WorktreeAssumption DEF KeptInv
  <2> QED BY <2>1, KeptStep, WorktreeAssumption DEF KeptInv
<1>3. KeptInv => WorkAloneIsKept
  BY KeptSuffices, WorktreeAssumption
<1> QED BY <1>1, <1>2, <1>3, PTL DEF WorktreeSpec
=============================================================================
