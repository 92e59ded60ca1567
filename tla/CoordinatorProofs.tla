-------------------------- MODULE CoordinatorProofs --------------------------
(***************************************************************************)
(* What is proved of the coordinator.  Of the goal loop, for any number of  *)
(* cycles, questions, corrections and spawn attempts, any ceiling, and      *)
(* calls whose replies, costs and failures are anything: its accounts say   *)
(* what was paid, its ceiling is compared with all of it, and its legs are  *)
(* bracketed.  Of an auto run, for any replies of the planner, any flags,   *)
(* any edits of the user's files and any number of legs: what its nodes are *)
(* given, read and pass with is what was planned; and of what they are told *)
(* besides, for any files, programs, attempts and legs: the accepted        *)
(* conventions, once, and the reply of the attempt before.  Of its prompts, *)
(* for any nodes' output and any refusals of a reply: they stay within      *)
(* their bounds, and are shared out as promised.                            *)
(***************************************************************************)
EXTENDS PromptBudgets, GoalLoop, AutoPlan, Briefing, WellFoundedInduction, SequenceTheorems, FiniteSetTheorems, TLAPS


\* The interview ends before the loop begins; a question is asked only below the
\* limit, and answered at most once.
AskingInv ==
    /\ goalAt \in {"asking", "answering"} => interview.on /\ cycle = 0
    /\ goalAt = "asking" => interview.asked < MaxQuestions /\ interview.answered <= interview.asked
    /\ goalAt = "answering" => interview.answered < interview.asked
    /\ ~interview.on => interview.bill = Free

\* The report of a cycle is its last step; a planner call, a run and a judgment
\* have a cycle whose report is still to come.
ReportsInv ==
    /\ goalAt \in {"asking", "answering", "boundary"} => reports.number = cycle
    /\ goalAt \in {"planning", "committed", "assessing"} => cycle \in Cycle /\ reports.number = cycle - 1
    /\ goalAt # "planning" => stepBill = Free
    /\ correction = 0 => stepBill = Free
    /\ loopBill = reports.rows
    /\ reports.number = 0 => reports.rows = Free

\* A leg was opened by its cycle and closed before the next one began.
OtherLegs ==
    \A c \in Cycle : /\ c > cycle => cycleLeg[c] = "none"
                     /\ c < cycle => cycleLeg[c] \notin {"planning", "running"}

\* The steps of a cycle follow its leg's stream.
CycleLegInv ==
    /\ goalAt = "boundary" /\ cycle > 0 => cycleLeg[cycle] \in {"passed", "failed"}
    /\ goalAt = "planning" => cycleLeg[cycle] = "planning"
    /\ goalAt = "committed" => cycleLeg[cycle] \in {"planning", "running"}
    /\ goalAt = "assessing" =>
          cycleLeg[cycle] = (IF evidence.run = "passed" THEN "passed" ELSE "failed") /\ evidence.run # "none"
    /\ goalAt = "ended" /\ cycle > 0 => cycleLeg[cycle] \notin {"planning", "running"}
    /\ ending.how = "goal_met" /\ reports.last = "passed" => cycleLeg[cycle] = "passed"

\* Where the money is, at each place of the loop: in the interview's bill, in the
\* planning step's sum, in the plan's cost, in the cycle's evidence, in the
\* loop's total, and nowhere twice.
MoneyInv ==
    /\ goalAt \in {"asking", "answering"} => spend.plan = interview.bill /\ spend.all = interview.bill
    /\ goalAt = "boundary" /\ cycle = 0 => spend.plan = interview.bill /\ spend.all = interview.bill
    /\ goalAt = "boundary" /\ cycle > 0 => spend.all = loopBill
    /\ goalAt = "planning" => spend.plan = AddBill(stepBill, InterviewBill)
    /\ goalAt = "committed" => spend.plan = planBill
    /\ goalAt \in {"planning", "committed"} => spend.all = AddBill(loopBill, spend.plan)
    /\ goalAt = "assessing" => /\ evidence.cost = AddBill(spend.plan, spend.run)
                               /\ spend.all = AddBill(loopBill, evidence.cost)

\* What the stream of the current leg was told that its planning cost.
PriceInv ==
    /\ goalAt \in {"boundary", "assessing"} /\ cycle > 0 => price = spend.plan
    /\ goalAt = "committed" /\ cycleLeg[cycle] = "running" => price = planBill

\* The cycle was begun below the ceiling, and the loop's total stays while it lasts.
CeilingInv ==
    goalAt \in {"planning", "committed", "assessing"} /\ cycle > 1 /\ ceiling > 0 =>
        ~loopBill.unknown /\ loopBill.usd < ceiling

\* What each ending leaves of the accounts.
EndingInv ==
    /\ goalAt = "ended" /\ cycle > 0 /\ cycleLeg[cycle] # "none" /\ ending.how # "silent" => price = spend.plan
    /\ ending.how \in Stop => reports.number > 0 /\ reports.rows = spend.all /\ ending.bill = Free
    /\ ending.how = "refused" => SummaryTotal = spend.all
    /\ ending.how = "silent" => SummaryTotal.usd = spend.all.usd
    /\ ending.how = "garbage" =>
          SummaryTotal.usd + spend.run.usd + spend.plan.usd
              = spend.all.usd + (IF reports.number = 0 THEN interview.bill.usd ELSE 0)

GoalInv ==
    /\ GoalTypeOK /\ AskingInv /\ ReportsInv /\ OtherLegs /\ CycleLegInv
    /\ MoneyInv /\ PriceInv /\ CeilingInv /\ EndingInv

\* All but the types.
Rest == AskingInv /\ ReportsInv /\ OtherLegs /\ CycleLegInv /\ MoneyInv /\ PriceInv /\ CeilingInv /\ EndingInv

----------------------------------------------------------------------------
(* Bills are added as amounts are, and what is unknown in one is unknown in the sum. *)

\* The sum's two fields.
LEMMA BillSum ==
    ASSUME NEW a \in Bill, NEW b \in Bill
    PROVE  /\ AddBill(a, b) \in Bill
           /\ AddBill(a, b).usd = a.usd + b.usd
           /\ AddBill(a, b).unknown <=> a.unknown \/ b.unknown
BY DEF AddBill, Bill

\* Two bills are one when they say the same.
LEMMA SameBill ==
    ASSUME NEW a \in Bill, NEW b \in Bill, a.usd = b.usd, a.unknown <=> b.unknown
    PROVE  a = b
BY DEF Bill

\* Bills may be added in any order.
LEMMA BillOrder ==
    ASSUME NEW a \in Bill, NEW b \in Bill, NEW c \in Bill
    PROVE  /\ AddBill(a, b) = AddBill(b, a)
           /\ AddBill(AddBill(a, b), c) = AddBill(a, AddBill(b, c))
<1>1. AddBill(a, b) = AddBill(b, a)
  BY BillSum, SameBill DEF Bill
<1>2. /\ AddBill(AddBill(a, b), c) \in Bill /\ AddBill(a, AddBill(b, c)) \in Bill
      /\ AddBill(a, b) \in Bill /\ AddBill(b, c) \in Bill
  BY BillSum
<1>3. AddBill(AddBill(a, b), c).usd = AddBill(a, AddBill(b, c)).usd
  <2> a.usd \in Nat /\ b.usd \in Nat /\ c.usd \in Nat
    BY DEF Bill
  <2> QED BY <1>2, BillSum
<1>4. AddBill(AddBill(a, b), c).unknown <=> AddBill(a, AddBill(b, c)).unknown
  BY <1>2, BillSum
<1> QED BY <1>1, <1>2, <1>3, <1>4, SameBill

\* What costs nothing adds nothing.
LEMMA FreeBill ==
    /\ Free \in Bill /\ Unreported \in Bill /\ Charge \subseteq Bill
    /\ Free.usd = 0 /\ ~Free.unknown /\ Unreported.usd = 0 /\ Unreported.unknown
    /\ \A b \in Bill : AddBill(b, Free) = b /\ AddBill(Free, b) = b
<1>1. /\ Free \in Bill /\ Unreported \in Bill /\ Charge \subseteq Bill /\ Free.usd = 0 /\ ~Free.unknown /\ Unreported.usd = 0
      /\ Unreported.unknown
  BY DEF Free, Bill, Unreported, Charge
<1>2. ASSUME NEW b \in Bill PROVE AddBill(b, Free) = b
  BY <1>1, BillSum, SameBill DEF Bill
<1> QED BY <1>1, <1>2, BillOrder

\* A launch owes nothing.
LEMMA GoalInitHolds == GoalInit => GoalInv
<1> SUFFICES ASSUME GoalInit PROVE GoalInv
  OBVIOUS
<1>1. GoalTypeOK
  <2>1. interview \in [on : BOOLEAN, asked : 0..MaxQuestions, answered : 0..MaxQuestions, bill : Bill]
    BY GoalAssumption, FreeBill DEF GoalInit
  <2>2. /\ goalAt \in {"asking", "boundary"} /\ cycle \in 0..MaxCycles /\ correction \in 0..MaxRepairs
        /\ spawns \in 0..(SpawnAttempts - 1)
    BY GoalAssumption DEF GoalInit
  <2>3. reports \in [rows : Bill, number : {n \in {cycle - 1, cycle} : n >= 0},
                     last : {"none", "passed", "failed", "forbidden"}]
    BY FreeBill DEF GoalInit
  <2>4. /\ ending.how = "none" /\ ending \in [how : {"none"} \cup Stop \cup Failure, bill : Bill]
        /\ spend \in [all : Bill, plan : Bill, run : Bill]
        /\ evidence \in [run : {"none", "passed", "failed", "forbidden"}, cost : Bill]
    BY FreeBill DEF GoalInit
  <2> QED BY <2>1, <2>2, <2>3, <2>4, FreeBill DEF GoalInit, GoalTypeOK
<1>2. Rest
  BY GoalAssumption, FreeBill DEF GoalInit, Rest, AskingInv, ReportsInv, OtherLegs, CycleLegInv, MoneyInv, PriceInv, CeilingInv, EndingInv, Stop, Cycle
<1> QED BY <1>1, <1>2 DEF GoalInv, Rest

----------------------------------------------------------------------------
(* Each step, one by one. *)

\* The types of the fields the steps add up.
LEMMA GoalFields ==
    ASSUME GoalTypeOK
    PROVE  /\ interview.bill \in Bill /\ spend.all \in Bill /\ spend.plan \in Bill /\ spend.run \in Bill
           /\ stepBill \in Bill /\ planBill \in Bill /\ loopBill \in Bill /\ evidence.cost \in Bill
           /\ reports.rows \in Bill /\ ending.bill \in Bill /\ price \in Bill /\ InterviewBill \in Bill
           /\ cycle \in Nat /\ reports.number \in Nat /\ ceiling \in Nat
           /\ interview.asked \in Nat /\ interview.answered \in Nat
BY GoalAssumption, FreeBill DEF GoalTypeOK, InterviewBill

\* Others keep their legs while a cycle lasts.
LEMMA OthersKept ==
    ASSUME GoalTypeOK, OtherLegs, cycle' = cycle, \A c \in Cycle \ {cycle} : cycleLeg'[c] = cycleLeg[c]
    PROVE  OtherLegs'
<1>1. ASSUME NEW c \in Cycle, c > cycle \/ c < cycle PROVE c \in Cycle \ {cycle}
  BY GoalFields, GoalAssumption, <1>1 DEF Cycle
<1> QED BY <1>1 DEF OtherLegs

LegPhases == {"none", "planning", "running", "passed", "failed", "paused"}

\* A close changes the current leg only, and only an open one.
LEMMA Closed ==
    ASSUME GoalTypeOK, NEW outcome \in {"passed", "failed", "paused"}, NEW cost \in Bill, Close(outcome, cost)
    PROVE  /\ cycleLeg' \in [Cycle -> LegPhases] /\ price' \in Bill
           /\ \A c \in Cycle \ {cycle} : cycleLeg'[c] = cycleLeg[c]
           /\ cycle > 0 /\ cycleLeg[cycle] \in {"planning", "running"} =>
                 cycleLeg'[cycle] = outcome /\ price' = cost
           /\ ~(cycle > 0 /\ cycleLeg[cycle] \in {"planning", "running"}) => UNCHANGED <<cycleLeg, price>>
<1>1. cycleLeg \in [Cycle -> LegPhases] /\ price \in Bill /\ cycle \in 0..MaxCycles
  BY DEF GoalTypeOK, LegPhases
<1>2. CASE cycle > 0 /\ cycleLeg[cycle] \in {"planning", "running"}
  <2>1. cycle \in Cycle
    BY <1>1, <1>2, GoalAssumption DEF Cycle
  <2>2. cycleLeg' = [cycleLeg EXCEPT ![cycle] = outcome] /\ price' = cost
    BY <1>2 DEF Close
  <2>3. outcome \in LegPhases
    BY DEF LegPhases
  <2> QED BY <1>1, <1>2, <2>1, <2>2, <2>3
<1> QED BY <1>1, <1>2 DEF Close

\* A question is asked only below the limit.
LEMMA AskKeeps ==
    ASSUME GoalInv, NEW reply \in {"question", "repeat", "enough", "malformed"}, NEW bill \in Charge,
           Ask(reply, bill)
    PROVE  GoalInv'
<1> USE GoalAssumption, FreeBill, GoalFields
<1>1. /\ goalAt = "asking" /\ interview.on /\ cycle = 0 /\ interview.asked < MaxQuestions
      /\ interview.answered <= interview.asked /\ reports.number = 0 /\ ending.how = "none"
      /\ spend.plan = interview.bill /\ spend.all = interview.bill /\ stepBill = Free
      /\ loopBill = reports.rows
  BY DEF GoalInv, AskingInv, ReportsInv, MoneyInv, Ask, GoalTypeOK
<1>2. /\ interview'.on /\ interview'.bill = AddBill(interview.bill, bill) /\ interview'.answered = interview.answered
      /\ interview'.asked = interview.asked + (IF reply = "question" THEN 1 ELSE 0)
      /\ interview' \in [on : BOOLEAN, asked : 0..MaxQuestions, answered : 0..MaxQuestions, bill : Bill]
  <2>1. interview \in [on : BOOLEAN, asked : 0..MaxQuestions, answered : 0..MaxQuestions, bill : Bill]
    BY DEF GoalInv, GoalTypeOK
  <2>2. AddBill(interview.bill, bill) \in Bill
    BY BillSum, <2>1
  <2>3. interview.asked + (IF reply = "question" THEN 1 ELSE 0) \in 0..MaxQuestions
    BY <1>1, <2>1
  <2> QED BY <1>1, <2>1, <2>2, <2>3 DEF Ask
<1>3. /\ spend'.plan = AddBill(spend.plan, bill) /\ spend'.all = AddBill(spend.all, bill)
      /\ spend' \in [all : Bill, plan : Bill, run : Bill]
  BY BillSum DEF Ask, PayPlanning, GoalInv, GoalTypeOK
<1>4. /\ goalAt' = (IF reply = "question" THEN "answering" ELSE "boundary") /\ spawns' = 0
      /\ UNCHANGED <<ceiling, cycle, correction, stepBill, planBill, evidence, loopBill, reports, ending, cycleLeg, price, cancelled>>
  BY DEF Ask, loopState, legState
<1>5. GoalTypeOK'
  BY <1>1, <1>2, <1>3, <1>4 DEF GoalInv, GoalTypeOK
<1>6. AskingInv' /\ ReportsInv'
  BY <1>1, <1>2, <1>4 DEF GoalInv, AskingInv, ReportsInv
<1>7. OtherLegs' /\ CycleLegInv'
  BY <1>1, <1>4, OthersKept DEF GoalInv, CycleLegInv
<1>8. MoneyInv' /\ PriceInv' /\ CeilingInv'
  BY <1>1, <1>2, <1>3, <1>4 DEF MoneyInv, PriceInv, CeilingInv
<1>9. EndingInv'
  BY <1>1, <1>4 DEF EndingInv, Stop
<1> QED BY <1>5, <1>6, <1>7, <1>8, <1>9 DEF GoalInv

\* A question that fails ends the interview.
LEMMA AskFailsKeeps ==
    ASSUME GoalInv, NEW bill \in Charge \cup {Free}, AskFails(bill)
    PROVE  GoalInv'
<1> USE GoalAssumption, FreeBill, GoalFields
<1>1. /\ goalAt = "asking" /\ interview.on /\ cycle = 0 /\ reports.number = 0 /\ ending.how = "none"
      /\ stepBill = Free /\ loopBill = reports.rows
  BY DEF GoalInv, AskingInv, ReportsInv, MoneyInv, AskFails, GoalTypeOK
<1>2. /\ interview'.on
      /\ interview' \in [on : BOOLEAN, asked : 0..MaxQuestions, answered : 0..MaxQuestions, bill : Bill]
  BY <1>1, BillSum DEF AskFails, GoalInv, GoalTypeOK
<1>3. spend' \in [all : Bill, plan : Bill, run : Bill]
  BY BillSum DEF AskFails, PayPlanning, GoalInv, GoalTypeOK
<1>4. /\ goalAt' = "ended" /\ ending' = [how |-> "abandoned", bill |-> interview'.bill]
      /\ UNCHANGED <<ceiling, cycle, correction, spawns, stepBill, planBill, evidence, loopBill, reports, cycleLeg, price, cancelled>>
  BY DEF AskFails, FailWith, loopState, legState
<1>5. GoalTypeOK'
  BY <1>1, <1>2, <1>3, <1>4 DEF GoalInv, GoalTypeOK, Failure
<1>6. AskingInv' /\ ReportsInv'
  BY <1>1, <1>2, <1>4 DEF GoalInv, AskingInv, ReportsInv
<1>7. OtherLegs' /\ CycleLegInv'
  BY <1>1, <1>4, OthersKept DEF GoalInv, CycleLegInv
<1>8. MoneyInv' /\ PriceInv' /\ CeilingInv'
  BY <1>1, <1>4 DEF MoneyInv, PriceInv, CeilingInv
<1>9. EndingInv'
  BY <1>1, <1>4 DEF EndingInv, Stop
<1> QED BY <1>5, <1>6, <1>7, <1>8, <1>9 DEF GoalInv

\* An answer is to a question asked.
LEMMA AnswerKeeps ==
    ASSUME GoalInv, NEW line \in {"answer", "skip", "done", "eof"}, Answer(line)
    PROVE  GoalInv'
<1> USE GoalAssumption, FreeBill, GoalFields
<1>1. /\ goalAt = "answering" /\ interview.on /\ cycle = 0 /\ interview.answered < interview.asked
      /\ interview.asked \in 0..MaxQuestions /\ reports.number = 0 /\ ending.how = "none"
      /\ spend.plan = interview.bill /\ spend.all = interview.bill /\ stepBill = Free
      /\ loopBill = reports.rows
  BY DEF GoalInv, AskingInv, ReportsInv, MoneyInv, Answer, GoalTypeOK
<1>2. /\ interview'.on /\ interview'.bill = interview.bill /\ interview'.asked = interview.asked
      /\ interview'.answered \in Nat /\ interview'.answered <= interview.asked
      /\ interview' \in [on : BOOLEAN, asked : 0..MaxQuestions, answered : 0..MaxQuestions, bill : Bill]
  BY <1>1 DEF Answer, GoalInv, GoalTypeOK
<1>3. UNCHANGED <<ceiling, cycle, correction, spawns, stepBill, planBill, evidence, loopBill, reports, cycleLeg, price, cancelled, spend>>
  BY DEF Answer, loopState, legState
<1>4. \/ goalAt' = "ended" /\ ending' = [how |-> "abandoned", bill |-> interview.bill]
      \/ goalAt' = "boundary" /\ ending' = ending
      \/ goalAt' = "asking" /\ ending' = ending /\ interview.asked < MaxQuestions
  BY DEF Answer, FailWith
<1>5. GoalTypeOK'
  BY <1>1, <1>2, <1>3, <1>4 DEF GoalInv, GoalTypeOK, Failure
<1>6. AskingInv' /\ ReportsInv'
  BY <1>1, <1>2, <1>3, <1>4 DEF GoalInv, AskingInv, ReportsInv
<1>7. OtherLegs' /\ CycleLegInv'
  BY <1>1, <1>3, <1>4, OthersKept DEF GoalInv, CycleLegInv
<1>8. MoneyInv' /\ PriceInv' /\ CeilingInv'
  BY <1>1, <1>2, <1>3, <1>4 DEF MoneyInv, PriceInv, CeilingInv
<1>9. EndingInv'
  BY <1>1, <1>3, <1>4 DEF EndingInv, Stop
<1> QED BY <1>5, <1>6, <1>7, <1>8, <1>9 DEF GoalInv

\* Between two cycles the loop goes on or stops, and says why.
LEMMA BoundaryKeeps ==
    ASSUME GoalInv, Boundary
    PROVE  GoalInv'
<1> USE GoalAssumption, FreeBill, GoalFields
<1>1. /\ goalAt = "boundary" /\ cycle > 0 /\ goalAt' = "ended" /\ ending'.bill = Free
      /\ ending' \in [how : {"cycles_exhausted", "budget_exceeded", "budget_unmeasurable"}, bill : Bill]
  BY DEF Boundary, StopLoop, OverCeiling, Unmeasurable
<1>2. UNCHANGED <<ceiling, interview, cycle, correction, spawns, stepBill, planBill, evidence, loopBill, reports, cycleLeg, price, cancelled, spend>>
  BY DEF Boundary, loopState, legState
<1>3. GoalTypeOK'
  BY <1>1, <1>2 DEF GoalInv, GoalTypeOK, Stop
<1>4. AskingInv' /\ ReportsInv'
  BY <1>1, <1>2 DEF GoalInv, AskingInv, ReportsInv
<1>5. OtherLegs' /\ CycleLegInv'
  BY <1>1, <1>2, OthersKept DEF GoalInv, CycleLegInv
<1>6. MoneyInv' /\ PriceInv' /\ CeilingInv'
  BY <1>1 DEF MoneyInv, PriceInv, CeilingInv
<1>7. EndingInv'
  <2>1. price = spend.plan /\ reports.rows = spend.all /\ reports.number = cycle
    BY <1>1 DEF GoalInv, PriceInv, MoneyInv, ReportsInv
  <2> QED BY <1>1, <1>2, <2>1 DEF EndingInv
<1> QED BY <1>3, <1>4, <1>5, <1>6, <1>7 DEF GoalInv

\* A cycle begins with nothing spent in it.
LEMMA BeginCycleKeeps ==
    ASSUME GoalInv, BeginCycle
    PROVE  GoalInv'
<1> USE GoalAssumption, FreeBill, GoalFields
<1>1. /\ goalAt = "boundary" /\ cycle < MaxCycles /\ cycle' = cycle + 1 /\ price' = Free
      /\ cycle \in Nat /\ cycle' \in Cycle /\ reports.number = cycle /\ ending.how = "none"
      /\ stepBill = Free /\ loopBill = reports.rows
      /\ UNCHANGED <<ceiling, interview, correction, spawns, stepBill, planBill, evidence, loopBill, reports, cancelled>>
  BY DEF BeginCycle, GoalInv, GoalTypeOK, ReportsInv, Cycle
<1>2. /\ spend'.plan = (IF cycle = 0 THEN spend.plan ELSE Free) /\ spend'.all = spend.all
      /\ spend' \in [all : Bill, plan : Bill, run : Bill]
  BY DEF BeginCycle, GoalInv, GoalTypeOK
<1>3. \/ goalAt' = "planning" /\ ending' = ending /\ cycleLeg' = [cycleLeg EXCEPT ![cycle'] = "planning"]
      \/ goalAt' = "ended" /\ ending' = [how |-> "broken", bill |-> Free] /\ cycleLeg' = cycleLeg
  BY DEF BeginCycle, FailWith
<1>4. cycle > 0 /\ ceiling > 0 => ~loopBill.unknown /\ loopBill.usd < ceiling
  BY DEF BeginCycle, OverCeiling, Unmeasurable, Bill, GoalInv
<1>5. /\ cycleLeg \in [Cycle -> LegPhases] /\ cycleLeg' \in [Cycle -> LegPhases]
      /\ cycleLeg[cycle'] = "none"
      /\ \A c \in Cycle \ {cycle'} : cycleLeg'[c] = cycleLeg[c]
      /\ goalAt' = "planning" => cycleLeg'[cycle'] = "planning"
      /\ goalAt' = "ended" => cycleLeg'[cycle'] = "none"
  <2>1. cycleLeg \in [Cycle -> LegPhases]
    BY DEF GoalInv, GoalTypeOK, LegPhases
  <2>2. cycleLeg[cycle'] = "none"
    BY <1>1 DEF GoalInv, OtherLegs
  <2>3. "planning" \in LegPhases
    BY DEF LegPhases
  <2> QED BY <1>1, <1>3, <2>1, <2>2, <2>3
<1>6. GoalTypeOK'
  <2>1. reports \in [rows : Bill, number : {n \in {cycle' - 1, cycle'} : n >= 0},
                     last : {"none", "passed", "failed", "forbidden"}]
    <3>1. reports.number = cycle' - 1 /\ reports.number >= 0
      BY <1>1
    <3> QED BY <3>1 DEF GoalInv, GoalTypeOK
  <2>2. cycle' \in 0..MaxCycles
    BY <1>1 DEF Cycle
  <2> QED BY <1>1, <1>2, <1>3, <1>5, <2>1, <2>2 DEF GoalInv, GoalTypeOK, Failure, LegPhases
<1>7. AskingInv' /\ ReportsInv'
  BY <1>1, <1>3 DEF GoalInv, AskingInv, ReportsInv
<1>8. OtherLegs'
  <2> SUFFICES ASSUME NEW c \in Cycle
               PROVE  /\ c > cycle' => cycleLeg'[c] = "none"
                      /\ c < cycle' => cycleLeg'[c] \notin {"planning", "running"}
    BY DEF OtherLegs
  <2>1. CASE c > cycle'
    BY <1>1, <1>5, <2>1 DEF GoalInv, OtherLegs, Cycle
  <2>2. CASE c < cycle' /\ c < cycle
    BY <1>1, <1>5, <2>2 DEF GoalInv, OtherLegs, Cycle
  <2>3. CASE c = cycle
    BY <1>1, <1>5, <2>3 DEF GoalInv, CycleLegInv, Cycle
  <2> QED BY <1>1, <2>1, <2>2, <2>3 DEF Cycle
<1>9. CycleLegInv'
  BY <1>1, <1>3, <1>5 DEF CycleLegInv
<1>10. MoneyInv'
  <2>1. spend.all = IF cycle = 0 THEN interview.bill ELSE loopBill
    BY <1>1 DEF GoalInv, MoneyInv
  <2>2. cycle = 0 => loopBill = Free /\ spend.plan = interview.bill
    BY <1>1 DEF GoalInv, ReportsInv, MoneyInv
  <2>3. InterviewBill' = IF cycle = 0 THEN interview.bill ELSE Free
    BY <1>1 DEF InterviewBill, GoalInv, AskingInv
  <2>4. goalAt' = "planning" => spend'.plan = AddBill(stepBill', InterviewBill')
    BY <1>1, <1>2, <2>2, <2>3
  <2>5. goalAt' = "planning" => spend'.all = AddBill(loopBill', spend'.plan)
    BY <1>1, <1>2, <2>1, <2>2
  <2> QED BY <1>3, <2>4, <2>5 DEF MoneyInv
<1>11. PriceInv' /\ EndingInv'
  BY <1>1, <1>3, <1>5 DEF PriceInv, EndingInv, Stop
<1>12. CeilingInv'
  BY <1>1, <1>3, <1>4 DEF CeilingInv
<1> QED BY <1>6, <1>7, <1>8, <1>9, <1>10, <1>11, <1>12 DEF GoalInv

\* The interview is cycle 1's by either account of which cycle that is.
LEMMA FirstCycle ==
    ASSUME GoalInv, goalAt = "planning", NEW step \in Bill
    PROVE  /\ RejectedPrice(step) = AddBill(step, InterviewBill)
           /\ AddBill(IF reports.number = 0 THEN interview.bill ELSE Free, step) = AddBill(step, InterviewBill)
<1> USE GoalFields, FreeBill
<1>1. cycle \in Nat /\ reports.number = cycle - 1
  BY GoalAssumption DEF GoalInv, ReportsInv, Cycle
<1>2. ~interview.on => interview.bill = Free
  BY DEF GoalInv, AskingInv
<1>3. InterviewBill = (IF reports.number = 0 THEN interview.bill ELSE Free)
  BY <1>1, <1>2 DEF InterviewBill
<1>4. RejectedPrice(step) = AddBill(step, InterviewBill)
  BY <1>1, <1>2 DEF RejectedPrice, InterviewBill, GoalInv
<1> QED BY <1>3, <1>4, BillOrder DEF GoalInv

\* A planning that is rejected ends the loop and closes the leg at what its calls
\* are known to have cost.
LEMMA Rejected ==
    ASSUME GoalInv, goalAt = "planning", NEW how \in {"refused", "silent"}, NEW step \in Bill, Reject(how, step),
           spend' \in [all : Bill, plan : Bill, run : Bill],
           IF how = "refused"
           THEN spend'.plan = AddBill(step, InterviewBill) /\ spend'.all = AddBill(loopBill, spend'.plan)
           ELSE spend'.all.usd = loopBill.usd + step.usd + InterviewBill.usd,
           UNCHANGED <<ceiling, interview, cycle, planBill, evidence, loopBill, reports, cancelled>>
    PROVE  GoalInv'
<1> USE GoalAssumption, FreeBill, GoalFields
<1>1. /\ cycle \in Cycle /\ cycle \in Nat /\ cycle > 0 /\ reports.number = cycle - 1 /\ loopBill = reports.rows
      /\ cycleLeg[cycle] = "planning"
  BY DEF GoalInv, ReportsInv, CycleLegInv, Cycle
<1>2. /\ goalAt' = "ended" /\ ending' = [how |-> how, bill |-> step]
      /\ correction' = 0 /\ stepBill' = Free /\ spawns' = 0
  BY DEF Reject, FailWith, PlanningOver
<1>3. RejectedPrice(step) \in Bill /\ Close("failed", RejectedPrice(step))
  BY BillSum DEF Reject, RejectedPrice, GoalInv
<1>4. /\ cycleLeg' \in [Cycle -> LegPhases] /\ price' \in Bill
      /\ \A c \in Cycle \ {cycle} : cycleLeg'[c] = cycleLeg[c]
      /\ cycleLeg'[cycle] = "failed" /\ price' = RejectedPrice(step)
  BY <1>1, <1>3, Closed DEF GoalInv
<1>5. GoalTypeOK'
  BY <1>1, <1>2, <1>4 DEF GoalInv, GoalTypeOK, Failure, LegPhases
<1>6. AskingInv' /\ ReportsInv'
  BY <1>1, <1>2 DEF GoalInv, AskingInv, ReportsInv
<1>7. OtherLegs' /\ CycleLegInv'
  BY <1>1, <1>2, <1>4, OthersKept DEF GoalInv, CycleLegInv
<1>8. MoneyInv' /\ PriceInv' /\ CeilingInv'
  BY <1>2 DEF MoneyInv, PriceInv, CeilingInv
<1>9. EndingInv'
  <2>1. SummaryTotal' = AddBill(loopBill, AddBill(step, InterviewBill))
    BY <1>1, <1>2, FirstCycle DEF SummaryTotal
  <2>2. SummaryTotal'.usd = loopBill.usd + step.usd + InterviewBill.usd
    <3>1. loopBill \in Bill /\ InterviewBill \in Bill /\ AddBill(step, InterviewBill) \in Bill
      BY BillSum DEF GoalInv
    <3>2. loopBill.usd \in Nat /\ step.usd \in Nat /\ InterviewBill.usd \in Nat
      BY <3>1 DEF Bill
    <3> QED BY <2>1, <3>1, <3>2, BillSum
  <2>3. price' = AddBill(step, InterviewBill)
    BY <1>4, FirstCycle
  <2> QED BY <1>2, <2>1, <2>2, <2>3 DEF EndingInv, Stop
<1> QED BY <1>5, <1>6, <1>7, <1>8, <1>9 DEF GoalInv

\* What is known at a planning step.
LEMMA Planning ==
    ASSUME GoalInv, goalAt = "planning"
    PROVE  /\ cycle \in Cycle /\ cycle > 0 /\ reports.number = cycle - 1 /\ loopBill = reports.rows
           /\ ending.how = "none" /\ cycleLeg[cycle] = "planning"
           /\ spend.plan = AddBill(stepBill, InterviewBill) /\ spend.all = AddBill(loopBill, spend.plan)
           /\ cycle > 1 /\ ceiling > 0 => ~loopBill.unknown /\ loopBill.usd < ceiling
BY GoalFields DEF GoalInv, GoalTypeOK, ReportsInv, CycleLegInv, MoneyInv, CeilingInv, Cycle

\* What a planning call is paid goes to its step's sum, and to everything.
LEMMA PaidPlanning ==
    ASSUME GoalInv, goalAt = "planning", NEW bill \in Bill, PayPlanning(bill)
    PROVE  /\ spend' \in [all : Bill, plan : Bill, run : Bill]
           /\ spend'.plan = AddBill(AddBill(stepBill, bill), InterviewBill)
           /\ spend'.all = AddBill(loopBill, spend'.plan)
           /\ AddBill(stepBill, bill) \in Bill
<1> USE GoalFields DEF GoalInv
<1>1. /\ spend' \in [all : Bill, plan : Bill, run : Bill]
      /\ spend'.plan = AddBill(spend.plan, bill) /\ spend'.all = AddBill(spend.all, bill)
  <2>1. spend \in [all : Bill, plan : Bill, run : Bill]
    BY DEF GoalTypeOK
  <2>2. AddBill(spend.plan, bill) \in Bill /\ AddBill(spend.all, bill) \in Bill
    BY BillSum
  <2> QED BY <2>1, <2>2 DEF PayPlanning
<1>2. AddBill(AddBill(stepBill, InterviewBill), bill) = AddBill(AddBill(stepBill, bill), InterviewBill)
  <2>1. AddBill(AddBill(stepBill, InterviewBill), bill) = AddBill(stepBill, AddBill(InterviewBill, bill))
    BY BillOrder
  <2>2. AddBill(InterviewBill, bill) = AddBill(bill, InterviewBill)
    BY BillOrder
  <2>3. AddBill(AddBill(stepBill, bill), InterviewBill) = AddBill(stepBill, AddBill(bill, InterviewBill))
    BY BillOrder
  <2> QED BY <2>1, <2>2, <2>3
<1>3. AddBill(AddBill(loopBill, spend.plan), bill) = AddBill(loopBill, AddBill(spend.plan, bill))
  BY BillOrder
<1> QED BY <1>1, <1>2, <1>3, Planning, BillSum

\* A planner's reply is paid for, whether it is accepted, corrected or rejected.
LEMMA PlanReplyKeeps ==
    ASSUME GoalInv, NEW reply \in {"valid", "repairable", "unusable"}, NEW bill \in Charge, PlanReply(reply, bill)
    PROVE  GoalInv'
<1> USE GoalAssumption, FreeBill, GoalFields
<1> DEFINE step == AddBill(stepBill, bill)
<1>1. /\ goalAt = "planning" /\ bill \in Bill /\ PayPlanning(bill)
      /\ UNCHANGED <<ceiling, interview, cycle, evidence, loopBill, reports, cancelled>>
  BY DEF PlanReply
<1>2. /\ spend' \in [all : Bill, plan : Bill, run : Bill] /\ step \in Bill
      /\ spend'.plan = AddBill(step, InterviewBill)
      /\ spend'.all = AddBill(loopBill, spend'.plan)
  BY <1>1, PaidPlanning
<1>3. CASE Reject("refused", step) /\ UNCHANGED planBill
  BY <1>1, <1>2, <1>3, Rejected
<1>4. CASE /\ goalAt' = "committed" /\ planBill' = AddBill(step, InterviewBill) /\ PlanningOver
           /\ UNCHANGED <<ending, legState>>
  <2>1. /\ correction' = 0 /\ stepBill' = Free /\ spawns' = 0 /\ UNCHANGED <<cycleLeg, price>>
        /\ planBill' \in Bill /\ planBill' = spend'.plan
    BY <1>2, <1>4, BillSum DEF PlanningOver, legState, GoalInv
  <2>2. GoalTypeOK'
    BY <1>1, <1>2, <1>4, <2>1, Planning DEF GoalInv, GoalTypeOK
  <2>3. AskingInv' /\ ReportsInv'
    BY <1>1, <1>4, <2>1, Planning DEF GoalInv, AskingInv, ReportsInv
  <2>4. OtherLegs' /\ CycleLegInv'
    BY <1>1, <1>4, <2>1, Planning, OthersKept DEF GoalInv, CycleLegInv
  <2>5. MoneyInv' /\ PriceInv' /\ CeilingInv'
    BY <1>1, <1>2, <1>4, <2>1, Planning DEF MoneyInv, PriceInv, CeilingInv
  <2>6. EndingInv'
    BY <1>1, <1>4, Planning DEF EndingInv, Stop
  <2> QED BY <2>2, <2>3, <2>4, <2>5, <2>6 DEF GoalInv
<1>5. CASE /\ correction < MaxRepairs /\ correction' = correction + 1 /\ stepBill' = step /\ spawns' = 0
           /\ UNCHANGED <<goalAt, planBill, ending, legState>>
  <2>1. UNCHANGED <<cycleLeg, price>> /\ correction \in Nat /\ correction' # 0
    BY <1>5 DEF legState, GoalInv, GoalTypeOK
  <2>2. GoalTypeOK'
    BY <1>1, <1>2, <1>5, <2>1 DEF GoalInv, GoalTypeOK
  <2>3. AskingInv' /\ ReportsInv'
    BY <1>1, <1>5, <2>1 DEF GoalInv, AskingInv, ReportsInv
  <2>4. OtherLegs' /\ CycleLegInv'
    BY <1>1, <1>5, <2>1, Planning, OthersKept DEF GoalInv, CycleLegInv
  <2>5. InterviewBill' = InterviewBill
    BY <1>1 DEF InterviewBill
  <2>6. MoneyInv' /\ PriceInv' /\ CeilingInv'
    BY <1>1, <1>2, <1>5, <2>1, <2>5, Planning DEF MoneyInv, PriceInv, CeilingInv
  <2>7. EndingInv'
    BY <1>1, <1>5, Planning DEF EndingInv, Stop
  <2> QED BY <2>2, <2>3, <2>4, <2>6, <2>7 DEF GoalInv
<1> QED BY <1>3, <1>4, <1>5 DEF PlanReply

\* So is a call that said nothing.
LEMMA PlanSilentKeeps ==
    ASSUME GoalInv, PlanSilent
    PROVE  GoalInv'
<1> USE GoalFields, FreeBill
<1>1. /\ goalAt = "planning" /\ PayPlanning(Unreported) /\ Reject("silent", stepBill)
      /\ UNCHANGED <<ceiling, interview, cycle, planBill, evidence, loopBill, reports, cancelled>>
  BY DEF PlanSilent
<1>2. /\ stepBill \in Bill /\ InterviewBill \in Bill /\ loopBill \in Bill
      /\ spend' \in [all : Bill, plan : Bill, run : Bill]
      /\ spend'.plan = AddBill(AddBill(stepBill, Unreported), InterviewBill)
      /\ spend'.all = AddBill(loopBill, spend'.plan)
  BY <1>1, PaidPlanning DEF GoalInv
<1>3. spend'.all.usd = loopBill.usd + stepBill.usd + InterviewBill.usd
  <2>1. AddBill(stepBill, Unreported) \in Bill /\ AddBill(stepBill, Unreported).usd = stepBill.usd + 0
    BY <1>2, BillSum
  <2>2. spend'.plan \in Bill /\ spend'.plan.usd = stepBill.usd + 0 + InterviewBill.usd
    BY <1>2, <2>1, BillSum
  <2>3. stepBill.usd \in Nat /\ InterviewBill.usd \in Nat /\ loopBill.usd \in Nat
    BY <1>2 DEF Bill
  <2> QED BY <1>2, <2>2, <2>3, BillSum
<1> QED BY <1>1, <1>2, <1>3, Rejected

\* A loop that ends outside its planning, with an error that is not one of the
\* accounts', leaves the accounts as they are.
LEMMA Broken ==
    ASSUME GoalInv, goalAt \in {"asking", "assessing"}, NEW how \in {"abandoned", "broken"}, NEW bill \in Bill,
           FailWith(how, bill), spawns' = 0,
           spend' \in [all : Bill, plan : Bill, run : Bill], spend'.plan = spend.plan,
           UNCHANGED <<ceiling, interview, cycle, correction, stepBill, planBill, evidence, loopBill, reports,
                       cycleLeg, price, cancelled>>
    PROVE  GoalInv'
<1> USE GoalAssumption, FreeBill, GoalFields
<1>1. /\ goalAt' = "ended" /\ ending' = [how |-> how, bill |-> bill]
      /\ goalAt = "asking" => cycle = 0
      /\ goalAt = "assessing" => cycle \in Cycle /\ price = spend.plan /\ cycleLeg[cycle] \in {"passed", "failed"}
      /\ stepBill = Free
  BY DEF GoalInv, AskingInv, ReportsInv, PriceInv, CycleLegInv, FailWith, Cycle
<1>2. GoalTypeOK'
  BY <1>1 DEF GoalInv, GoalTypeOK, Failure
<1>3. AskingInv' /\ ReportsInv'
  BY <1>1 DEF GoalInv, AskingInv, ReportsInv
<1>4. OtherLegs' /\ CycleLegInv'
  BY <1>1, OthersKept DEF GoalInv, CycleLegInv
<1>5. MoneyInv' /\ PriceInv' /\ CeilingInv' /\ EndingInv'
  BY <1>1 DEF MoneyInv, PriceInv, CeilingInv, EndingInv, Stop
<1> QED BY <1>2, <1>3, <1>4, <1>5 DEF GoalInv

\* A call that never started costs nothing.
LEMMA SpawnFailsKeeps ==
    ASSUME GoalInv, SpawnFails
    PROVE  GoalInv'
<1> USE GoalAssumption, FreeBill, GoalFields
<1>1. UNCHANGED <<ceiling, interview, cycle, planBill, evidence, loopBill, reports, cancelled, spend>>
  BY DEF SpawnFails
<1>2. spend \in [all : Bill, plan : Bill, run : Bill]
  BY DEF GoalInv, GoalTypeOK
<1>3. CASE /\ spawns + 1 < SpawnAttempts /\ spawns' = spawns + 1
           /\ UNCHANGED <<goalAt, ending, correction, stepBill, legState>>
  <2>1. UNCHANGED <<cycleLeg, price>>
    BY <1>3 DEF legState
  <2>2. GoalTypeOK'
    BY <1>1, <1>3, <2>1 DEF GoalInv, GoalTypeOK
  <2>3. AskingInv' /\ ReportsInv'
    BY <1>1, <1>3 DEF GoalInv, AskingInv, ReportsInv
  <2>4. OtherLegs' /\ CycleLegInv'
    BY <1>1, <1>3, <2>1, OthersKept DEF GoalInv, CycleLegInv
  <2>5. MoneyInv' /\ PriceInv' /\ CeilingInv'
    BY <1>1, <1>3, <2>1 DEF GoalInv, MoneyInv, PriceInv, CeilingInv, InterviewBill
  <2>6. EndingInv'
    BY <1>1, <1>3, <2>1 DEF GoalInv, EndingInv, SummaryTotal
  <2> QED BY <2>2, <2>3, <2>4, <2>5, <2>6 DEF GoalInv
<1>4. CASE goalAt = "planning" /\ Reject("silent", stepBill)
  <2>1. stepBill \in Bill /\ InterviewBill \in Bill /\ loopBill \in Bill
    BY DEF GoalInv
  <2>2. spend.all.usd = loopBill.usd + stepBill.usd + InterviewBill.usd
    <3>1. spend.plan \in Bill /\ spend.plan.usd = stepBill.usd + InterviewBill.usd
      BY <1>4, <2>1, Planning, BillSum
    <3>2. stepBill.usd \in Nat /\ InterviewBill.usd \in Nat /\ loopBill.usd \in Nat
      BY <2>1 DEF Bill
    <3> QED BY <1>4, <2>1, <3>1, <3>2, Planning, BillSum
  <2> QED BY <1>1, <1>2, <1>4, <2>1, <2>2, Rejected
<1>5. CASE /\ goalAt = "asking" /\ FailWith("abandoned", interview.bill) /\ spawns' = 0
           /\ UNCHANGED <<correction, stepBill, legState>>
  BY <1>1, <1>2, <1>5, Broken DEF legState, GoalInv
<1>6. CASE /\ goalAt = "assessing" /\ FailWith("broken", Free) /\ spawns' = 0
           /\ UNCHANGED <<correction, stepBill, legState>>
  BY <1>1, <1>2, <1>6, Broken DEF legState
<1> QED BY <1>3, <1>4, <1>5, <1>6 DEF SpawnFails

\* What is known at an accepted plan's run.
LEMMA Committed ==
    ASSUME GoalInv, goalAt = "committed"
    PROVE  /\ cycle \in Cycle /\ cycle > 0 /\ reports.number = cycle - 1 /\ loopBill = reports.rows
           /\ ending.how = "none" /\ cycleLeg[cycle] \in {"planning", "running"} /\ stepBill = Free
           /\ spend.plan = planBill /\ spend.all = AddBill(loopBill, planBill)
           /\ cycleLeg[cycle] = "running" => price = planBill
           /\ cycle > 1 /\ ceiling > 0 => ~loopBill.unknown /\ loopBill.usd < ceiling
BY GoalFields DEF GoalInv, GoalTypeOK, ReportsInv, CycleLegInv, MoneyInv, PriceInv, CeilingInv, Cycle

\* And at its judgment.
LEMMA Assessing ==
    ASSUME GoalInv, goalAt = "assessing"
    PROVE  /\ cycle \in Cycle /\ cycle > 0 /\ reports.number = cycle - 1 /\ loopBill = reports.rows
           /\ ending.how = "none" /\ stepBill = Free /\ price = spend.plan
           /\ cycleLeg[cycle] = (IF evidence.run = "passed" THEN "passed" ELSE "failed") /\ evidence.run # "none"
           /\ spend.all = AddBill(loopBill, evidence.cost)
           /\ evidence.cost = AddBill(spend.plan, spend.run)
BY GoalFields DEF GoalInv, GoalTypeOK, ReportsInv, CycleLegInv, MoneyInv, PriceInv, CeilingInv, Cycle

\* A run that cannot be set up ends its cycle.
LEMMA SetupFailsKeeps ==
    ASSUME GoalInv, SetupFails
    PROVE  GoalInv'
<1> USE GoalAssumption, FreeBill, GoalFields
<1>1. /\ goalAt = "committed" /\ goalAt' = "ended" /\ ending'.bill = Free
      /\ ending' \in [how : {"interrupted", "broken"}, bill : Bill]
      /\ Close("failed", planBill) /\ planBill \in Bill
      /\ UNCHANGED <<ceiling, interview, cycle, correction, stepBill, planBill, evidence, loopBill, reports, spawns, cancelled, spend>>
  BY DEF SetupFails, FailWith, loopState, GoalInv
<1>2. /\ cycleLeg' \in [Cycle -> LegPhases] /\ price' \in Bill
      /\ \A c \in Cycle \ {cycle} : cycleLeg'[c] = cycleLeg[c]
      /\ cycleLeg'[cycle] = "failed" /\ price' = planBill
  BY <1>1, Closed, Committed DEF GoalInv
<1>3. GoalTypeOK'
  BY <1>1, <1>2 DEF GoalInv, GoalTypeOK, Failure, LegPhases
<1>4. AskingInv' /\ ReportsInv'
  BY <1>1 DEF GoalInv, AskingInv, ReportsInv
<1>5. OtherLegs' /\ CycleLegInv'
  BY <1>1, <1>2, OthersKept DEF GoalInv, CycleLegInv
<1>6. MoneyInv' /\ PriceInv' /\ CeilingInv' /\ EndingInv'
  BY <1>1, <1>2, Committed DEF MoneyInv, PriceInv, CeilingInv, EndingInv, Stop
<1> QED BY <1>3, <1>4, <1>5, <1>6 DEF GoalInv

\* A run starts in a leg its cycle opened.
LEMMA StartRunKeeps ==
    ASSUME GoalInv, StartRun
    PROVE  GoalInv'
<1> USE GoalAssumption, FreeBill, GoalFields
<1>1. /\ goalAt = "committed" /\ price' = planBill
      /\ UNCHANGED <<ceiling, interview, cycle, correction, stepBill, planBill, evidence, loopBill, reports, spawns,
                     goalAt, ending, cancelled, spend>>
  BY DEF StartRun, loopState
<1>2. /\ cycleLeg' \in [Cycle -> LegPhases] /\ planBill \in Bill
      /\ \A c \in Cycle \ {cycle} : cycleLeg'[c] = cycleLeg[c]
      /\ cycleLeg'[cycle] = "running"
  <2>1. cycleLeg \in [Cycle -> LegPhases] /\ "running" \in LegPhases
    BY DEF GoalInv, GoalTypeOK, LegPhases
  <2> QED BY <1>1, <2>1, Committed DEF StartRun, GoalInv
<1>3. GoalTypeOK'
  BY <1>1, <1>2 DEF GoalInv, GoalTypeOK, LegPhases
<1>4. AskingInv' /\ ReportsInv'
  BY <1>1 DEF GoalInv, AskingInv, ReportsInv
<1>5. OtherLegs' /\ CycleLegInv'
  BY <1>1, <1>2, OthersKept, Committed DEF GoalInv, CycleLegInv
<1>6. MoneyInv' /\ PriceInv' /\ CeilingInv' /\ EndingInv'
  BY <1>1, <1>2, Committed DEF MoneyInv, PriceInv, CeilingInv, EndingInv, Stop
<1> QED BY <1>3, <1>4, <1>5, <1>6 DEF GoalInv

\* What a run cost, or that it is unknown, is evidence.
LEMMA RunEndsKeeps ==
    ASSUME GoalInv, NEW how \in {"passed", "failed", "forbidden", "paused"}, NEW nodes \in Charge,
           NEW readable \in BOOLEAN, RunEnds(how, nodes, readable)
    PROVE  GoalInv'
<1> USE GoalAssumption, FreeBill, GoalFields
<1> DEFINE closing == IF how \in {"passed", "paused"} THEN how ELSE "failed"
<1>1. /\ goalAt = "committed" /\ cycleLeg[cycle] = "running" /\ nodes \in Bill /\ planBill' = Free
      /\ Close(closing, price) /\ price \in Bill
      /\ UNCHANGED <<ceiling, interview, cycle, correction, spawns, stepBill, loopBill, reports, cancelled>>
  BY DEF RunEnds, GoalInv
<1>2. /\ cycleLeg' \in [Cycle -> LegPhases] /\ price' \in Bill
      /\ \A c \in Cycle \ {cycle} : cycleLeg'[c] = cycleLeg[c]
      /\ cycleLeg'[cycle] = closing /\ price' = price
  BY <1>1, Closed, Committed DEF GoalInv
<1>3. /\ spend'.all = AddBill(spend.all, nodes) /\ spend'.run = nodes /\ spend'.plan = spend.plan
      /\ spend' \in [all : Bill, plan : Bill, run : Bill]
  <2>1. AddBill(spend.all, nodes) \in Bill /\ spend \in [all : Bill, plan : Bill, run : Bill]
    BY <1>1, BillSum DEF GoalInv, GoalTypeOK
  <2> QED BY <1>1, <2>1 DEF RunEnds
<1>4. OtherLegs'
  BY <1>1, <1>2, OthersKept DEF GoalInv
<1>5. price' = spend'.plan
  BY <1>1, <1>2, <1>3, Committed
<1>6. CASE /\ goalAt' = "ended" /\ ending'.bill = Free /\ UNCHANGED evidence
           /\ ending' \in [how : {"interrupted", "paused", "broken"}, bill : Bill]
  <2>1. GoalTypeOK'
    BY <1>1, <1>2, <1>3, <1>6 DEF GoalInv, GoalTypeOK, Failure, LegPhases
  <2>2. AskingInv' /\ ReportsInv'
    BY <1>1, <1>6 DEF GoalInv, AskingInv, ReportsInv
  <2>3. CycleLegInv'
    BY <1>1, <1>2, <1>6 DEF CycleLegInv
  <2>4. MoneyInv' /\ PriceInv' /\ CeilingInv' /\ EndingInv'
    BY <1>5, <1>6 DEF MoneyInv, PriceInv, CeilingInv, EndingInv, Stop
  <2> QED BY <1>4, <2>1, <2>2, <2>3, <2>4 DEF GoalInv
<1>7. CASE /\ how # "paused" /\ goalAt' = "assessing" /\ UNCHANGED ending
           /\ evidence' = [run |-> how, cost |-> AddBill(planBill, nodes)]
  <2>1. AddBill(planBill, nodes) \in Bill
    BY <1>1, BillSum DEF GoalInv
  <2>2. GoalTypeOK'
    BY <1>1, <1>2, <1>3, <1>7, <2>1 DEF GoalInv, GoalTypeOK, LegPhases
  <2>3. AskingInv' /\ ReportsInv'
    BY <1>1, <1>7 DEF GoalInv, AskingInv, ReportsInv
  <2>4. CycleLegInv'
    BY <1>1, <1>2, <1>7, Committed DEF CycleLegInv
  <2>5. spend'.all = AddBill(loopBill, evidence'.cost)
    <3>1. spend.all = AddBill(loopBill, planBill) /\ loopBill \in Bill /\ planBill \in Bill
      BY <1>1, Committed DEF GoalInv
    <3>2. AddBill(AddBill(loopBill, planBill), nodes) = AddBill(loopBill, AddBill(planBill, nodes))
      BY <1>1, <3>1, BillOrder
    <3> QED BY <1>3, <1>7, <3>1, <3>2
  <2>6. MoneyInv' /\ PriceInv' /\ CeilingInv' /\ EndingInv'
    BY <1>1, <1>3, <1>5, <1>7, <2>5, Committed DEF MoneyInv, PriceInv, CeilingInv, EndingInv, Stop
  <2> QED BY <1>4, <2>2, <2>3, <2>4, <2>6 DEF GoalInv
<1> QED BY <1>6, <1>7 DEF RunEnds, FailWith

\* A cycle without a verdict is closed and paid for.
LEMMA NoVerdictKeeps ==
    ASSUME GoalInv, NEW bill \in Charge \cup {Free}, NoVerdict(bill)
    PROVE  GoalInv'
<1> USE GoalAssumption, FreeBill, GoalFields
<1>1. /\ goalAt = "assessing" /\ goalAt' = "ended"
      /\ UNCHANGED <<ceiling, interview, cycle, correction, stepBill, planBill, evidence, loopBill, reports, spawns,
                     cycleLeg, price, cancelled>>
  BY DEF NoVerdict, loopState, legState, FailWith
<1>2. PICK paid \in Bill :
        /\ spend' = [spend EXCEPT !.all = AddBill(@, paid)]
        /\ \/ ending' = [how |-> "garbage", bill |-> paid]
           \/ ending' = [how |-> "broken", bill |-> Free]
  BY DEF NoVerdict, Pay, FailWith
<1>3. /\ spend' \in [all : Bill, plan : Bill, run : Bill] /\ spend'.plan = spend.plan /\ spend'.run = spend.run
      /\ spend'.all = AddBill(spend.all, paid)
  <2>1. AddBill(spend.all, paid) \in Bill /\ spend \in [all : Bill, plan : Bill, run : Bill]
    BY <1>2, BillSum DEF GoalInv, GoalTypeOK
  <2> QED BY <1>2, <2>1
<1>4. GoalTypeOK'
  BY <1>1, <1>2, <1>3 DEF GoalInv, GoalTypeOK, Failure
<1>5. AskingInv' /\ ReportsInv'
  BY <1>1 DEF GoalInv, AskingInv, ReportsInv
<1>6. OtherLegs' /\ CycleLegInv'
  BY <1>1, <1>2, Assessing, OthersKept DEF GoalInv, CycleLegInv
<1>7. MoneyInv' /\ PriceInv' /\ CeilingInv'
  BY <1>1 DEF MoneyInv, PriceInv, CeilingInv
<1>8. EndingInv'
  <2>1. ending'.how = "garbage" =>
          SummaryTotal'.usd + spend'.run.usd + spend'.plan.usd
              = spend'.all.usd + (IF reports.number = 0 THEN interview.bill.usd ELSE 0)
    <3> SUFFICES ASSUME ending' = [how |-> "garbage", bill |-> paid]
                 PROVE  SummaryTotal'.usd + spend'.run.usd + spend'.plan.usd
                            = spend'.all.usd + (IF reports.number = 0 THEN interview.bill.usd ELSE 0)
      BY <1>2
    <3> DEFINE asked == IF reports.number = 0 THEN interview.bill ELSE Free
    <3>1. /\ asked \in Bill /\ loopBill \in Bill /\ evidence.cost \in Bill /\ spend.all \in Bill
          /\ spend.plan \in Bill /\ spend.run \in Bill /\ reports.rows = loopBill
          /\ asked.usd = IF reports.number = 0 THEN interview.bill.usd ELSE 0
      BY <1>1, Assessing DEF GoalInv
    <3>2. SummaryTotal' = AddBill(loopBill, AddBill(asked, paid))
      BY <1>1, <3>1 DEF SummaryTotal
    <3>3. AddBill(asked, paid) \in Bill /\ AddBill(asked, paid).usd = asked.usd + paid.usd
      BY <3>1, BillSum
    <3>4. SummaryTotal'.usd = loopBill.usd + (asked.usd + paid.usd)
      BY <3>1, <3>2, <3>3, BillSum
    <3>5. evidence.cost.usd = spend.plan.usd + spend.run.usd
      BY <1>1, <3>1, Assessing, BillSum
    <3>6. spend.all.usd = loopBill.usd + evidence.cost.usd /\ spend'.all.usd = spend.all.usd + paid.usd
      BY <1>1, <1>3, <3>1, Assessing, BillSum
    <3>7. /\ asked.usd \in Nat /\ paid.usd \in Nat /\ loopBill.usd \in Nat
          /\ spend.plan.usd \in Nat /\ spend.run.usd \in Nat
      BY <3>1 DEF Bill
    <3> HIDE DEF asked
    <3> QED BY <1>3, <3>1, <3>4, <3>5, <3>6, <3>7
  <2>2. price' = spend'.plan
    BY <1>1, <1>3, Assessing
  <2> QED BY <1>1, <1>2, <2>1, <2>2 DEF EndingInv, Stop
<1> QED BY <1>4, <1>5, <1>6, <1>7, <1>8 DEF GoalInv

\* So is one with a verdict.
LEMMA VerdictKeeps ==
    ASSUME GoalInv, NEW met \in BOOLEAN, NEW unrunnable \in BOOLEAN, NEW bill \in Charge,
           Verdict(met, unrunnable, bill)
    PROVE  GoalInv'
<1> USE GoalAssumption, FreeBill, GoalFields
<1>1. /\ goalAt = "assessing" /\ bill \in Bill /\ spawns' = 0
      /\ reports'.number = reports.number + 1 /\ reports'.last = evidence.run
      /\ evidence' = [run |-> "none", cost |-> Free]
      /\ UNCHANGED <<ceiling, interview, cycle, correction, stepBill, planBill, cycleLeg, price, cancelled>>
  BY DEF Verdict, legState, NoEvidence
<1>2. \/ /\ goalAt' = "ended" /\ ending'.bill = Free
         /\ ending' \in [how : {"goal_met", "unrunnable_done_item"}, bill : Bill]
      \/ goalAt' = "boundary" /\ ending' = ending
  BY DEF Verdict, StopLoop
<1>3. /\ spend'.all = AddBill(spend.all, bill) /\ spend'.plan = spend.plan
      /\ spend' \in [all : Bill, plan : Bill, run : Bill]
  <2>1. AddBill(spend.all, bill) \in Bill /\ spend \in [all : Bill, plan : Bill, run : Bill]
    BY <1>1, BillSum DEF GoalInv, GoalTypeOK
  <2> QED BY <2>1 DEF Verdict, Pay
<1>4. loopBill' = spend'.all /\ reports'.rows = spend'.all
  <2>1. loopBill \in Bill /\ evidence.cost \in Bill
    BY DEF GoalInv
  <2>2. AddBill(AddBill(loopBill, evidence.cost), bill) = AddBill(loopBill, AddBill(evidence.cost, bill))
    BY <1>1, <2>1, BillOrder
  <2> QED BY <1>1, <1>3, <2>2, Assessing DEF Verdict, SpentAfter
<1>5. reports'.number = cycle /\ cycle \in Cycle /\ cycle > 0 /\ cycle \in Nat
  BY <1>1, Assessing DEF GoalInv
<1>6. GoalTypeOK'
  <2>1. reports' \in [rows : Bill, number : {cycle}, last : {"none", "passed", "failed", "forbidden"}]
    <3>1. reports' = [rows |-> reports'.rows, number |-> reports'.number, last |-> reports'.last]
      BY DEF Verdict
    <3>2. evidence.run \in {"none", "passed", "failed", "forbidden"} /\ spend'.all \in Bill
      BY <1>3 DEF GoalInv, GoalTypeOK
    <3> QED BY <1>1, <1>4, <1>5, <3>1, <3>2
  <2>2. reports' \in [rows : Bill, number : {n \in {cycle - 1, cycle} : n >= 0},
                      last : {"none", "passed", "failed", "forbidden"}]
    BY <1>5, <2>1
  <2>3. spend'.all \in Bill
    BY <1>3
  <2> QED BY <1>1, <1>2, <1>3, <1>4, <2>2, <2>3, Assessing DEF GoalInv, GoalTypeOK, Stop
<1>7. AskingInv' /\ ReportsInv'
  BY <1>1, <1>2, <1>4, <1>5, Assessing DEF GoalInv, AskingInv, ReportsInv
<1>8. OtherLegs' /\ CycleLegInv'
  BY <1>1, <1>2, <1>5, Assessing, OthersKept DEF GoalInv, CycleLegInv
<1>9. MoneyInv' /\ PriceInv' /\ CeilingInv'
  BY <1>1, <1>2, <1>3, <1>4, <1>5, Assessing DEF MoneyInv, PriceInv, CeilingInv
<1>10. EndingInv'
  BY <1>1, <1>2, <1>3, <1>4, <1>5, Assessing DEF EndingInv, Stop
<1> QED BY <1>6, <1>7, <1>8, <1>9, <1>10 DEF GoalInv

\* A step that changes neither the place, the money nor the legs.
LEMMA Idle ==
    ASSUME GoalInv, cancelled' \in BOOLEAN,
           UNCHANGED <<ceiling, goalAt, interview, cycle, correction, stepBill, planBill, evidence, loopBill, reports,
                       spawns, ending, cycleLeg, price, spend>>
    PROVE  GoalInv'
<1>1. GoalTypeOK'
  BY DEF GoalInv, GoalTypeOK
<1>2. AskingInv' /\ ReportsInv' /\ OtherLegs' /\ CycleLegInv'
  BY DEF GoalInv, AskingInv, ReportsInv, OtherLegs, CycleLegInv
<1>3. MoneyInv' /\ PriceInv' /\ CeilingInv' /\ EndingInv'
  BY DEF GoalInv, MoneyInv, PriceInv, CeilingInv, EndingInv, InterviewBill, SummaryTotal
<1> QED BY <1>1, <1>2, <1>3 DEF GoalInv

\* Each step keeps the invariant.
LEMMA GoalStep == GoalInv /\ [GoalNext]_goalVars => GoalInv'
<1> SUFFICES ASSUME GoalInv, [GoalNext]_goalVars PROVE GoalInv'
  OBVIOUS
<1>1. CASE UNCHANGED goalVars
  BY <1>1, Idle DEF goalVars, GoalInv, GoalTypeOK
<1>2. CASE UserInterrupts
  BY <1>2, Idle DEF UserInterrupts, loopState, legState
<1>3. CASE \E bill \in Charge, reply \in {"question", "repeat", "enough", "malformed"} : Ask(reply, bill)
  BY <1>3, AskKeeps
<1>4. CASE \E bill \in Charge, reply \in {"valid", "repairable", "unusable"} : PlanReply(reply, bill)
  BY <1>4, PlanReplyKeeps
<1>5. CASE \E bill \in Charge, how \in {"passed", "failed", "forbidden", "paused"}, readable \in BOOLEAN :
              RunEnds(how, bill, readable)
  BY <1>5, RunEndsKeeps
<1>6. CASE \E bill \in Charge, met, unrunnable \in BOOLEAN : Verdict(met, unrunnable, bill)
  BY <1>6, VerdictKeeps
<1>7. CASE \E bill \in Charge \cup {Free} : AskFails(bill) \/ NoVerdict(bill)
  BY <1>7, AskFailsKeeps, NoVerdictKeeps
<1>8. CASE \E line \in {"answer", "skip", "done", "eof"} : Answer(line)
  BY <1>8, AnswerKeeps
<1>9. CASE Boundary \/ BeginCycle \/ PlanSilent \/ SpawnFails \/ SetupFails \/ StartRun
  BY <1>9, BoundaryKeeps, BeginCycleKeeps, PlanSilentKeeps, SpawnFailsKeeps, SetupFailsKeeps, StartRunKeeps
<1> QED BY <1>1, <1>2, <1>3, <1>4, <1>5, <1>6, <1>7, <1>8, <1>9 DEF GoalNext

\* Every step of the loop keeps the invariant.
LEMMA GoalInvKept == GoalSpec => []GoalInv
BY GoalInitHolds, GoalStep, PTL DEF GoalSpec

----------------------------------------------------------------------------
(* What the loop owes whoever pays for it. *)

\* However many cycles, calls and corrections, and whatever they cost: when a later
\* cycle's planner is first called, everything paid since the launch is known and
\* below the ceiling (`RunGoal`'s check at the top of its loop).
THEOREM CeilingHolds == GoalSpec => []BudgetHolds
<1>1. GoalInv => BudgetHolds
  <2> SUFFICES ASSUME GoalInv, goalAt = "planning", correction = 0, cycle > 1, ceiling > 0
               PROVE  ~spend.all.unknown /\ spend.all.usd < ceiling
    BY DEF BudgetHolds
  <2> USE GoalFields, FreeBill DEF GoalInv
  <2>1. stepBill = Free /\ cycle \in Nat /\ cycle # 1
    BY DEF ReportsInv
  <2>2. InterviewBill = Free
    BY <2>1 DEF InterviewBill
  <2>3. spend.all = loopBill
    BY <2>1, <2>2, Planning
  <2> QED BY <2>3, Planning
<1> QED BY <1>1, GoalInvKept, PTL

\* No money leaves the accounts: a closed leg was priced at all its planning cost,
\* unless the planner never answered, and the total the summary prints is what was
\* paid if the loop stopped of itself or a plan was refused.
THEOREM MoneyAccounted == GoalSpec => []AccountsComplete
<1>1. GoalInv => AccountsComplete
  <2> SUFFICES ASSUME GoalInv PROVE AccountsComplete
    OBVIOUS
  <2> USE GoalFields, FreeBill DEF GoalInv
  <2>1. goalAt # "ended" /\ cycle > 0 /\ cycleLeg[cycle] \in {"passed", "failed", "paused"} => price = spend.plan
    BY DEF GoalTypeOK, AskingInv, CycleLegInv, PriceInv
  <2>2. ending.how \in Stop => SummaryTotal = spend.all
    <3> SUFFICES ASSUME ending.how \in Stop PROVE SummaryTotal = spend.all
      OBVIOUS
    <3>1. reports.number # 0 /\ reports.rows = spend.all /\ ending.bill = Free
      BY DEF EndingInv
    <3> QED BY <3>1 DEF SummaryTotal
  <2> QED BY <2>1, <2>2 DEF EndingInv, AccountsComplete
<1> QED BY <1>1, GoalInvKept, PTL

\* No leg stays open past its cycle, no planner is called without one, and exit 0
\* means that the last one closed as passed.
THEOREM LegsOpenAndClose == GoalSpec => []LegsBracketed
<1>1. GoalInv => LegsBracketed
  <2> SUFFICES ASSUME GoalInv PROVE LegsBracketed
    OBVIOUS
  <2> USE GoalFields DEF GoalInv
  <2>1. ASSUME NEW c \in Cycle, cycleLeg[c] \in {"planning", "running"}
        PROVE  c = cycle /\ goalAt \in {"planning", "committed"}
    <3>1. c = cycle
      BY <2>1, GoalAssumption DEF OtherLegs, Cycle
    <3>2. cycle > 0
      BY <3>1 DEF Cycle
    <3> QED BY <2>1, <3>1, <3>2 DEF GoalTypeOK, AskingInv, CycleLegInv
  <2>2. goalAt = "planning" => cycleLeg[cycle] = "planning"
    BY DEF CycleLegInv
  <2>3. goalAt = "ended" /\ ExitCode = "ok" => cycleLeg[cycle] = "passed"
    BY DEF ExitCode, CycleLegInv
  <2> QED BY <2>1, <2>2, <2>3 DEF LegsBracketed
<1> QED BY <1>1, GoalInvKept, PTL
----------------------------------------------------------------------------
(* An auto run: from the reply to what its legs spawn. *)

\* What the checks of a node become.
PairedCheck(check) == IF "result_matches" \in check THEN check \cup {"exit_zero"} ELSE check
\* The reply that is being made a plan was accepted.
ReplyAccepted == plan.at \in {"accepted"} \cup Underway => answer \in Answers /\ ~ReplyRefused(answer)
\* Before it is spliced a plan holds nothing but the pin of the launch.
NotBegun == plan.at \in {"asking", "accepted"} =>
    /\ plan = [at |-> plan.at, calls |-> plan.calls, graph |-> <<>>, spec |-> <<>>, policy |-> <<>>,
               mapped |-> {}, checked |-> Unpinned, pin |-> plan.pin]
    /\ plan.pin = [NoPins EXCEPT !["script"] = IF wish.verify THEN 0 ELSE Unpinned]
    /\ plan.at = "asking" => plan.calls <= MaxPlanRepairs
\* What no step after the splice changes in a node.
FromReply(node, n) == node.needs = answer.nodes[n].needs /\ node.tools = PlannedTools(n)
ScriptPinned == plan.at \in Underway => plan.pin["script"] = IF wish.verify THEN 0 ELSE Unpinned
Drafted == plan.at \in {"spliced", "scanned"} =>
    /\ plan.spec = plan.graph /\ plan.pin["agent"] = Unpinned /\ plan.pin["skill"] = Unpinned
    /\ \A n \in PlannedIds :
        /\ FromReply(plan.graph[n], n) /\ plan.graph[n].check = answer.nodes[n].check
        /\ ~plan.graph[n].agent /\ ~plan.graph[n].notice /\ ~plan.graph[n].verify
        /\ plan.policy[n] = ToolPolicyFor(PlannedTools(n))
MappedFits == plan.at \in {"scanned", "ready", "bound"} =>
    plan.checked \in Contents /\ \A n \in plan.mapped : AgentTools[plan.checked] \subseteq PlannedTools(n)
\* A finished plan: what is saved of a node, and what runs.
SpecOf(n) ==
    /\ FromReply(plan.spec[n], n) /\ plan.spec[n].check = PairedCheck(answer.nodes[n].check)
    /\ ~plan.spec[n].notice /\ plan.spec[n].agent = (n \in plan.mapped)
    /\ plan.spec[n].verify = (wish.verify /\ n \in Sinks(answer.nodes))
GraphOf(n) ==
    /\ FromReply(plan.graph[n], n) /\ plan.graph[n].check = plan.spec[n].check
    /\ plan.graph[n].agent = plan.spec[n].agent /\ plan.graph[n].verify = plan.spec[n].verify
    /\ plan.graph[n].notice => n \notin plan.mapped /\ plan.pin["skill"] # Unpinned
PolicyOf(n) ==
    /\ plan.policy[n].tools = PlannedTools(n) \cup (IF plan.graph[n].notice THEN {"Skill"} ELSE {})
    /\ plan.policy[n].isolated = ~wish.loaded
Finished == plan.at \in {"ready", "bound"} =>
    /\ \A n \in PlannedIds : SpecOf(n) /\ GraphOf(n) /\ PolicyOf(n)
    /\ plan.mapped # {} => plan.pin["agent"] # Unpinned
\* What a leg runs, of the plan or of what was saved of it.
Given(policy, notice, agent, no, n) ==
    /\ policy.tools \ {"Skill"} = PlannedTools(n) /\ policy.isolated = ~wish.loaded
    /\ ("Skill" \in policy.tools) = notice
    /\ notice => no = 1 /\ "skill" \in policy.dirs
    /\ agent => "agent" \in policy.dirs
LegOf(n) ==
    /\ autoLeg.graph[n].needs = answer.nodes[n].needs
    /\ autoLeg.graph[n].check = PairedCheck(answer.nodes[n].check)
    /\ wish.verify /\ n \in Sinks(answer.nodes) => autoLeg.graph[n].verify
    /\ Given(autoLeg.policy[n], autoLeg.graph[n].notice, autoLeg.graph[n].agent, autoLeg.no, n)
    /\ autoLeg.graph[n].notice => n \notin plan.mapped
    /\ autoLeg.policy[n].dirs \subseteq Staged
    /\ autoLeg.no # 1 => autoLeg.policy[n].dirs = {}
    /\ "agent" \in autoLeg.policy[n].dirs => n \in plan.mapped
PlanBound == plan.at = "bound" =>
    /\ store.spec = plan.spec /\ store.script = plan.pin["script"] /\ store.policy = autoLeg.policy
    /\ wish.verify => autoLeg.command # "none"
    /\ \A n \in PlannedIds : LegOf(n)
\* What a node was given, what it read, and how it came out.
GivenTo(n) ==
    /\ spawned[n].policy # NoPolicy =>
        Given(spawned[n].policy, spawned[n].notice, spawned[n].agent, spawned[n].leg, n)
    /\ spawned[n].policy.dirs \subseteq Staged
    /\ "agent" \in spawned[n].policy.dirs => n \in plan.mapped
ReadBy(n) == ~spawned[n].exposed => \A k \in spawned[n].policy.dirs :
    /\ spawned[n].state = "starting" => copy[k] = Materialized(k)
    /\ spawned[n].state \notin {"idle", "starting", "FAIL"} => spawned[n].read[k] = plan.pin[k]
JudgedAs(n) ==
    /\ spawned[n].state # "PASS" => ~spawned[n].verified
    /\ spawned[n].state \in {"verifying", "judging", "PASS"} /\ spawned[n].code # 0 => answer.nodes[n].check = {}
    /\ spawned[n].state = "PASS" /\ spawned[n].code # 0 => spawned[n].verified
    /\ spawned[n].state = "PASS" /\ n \in Sinks(answer.nodes) /\ wish.verify => spawned[n].verified
    /\ spawned[n].state = "PASS" /\ spawned[n].verified /\ wish.verify => spawned[n].ran = 0
InOrder(n) == /\ spawned[n].leg > 0 <=> spawned[n].state # "idle"
              /\ spawned[n].state = "idle" => spawned[n] = NoSpawn
              /\ spawned[n].state # "idle" => \A p \in answer.nodes[n].needs : spawned[p].state = "PASS"
PlanNodes == plan.at = "bound" => \A n \in PlannedIds : GivenTo(n) /\ ReadBy(n) /\ JudgedAs(n) /\ InOrder(n)
PlanParts == /\ ReplyAccepted /\ NotBegun /\ ScriptPinned /\ Drafted /\ MappedFits /\ Finished
PlanInv == PlanTypeOK /\ PlanParts /\ PlanBound /\ PlanNodes

----------------------------------------------------------------------------
\* An auto run begins with nothing planned and nothing spawned.
LEMMA PlanInitHolds == PlanAssumption /\ PlanInit => PlanInv
<1> SUFFICES ASSUME PlanAssumption, PlanInit PROVE PlanInv
  OBVIOUS
<1> USE DEF Underway
<1>1. plan.at = "asking" /\ plan.calls = 0
      /\ plan.pin = [NoPins EXCEPT !["script"] = IF wish.verify THEN 0 ELSE Unpinned]
  BY DEF PlanInit
<1>2. PlanTypeOK
  BY <1>1 DEF PlanInit, PlanTypeOK, PlanAssumption, Contents, Pin
<1>3. NotBegun
  BY <1>1 DEF PlanInit, NotBegun, PlanAssumption
<1>4. ReplyAccepted /\ ScriptPinned /\ Drafted /\ MappedFits /\ Finished /\ PlanBound /\ PlanNodes
  BY <1>1 DEF ReplyAccepted, ScriptPinned, Drafted, MappedFits, Finished, PlanBound, PlanNodes
<1> QED BY <1>2, <1>3, <1>4 DEF PlanInv, PlanParts

\* What the parts of a plan say while the plan, its reply and the command line
\* stand.
LEMMA PlanStands ==
    ASSUME PlanParts, UNCHANGED <<wish, answer, plan>>
    PROVE  PlanParts'
<1>1. ReplyAccepted' /\ NotBegun' /\ ScriptPinned'
  BY DEF PlanParts, ReplyAccepted, NotBegun, ScriptPinned
<1>2. Drafted' /\ MappedFits'
  BY DEF PlanParts, Drafted, MappedFits, PlannedIds, FromReply, PlannedTools, CitesShape, ToolPolicyFor
<1>3. Finished'
  BY DEF PlanParts, Finished, PlannedIds, SpecOf, GraphOf, PolicyOf, FromReply, PlannedTools, CitesShape
<1> QED BY <1>1, <1>2, <1>3 DEF PlanParts

\* Before a plan is bound no leg runs and no node is spawned.
LEMMA NothingRuns ==
    ASSUME PlanInv, autoLeg.live \/ autoLeg.no # 0 \/ DOMAIN spawned # {}
    PROVE  plan.at = "bound"
<1>1. DOMAIN <<>> = {}
  OBVIOUS
<1> QED BY <1>1 DEF PlanInv, PlanTypeOK, NoRunLeg

\* What the nodes of a bound plan say while the plan, its copies and the nodes stand.
LEMMA NodesStand ==
    ASSUME PlanNodes, UNCHANGED <<wish, answer, plan, copy, spawned>>
    PROVE  PlanNodes'
<1> SUFFICES ASSUME plan.at = "bound", NEW n \in PlannedIds PROVE GivenTo(n)' /\ ReadBy(n)' /\ JudgedAs(n)' /\ InOrder(n)'
  BY DEF PlanNodes, PlannedIds
<1>1. GivenTo(n) /\ ReadBy(n) /\ JudgedAs(n) /\ InOrder(n)
  BY DEF PlanNodes
<1>2. PlannedTools(n)' = PlannedTools(n) /\ Staged' = Staged /\ Sinks(answer.nodes)' = Sinks(answer.nodes)
  BY DEF PlannedTools, CitesShape, Staged, Sinks
<1>3. GivenTo(n)'
  BY <1>1, <1>2 DEF GivenTo, Given
<1>4. ReadBy(n)'
  BY <1>1 DEF ReadBy, Materialized
<1>5. JudgedAs(n)'
  BY <1>1, <1>2 DEF JudgedAs
<1>6. InOrder(n)'
  BY <1>1 DEF InOrder
<1> QED BY <1>3, <1>4, <1>5, <1>6

\* The user's edits touch nothing that was planned.
LEMMA EditSourceKeeps ==
    ASSUME PlanAssumption, PlanInv, NEW s \in Sources, EditSource(s)
    PROVE  PlanInv'
<1>1. UNCHANGED <<wish, answer, plan, copy, store, autoLeg, spawned>>
  BY DEF EditSource
<1>2. source' \in [Sources -> Contents]
  <2>1. /\ source["agent"] \in Nat /\ source["skill"] \in Nat /\ source["shape"] \in Nat /\ source["script"] \in Nat
        /\ s \in {"agent", "skill", "shape", "script"}
    BY DEF PlanInv, PlanTypeOK, Sources, Kinds, Contents
  <2>2. source["agent"] + source["skill"] + source["shape"] + source["script"] < MaxEdits /\ MaxEdits \in Nat
    BY DEF EditSource, PlanAssumption
  <2>3. source[s] \in Nat /\ source[s] < MaxEdits
    BY <2>1, <2>2
  <2>4. source[s] + 1 \in Contents
    BY <2>2, <2>3 DEF Contents
  <2> QED BY <2>4 DEF EditSource, PlanInv, PlanTypeOK
<1>3. PlanTypeOK'
  BY <1>1, <1>2 DEF PlanInv, PlanTypeOK, PlannedIds, PlanNode, Progress
<1>4. PlanParts'
  BY <1>1, PlanStands DEF PlanInv
<1>5. PlanBound'
  BY <1>1 DEF PlanInv, PlanBound, PlannedIds, LegOf, Given, PlannedTools, CitesShape, Staged, Sinks
<1>6. PlanNodes'
  BY <1>1, NodesStand DEF PlanInv
<1> QED BY <1>3, <1>4, <1>5, <1>6 DEF PlanInv

----------------------------------------------------------------------------
(* Planning. *)

\* Nothing of a plan that is not bound yet is saved, run or spawned.
LEMMA Unbound ==
    ASSUME PlanInv, plan.at # "bound", plan'.at # "bound", UNCHANGED <<store, autoLeg, spawned>>
    PROVE  /\ store' = NoStore /\ autoLeg' = NoRunLeg /\ spawned' = <<>>
           /\ PlanBound' /\ PlanNodes'
BY DEF PlanInv, PlanTypeOK, PlanBound, PlanNodes

\* A reply is accepted, or the planner asked again at most as often as it may be.
LEMMA PlannerAnswersKeeps ==
    ASSUME PlanAssumption, PlanInv, NEW a \in Answers, PlannerAnswers(a)
    PROVE  PlanInv'
<1>1. plan.at = "asking" /\ answer' = a /\ UNCHANGED <<wish, source, copy, store, autoLeg, spawned>>
  BY DEF PlannerAnswers
<1>2. /\ plan = [at |-> plan.at, calls |-> plan.calls, graph |-> <<>>, spec |-> <<>>, policy |-> <<>>,
               mapped |-> {}, checked |-> Unpinned, pin |-> plan.pin]
      /\ plan.pin = [NoPins EXCEPT !["script"] = IF wish.verify THEN 0 ELSE Unpinned]
      /\ plan.calls <= MaxPlanRepairs /\ plan.calls \in Nat /\ MaxPlanRepairs \in Nat
  BY <1>1 DEF PlanInv, PlanParts, NotBegun, PlanTypeOK, PlanAssumption
<1> DEFINE next == IF ~ReplyRefused(a) THEN "accepted" ELSE IF MayAskAgain(a) THEN "asking" ELSE "rejected"
<1>3. plan' = [plan EXCEPT !.calls = @ + 1, !.at = next]
  BY DEF PlannerAnswers
<1>n. /\ next \in {"accepted", "asking", "rejected"} /\ (next = "accepted" => ~ReplyRefused(a))
      /\ next = "asking" => plan.calls < MaxPlanRepairs
  BY DEF MayAskAgain
<1> HIDE DEF next
<1>p. PICK at, calls, pin :
        plan = [at |-> at, calls |-> calls, graph |-> <<>>, spec |-> <<>>, policy |-> <<>>,
                mapped |-> {}, checked |-> Unpinned, pin |-> pin]
  BY <1>2
<1>q. plan' = [at |-> next, calls |-> calls + 1, graph |-> <<>>, spec |-> <<>>, policy |-> <<>>,
               mapped |-> {}, checked |-> Unpinned, pin |-> pin]
  BY <1>3, <1>p
<1>r. plan.calls = calls /\ plan.pin = pin
  BY <1>p
<1>s. plan'.at = next /\ plan'.calls = calls + 1 /\ plan'.pin = pin
  BY <1>q
<1>4. /\ plan'.at = next /\ plan'.calls = plan.calls + 1 /\ plan'.pin = plan.pin
      /\ plan' = [at |-> plan'.at, calls |-> plan'.calls, graph |-> <<>>, spec |-> <<>>, policy |-> <<>>,
                  mapped |-> {}, checked |-> Unpinned, pin |-> plan'.pin]
  BY <1>q, <1>r, <1>s
<1>5. plan'.at \in {"accepted", "asking", "rejected"} /\ (plan'.at = "asking" => plan'.calls <= MaxPlanRepairs)
  BY <1>2, <1>4, <1>n
<1>6. PlanBound' /\ PlanNodes' /\ store' = NoStore /\ autoLeg' = NoRunLeg /\ spawned' = <<>>
  BY <1>1, <1>5, Unbound
<1>7. PlanTypeOK'
  BY <1>1, <1>2, <1>4, <1>5, <1>6 DEF PlanInv, PlanTypeOK, Underway
<1>8. ReplyAccepted'
  <2>1. answer' \in Answers
    BY <1>1
  <2>2. plan'.at \in {"accepted"} \cup Underway => ~ReplyRefused(a)
    BY <1>4, <1>n DEF Underway
  <2>3. answer' = a
    BY <1>1
  <2>4. ReplyRefused(answer') <=> ReplyRefused(a)
    BY <2>3
  <2> QED
    BY <2>1, <2>2, <2>4 DEF ReplyAccepted
<1>9. NotBegun'
  BY <1>1, <1>2, <1>4, <1>5 DEF NotBegun
<1>10. ScriptPinned' /\ Drafted' /\ MappedFits' /\ Finished'
  BY <1>5 DEF ScriptPinned, Drafted, MappedFits, Finished, Underway
<1> QED BY <1>6, <1>7, <1>8, <1>9, <1>10 DEF PlanInv, PlanParts

\* A plan that was given up keeps nothing to be wrong about.
LEMMA PlanRejected ==
    ASSUME PlanInv, plan'.at = "rejected", plan'.calls = plan.calls,
           plan.at # "bound", UNCHANGED <<wish, answer, source, copy, store, autoLeg, spawned>>
    PROVE  PlanInv'
<1>1. PlanBound' /\ PlanNodes' /\ store' = NoStore /\ autoLeg' = NoRunLeg /\ spawned' = <<>>
  BY Unbound
<1>2. PlanTypeOK'
  BY <1>1 DEF PlanInv, PlanTypeOK, Underway
<1>3. PlanParts'
  BY DEF PlanParts, ReplyAccepted, NotBegun, ScriptPinned, Drafted, MappedFits, Finished, Underway
<1> QED BY <1>1, <1>2, <1>3 DEF PlanInv

\* An accepted reply makes nodes of a plan: its tools are among those a plan may
\* have, and it quotes nodes of its own.
LEMMA SplicedNode ==
    ASSUME PlanAssumption, ReplyAccepted, plan.at \in {"accepted"} \cup Underway, NEW n \in PlannedIds
    PROVE  /\ answer.nodes[n].needs \subseteq PlannedIds /\ answer.nodes[n].check \subseteq Checks
           /\ answer.nodes[n].quotes \subseteq Before(answer.nodes)[n] /\ answer.nodes[n].quotes \subseteq PlannedIds
           /\ answer.nodes[n].matches \in Nat /\ PlannedTools(n) \subseteq Allowlist
<1>1. answer \in Answers /\ answer.form = "graph" /\ ~NodeRefused(answer.nodes, n)
  BY DEF ReplyAccepted, ReplyRefused, PlannedIds
<1>2. Loads(answer.nodes)
  BY <1>1 DEF PlanAssumption
<1>3. answer.nodes[n].needs \subseteq PlannedIds /\ answer.nodes[n].check \subseteq Checks /\ answer.nodes[n].matches \in Nat
  BY <1>2 DEF Loads, PlannedIds
<1>4. answer.nodes[n].quotes \subseteq Before(answer.nodes)[n]
  BY <1>1 DEF NodeRefused, QuotesRefused
<1>5. Before(answer.nodes)[n] \subseteq PlannedIds
  BY DEF Before, PlannedIds
<1>6. PlannedTools(n) \subseteq Allowlist
  BY <1>1 DEF NodeRefused, ToolsRefused, PlannedTools, PlanAssumption
<1> QED BY <1>3, <1>4, <1>5, <1>6

\* A plan takes its nodes and their ceilings from the reply and the shape.
LEMMA SpliceKeeps ==
    ASSUME PlanAssumption, PlanInv, Splice
    PROVE  PlanInv'
<1>1. plan.at = "accepted" /\ UNCHANGED <<wish, answer, source, copy, store, autoLeg, spawned>>
  BY DEF Splice
<1>p. PICK at, calls, pin :
        plan = [at |-> at, calls |-> calls, graph |-> <<>>, spec |-> <<>>, policy |-> <<>>,
                mapped |-> {}, checked |-> Unpinned, pin |-> pin]
  BY <1>1 DEF PlanInv, PlanParts, NotBegun
<1>q. plan.calls = calls /\ plan.pin = pin /\ calls \in 0..(MaxPlanRepairs + 1) /\ MaxPlanRepairs \in Nat
  BY <1>p DEF PlanInv, PlanTypeOK, PlanAssumption
<1>2. CASE CitesShape # {} /\ source["shape"] # 0
  <2>1. plan' = [plan EXCEPT !.at = "rejected"]
    BY <1>2 DEF Splice
  <2>2. plan'.at = "rejected" /\ plan'.calls = plan.calls
    BY <2>1, <1>p, <1>q
  <2> QED BY <1>1, <2>2, PlanRejected
<1>3. CASE ~(CitesShape # {} /\ source["shape"] # 0)
  <2> DEFINE g == [n \in PlannedIds |->
                     [needs |-> answer.nodes[n].needs, check |-> answer.nodes[n].check,
                      quotes |-> answer.nodes[n].quotes, matches |-> answer.nodes[n].matches,
                      tools |-> PlannedTools(n),
                      agent |-> FALSE, notice |-> FALSE, verify |-> FALSE]]
             policies == [n \in PlannedIds |-> ToolPolicyFor(PlannedTools(n))]
  <2>1. plan' = [plan EXCEPT !.at = "spliced", !.graph = g, !.spec = g, !.policy = policies]
    BY <1>3 DEF Splice, PlannedTools, PlannedIds
  <2>2. \A n \in PlannedIds : g[n] \in PlanNode
    BY <1>1, SplicedNode DEF PlanNode, PlanInv, PlanParts
  <2>3. g \in [PlannedIds -> PlanNode]
    BY <2>2
  <2>4. \A n \in PlannedIds : policies[n] \in Policy
    BY <1>1, SplicedNode DEF Policy, ToolPolicyFor, PlanInv, PlanParts
  <2>5. policies \in [PlannedIds -> Policy]
    BY <2>4
  <2>6. \A n \in PlannedIds :
          /\ g[n].needs = answer.nodes[n].needs /\ g[n].check = answer.nodes[n].check /\ g[n].tools = PlannedTools(n)
          /\ ~g[n].agent /\ ~g[n].notice /\ ~g[n].verify
          /\ policies[n] = ToolPolicyFor(PlannedTools(n))
    OBVIOUS
  <2> HIDE DEF g, policies
  <2>7. plan' = [at |-> "spliced", calls |-> calls, graph |-> g, spec |-> g, policy |-> policies,
                 mapped |-> {}, checked |-> Unpinned, pin |-> pin]
    BY <2>1, <1>p
  <2>8. pin \in [Kinds \cup {"script"} -> Pin] /\ pin["agent"] = Unpinned /\ pin["skill"] = Unpinned
        /\ pin["script"] = IF wish.verify THEN 0 ELSE Unpinned
    BY <1>1, <1>q DEF PlanInv, PlanParts, NotBegun, NoPins, Kinds, Pin, Contents, PlanAssumption
  <2>9. PlanBound' /\ PlanNodes' /\ store' = NoStore /\ autoLeg' = NoRunLeg /\ spawned' = <<>>
    BY <1>1, <2>7, Unbound
  <2>10. PlanTypeOK'
    <3>1. plan' \in Progress
      BY <2>3, <2>5, <2>7, <2>8, <1>q DEF Progress, Underway, Pin
    <3>2. Progress' = Progress
      BY <1>1 DEF PlannedIds, PlanNode, Progress
    <3>3. plan'.at = "spliced" /\ plan'.calls = calls
      BY <2>7
    <3> QED BY <3>1, <3>2, <3>3, <2>9, <1>1, <1>q DEF PlanInv, PlanTypeOK, Underway
  <2>11. ReplyAccepted'
    BY <1>1, <2>7 DEF PlanInv, PlanParts, ReplyAccepted
  <2>12. ScriptPinned' /\ NotBegun' /\ MappedFits' /\ Finished'
    BY <1>1, <2>7, <2>8 DEF ScriptPinned, NotBegun, MappedFits, Finished
  <2>13. Drafted'
    <3>1. plan'.graph = g /\ plan'.spec = g /\ plan'.policy = policies /\ plan'.pin = pin
      BY <2>7
    <3>2. PlannedIds' = PlannedIds /\ \A n \in PlannedIds : PlannedTools(n)' = PlannedTools(n) /\ ToolPolicyFor(PlannedTools(n))' = ToolPolicyFor(PlannedTools(n))
      BY <1>1 DEF PlannedIds, PlannedTools, CitesShape, ToolPolicyFor
    <3> QED BY <1>1, <2>6, <2>8, <3>1, <3>2 DEF Drafted, FromReply
  <2> QED BY <2>9, <2>10, <2>11, <2>12, <2>13 DEF PlanInv, PlanParts
<1> QED BY <1>2, <1>3

\* What a plan under way is.
LEMMA PlanIs ==
    ASSUME PlanInv, plan.at \in Underway
    PROVE  plan \in Progress
BY DEF PlanInv, PlanTypeOK

\* An agent is matched with nodes that have every tool its definition names.
LEMMA ScanAgentsKeeps ==
    ASSUME PlanAssumption, PlanInv, ScanAgents
    PROVE  PlanInv'
<1>1. plan.at = "spliced" /\ UNCHANGED <<wish, answer, source, copy, store, autoLeg, spawned>>
  BY DEF ScanAgents
<1>2. plan \in Progress
  BY <1>1, PlanIs DEF Underway
<1> DEFINE ns == {n \in DOMAIN plan.graph :
                    /\ wish.agents /\ plan.graph[n].matches = 1
                    /\ AgentTools[source["agent"]] \subseteq plan.graph[n].tools}
<1>3. /\ plan' = [plan EXCEPT !.at = "scanned", !.checked = source["agent"], !.mapped = ns]
      /\ ns \in SUBSET PlannedIds
      /\ \A n \in ns : AgentTools[source["agent"]] \subseteq plan.graph[n].tools
  <2>1. DOMAIN plan.graph = PlannedIds
    BY <1>2 DEF Progress
  <2>2. plan' = [plan EXCEPT !.at = "scanned", !.checked = source["agent"], !.mapped = ns]
    BY DEF ScanAgents
  <2> QED BY <2>1, <2>2
<1> HIDE DEF ns
<1>4. source["agent"] \in Contents
  BY DEF PlanInv, PlanTypeOK, Sources, Kinds
<1>5. /\ plan'.at = "scanned" /\ plan'.checked = source["agent"] /\ plan'.mapped = ns /\ plan'.calls = plan.calls
      /\ plan'.graph = plan.graph /\ plan'.spec = plan.spec /\ plan'.policy = plan.policy /\ plan'.pin = plan.pin
  BY <1>2, <1>3 DEF Progress
<1>6. PlanBound' /\ PlanNodes' /\ store' = NoStore /\ autoLeg' = NoRunLeg /\ spawned' = <<>>
  BY <1>1, <1>5, Unbound
<1>7. PlanTypeOK'
  <2>1. plan' \in Progress
    BY <1>2, <1>3, <1>4 DEF Progress, Underway, Pin
  <2>2. Progress' = Progress
    BY <1>1 DEF PlannedIds, PlanNode, Progress
  <2> QED BY <2>1, <2>2, <1>1, <1>5, <1>6 DEF PlanInv, PlanTypeOK, Underway
<1>8. ReplyAccepted' /\ ScriptPinned' /\ NotBegun' /\ Finished'
  BY <1>1, <1>5 DEF PlanInv, PlanParts, ReplyAccepted, ScriptPinned, NotBegun, Finished, Underway
<1>9. Drafted'
  BY <1>1, <1>5 DEF PlanInv, PlanParts, Drafted, PlannedIds, FromReply, PlannedTools, CitesShape, ToolPolicyFor
<1>10. MappedFits'
  <2>1. \A n \in ns : AgentTools[source["agent"]] \subseteq PlannedTools(n)
    BY <1>1, <1>3 DEF PlanInv, PlanParts, Drafted, FromReply
  <2> QED BY <1>1, <1>4, <1>5, <2>1 DEF MappedFits, PlannedTools, CitesShape
<1> QED BY <1>6, <1>7, <1>8, <1>9, <1>10 DEF PlanInv, PlanParts

\* The four steps after the scan change what they name in a plan and no more.
Others(q, p) == q.at = p.at /\ q.calls = p.calls /\ q.checked = p.checked
                /\ \A n \in PlannedIds : q.graph[n].needs = p.graph[n].needs /\ q.graph[n].tools = p.graph[n].tools

\* Membership is a truth value.
LEMMA Truth == ASSUME NEW S, NEW x PROVE \E b \in BOOLEAN : b = (x \in S)
<1> WITNESS (x \in S) \in BOOLEAN
<1> QED OBVIOUS

\* A node of a plan with another answer to one of its three questions.
LEMMA WithAgent ==
    ASSUME NEW node \in PlanNode, NEW b \in BOOLEAN, NEW other, other = [node EXCEPT !.agent = b]
    PROVE  /\ other \in PlanNode /\ other.agent = b
           /\ other.needs = node.needs /\ other.tools = node.tools /\ other.check = node.check
           /\ other.notice = node.notice /\ other.verify = node.verify
BY DEF PlanNode
LEMMA WithNotice ==
    ASSUME NEW node \in PlanNode, NEW b \in BOOLEAN, NEW other, other = [node EXCEPT !.notice = b]
    PROVE  /\ other \in PlanNode /\ other.notice = b
           /\ other.needs = node.needs /\ other.tools = node.tools /\ other.check = node.check
           /\ other.agent = node.agent /\ other.verify = node.verify
BY DEF PlanNode
LEMMA WithVerify ==
    ASSUME NEW node \in PlanNode, NEW b \in BOOLEAN, NEW other, other = [node EXCEPT !.verify = b]
    PROVE  /\ other \in PlanNode /\ other.verify = b
           /\ other.needs = node.needs /\ other.tools = node.tools /\ other.check = node.check
           /\ other.agent = node.agent /\ other.notice = node.notice
BY DEF PlanNode

\* The agents are matched.
LEMMA MappedIs ==
    ASSUME PlanTypeOK, NEW p \in Progress, p.spec = p.graph, \A n \in PlannedIds : ~p.graph[n].agent,
           NEW staged \in BOOLEAN, NEW q, q = Mapped(p, staged)
    PROVE  /\ q \in Progress /\ q.spec = q.graph /\ Others(q, p) /\ q.policy = p.policy
           /\ q.pin["skill"] = p.pin["skill"] /\ q.pin["script"] = p.pin["script"]
           /\ q.mapped = {} \/ (q.mapped = p.mapped /\ q.pin["agent"] \in Contents)
           /\ \A n \in PlannedIds : q.graph[n].agent = (n \in q.mapped) /\ q.graph[n].check = p.graph[n].check
                /\ q.graph[n].notice = p.graph[n].notice /\ q.graph[n].verify = p.graph[n].verify
<1>1. CASE p.mapped = {} \/ ~staged
  <2>1. q = [p EXCEPT !.mapped = {}]
    BY <1>1 DEF Mapped
  <2>2. q \in Progress /\ q.graph = p.graph /\ q.spec = p.spec /\ q.policy = p.policy /\ q.pin = p.pin /\ q.mapped = {}
        /\ q.at = p.at /\ q.calls = p.calls /\ q.checked = p.checked
    BY <2>1 DEF Progress
  <2>3. \A n \in PlannedIds : p.graph[n].agent \in BOOLEAN
    BY DEF Progress, PlanNode
  <2> QED BY <2>2, <2>3 DEF Others
<1>2. CASE ~(p.mapped = {} \/ ~staged)
  <2> DEFINE g == [n \in PlannedIds |-> [p.graph[n] EXCEPT !.agent = n \in p.mapped]]
  <2>1. DOMAIN p.graph = PlannedIds /\ \A n \in PlannedIds : p.graph[n] \in PlanNode
    BY DEF Progress
  <2>2. q = [p EXCEPT !.graph = g, !.spec = g, !.pin["agent"] = source["agent"]]
    BY <1>2, <2>1 DEF Mapped
  <2>3. \A n \in PlannedIds :
          /\ g[n] \in PlanNode /\ g[n].agent = (n \in p.mapped)
          /\ g[n].check = p.graph[n].check /\ g[n].needs = p.graph[n].needs /\ g[n].tools = p.graph[n].tools
          /\ g[n].notice = p.graph[n].notice /\ g[n].verify = p.graph[n].verify
    <3> SUFFICES ASSUME NEW n \in PlannedIds
                 PROVE  /\ g[n] \in PlanNode /\ g[n].agent = (n \in p.mapped)
                        /\ g[n].check = p.graph[n].check /\ g[n].needs = p.graph[n].needs /\ g[n].tools = p.graph[n].tools
                        /\ g[n].notice = p.graph[n].notice /\ g[n].verify = p.graph[n].verify
      OBVIOUS
    <3>1. PICK b \in BOOLEAN : b = (n \in p.mapped)
      BY Truth
    <3>2. g[n] = [p.graph[n] EXCEPT !.agent = b]
      BY <3>1
    <3> HIDE DEF g
    <3>3. p.graph[n] \in PlanNode
      BY <2>1
    <3>4. \A other : other = [p.graph[n] EXCEPT !.agent = b] =>
            /\ other \in PlanNode /\ other.agent = b
            /\ other.needs = p.graph[n].needs /\ other.tools = p.graph[n].tools /\ other.check = p.graph[n].check
            /\ other.notice = p.graph[n].notice /\ other.verify = p.graph[n].verify
      BY <3>3, WithAgent
    <3> QED BY <3>1, <3>2, <3>4
  <2>4. g \in [PlannedIds -> PlanNode]
    BY <2>3
  <2> HIDE DEF g
  <2>5. source["agent"] \in Contents /\ source["agent"] \in Pin
    BY DEF PlanTypeOK, Sources, Kinds, Pin
  <2>p. PICK pin : pin = [p.pin EXCEPT !["agent"] = source["agent"]]
    OBVIOUS
  <2>q. /\ pin \in [Kinds \cup {"script"} -> Pin] /\ pin["agent"] = source["agent"]
        /\ pin["skill"] = p.pin["skill"] /\ pin["script"] = p.pin["script"]
    BY <2>p, <2>5 DEF Progress, Kinds
  <2>r. q = [p EXCEPT !.graph = g, !.spec = g, !.pin = pin]
    BY <2>2, <2>p
  <2>6. q \in Progress /\ q.graph = g /\ q.spec = g /\ q.policy = p.policy /\ q.mapped = p.mapped
        /\ q.at = p.at /\ q.calls = p.calls /\ q.checked = p.checked
        /\ q.pin["agent"] = source["agent"] /\ q.pin["skill"] = p.pin["skill"] /\ q.pin["script"] = p.pin["script"]
    BY <2>r, <2>q, <2>4 DEF Progress
  <2> QED BY <2>3, <2>5, <2>6 DEF Others
<1> QED BY <1>1, <1>2

\* The result checks are paired with the exit code.
LEMMA PairedIs ==
    ASSUME NEW p \in Progress, p.spec = p.graph, NEW q, q = Paired(p)
    PROVE  /\ q \in Progress /\ q.spec = q.graph /\ Others(q, p) /\ q.policy = p.policy /\ q.pin = p.pin /\ q.mapped = p.mapped
           /\ \A n \in PlannedIds : q.graph[n].agent = p.graph[n].agent /\ q.graph[n].check = PairedCheck(p.graph[n].check)
                /\ q.graph[n].notice = p.graph[n].notice /\ q.graph[n].verify = p.graph[n].verify
<1> DEFINE g == [n \in PlannedIds |-> [p.graph[n] EXCEPT !.check = PairedCheck(@)]]
<1>1. p.graph \in [PlannedIds -> PlanNode] /\ DOMAIN p.graph = PlannedIds /\ \A n \in PlannedIds : p.graph[n] \in PlanNode
  BY DEF Progress
<1>2. q = IF g = p.graph THEN p ELSE [p EXCEPT !.graph = g, !.spec = g]
  <2> DEFINE guarded == {n \in DOMAIN p.graph : "result_matches" \in p.graph[n].check}
             h == [n \in DOMAIN p.graph |->
                    [p.graph[n] EXCEPT !.check = IF n \in guarded THEN @ \cup {"exit_zero"} ELSE @]]
  <2>1. \A n \in PlannedIds : h[n] = g[n]
    BY <1>1 DEF PairedCheck
  <2>2. h = g
    BY <1>1, <2>1
  <2>3. q = IF h = p.graph THEN p ELSE [p EXCEPT !.graph = h, !.spec = h]
    BY DEF Paired
  <2> QED BY <2>2, <2>3
<1>3. \A n \in PlannedIds :
        /\ g[n] \in PlanNode /\ g[n].check = PairedCheck(p.graph[n].check)
        /\ g[n].agent = p.graph[n].agent /\ g[n].needs = p.graph[n].needs /\ g[n].tools = p.graph[n].tools
        /\ g[n].notice = p.graph[n].notice /\ g[n].verify = p.graph[n].verify
  <2> SUFFICES ASSUME NEW n \in PlannedIds
               PROVE /\ g[n] \in PlanNode /\ g[n].check = PairedCheck(p.graph[n].check)
                     /\ g[n].agent = p.graph[n].agent /\ g[n].needs = p.graph[n].needs /\ g[n].tools = p.graph[n].tools
                     /\ g[n].notice = p.graph[n].notice /\ g[n].verify = p.graph[n].verify
    OBVIOUS
  <2>1. PairedCheck(p.graph[n].check) \in SUBSET Checks
    BY <1>1 DEF PlanNode, PairedCheck, Checks
  <2> QED BY <1>1, <2>1 DEF PlanNode
<1>4. g \in [PlannedIds -> PlanNode]
  BY <1>3
<1> HIDE DEF g
<1>5. /\ q \in Progress /\ q.graph = g /\ q.spec = g /\ q.policy = p.policy /\ q.mapped = p.mapped /\ q.pin = p.pin
      /\ q.at = p.at /\ q.calls = p.calls /\ q.checked = p.checked
  BY <1>2, <1>4 DEF Progress
<1> QED BY <1>3, <1>5 DEF Others

\* The sinks of a plan are those of the reply.
LEMMA SinksSame ==
    ASSUME NEW g, DOMAIN g = PlannedIds, \A n \in PlannedIds : g[n].needs = answer.nodes[n].needs
    PROVE  Sinks(g) = Sinks(answer.nodes)
BY DEF Sinks, PlannedIds

\* The user's command is attached to the sinks.
LEMMA AttachedIs ==
    ASSUME PlanAssumption, PlanTypeOK, NEW p \in Progress, p.spec = p.graph, NEW q, q = Attached(p),
           \A n \in PlannedIds : p.graph[n].needs = answer.nodes[n].needs /\ ~p.graph[n].verify
    PROVE  /\ q \in Progress /\ q.spec = q.graph /\ Others(q, p) /\ q.policy = p.policy /\ q.pin = p.pin /\ q.mapped = p.mapped
           /\ \A n \in PlannedIds : q.graph[n].agent = p.graph[n].agent /\ q.graph[n].check = p.graph[n].check
                /\ q.graph[n].notice = p.graph[n].notice
                /\ q.graph[n].verify = (wish.verify /\ n \in Sinks(answer.nodes))
<1>1. p.graph \in [PlannedIds -> PlanNode] /\ DOMAIN p.graph = PlannedIds /\ \A n \in PlannedIds : p.graph[n] \in PlanNode
  BY DEF Progress
<1>2. wish.verify \in BOOLEAN
  BY DEF PlanAssumption, PlanTypeOK
<1>3. CASE ~wish.verify
  <2>1. q = p
    BY <1>3 DEF Attached
  <2>2. \A n \in PlannedIds : p.graph[n].verify \in BOOLEAN
    BY <1>1 DEF PlanNode
  <2> QED BY <1>3, <2>1, <2>2 DEF Others
<1>4. CASE wish.verify
  <2> DEFINE g == Verifying(p.graph)
  <2>1. q = [p EXCEPT !.graph = g, !.spec = g]
    BY <1>4 DEF Attached
  <2>2. Sinks(p.graph) = Sinks(answer.nodes)
    BY <1>1, SinksSame
  <2>3. \A n \in PlannedIds : g[n] = [p.graph[n] EXCEPT !.verify = n \in Sinks(answer.nodes)]
    BY <1>1, <2>2 DEF Verifying
  <2>4. DOMAIN g = PlannedIds
    BY <1>1 DEF Verifying
  <2>5. \A n \in PlannedIds :
        /\ g[n] \in PlanNode /\ g[n].verify = (n \in Sinks(answer.nodes)) /\ g[n].check = p.graph[n].check
        /\ g[n].agent = p.graph[n].agent /\ g[n].needs = p.graph[n].needs /\ g[n].tools = p.graph[n].tools
        /\ g[n].notice = p.graph[n].notice
    <3> SUFFICES ASSUME NEW n \in PlannedIds
                 PROVE  /\ g[n] \in PlanNode /\ g[n].verify = (n \in Sinks(answer.nodes)) /\ g[n].check = p.graph[n].check
                        /\ g[n].agent = p.graph[n].agent /\ g[n].needs = p.graph[n].needs /\ g[n].tools = p.graph[n].tools
                        /\ g[n].notice = p.graph[n].notice
      OBVIOUS
    <3>1. PICK b \in BOOLEAN : b = (n \in Sinks(answer.nodes))
      BY Truth
    <3>2. g[n] = [p.graph[n] EXCEPT !.verify = b]
      BY <2>3, <3>1
    <3> HIDE DEF g
    <3>3. p.graph[n] \in PlanNode
      BY <1>1
    <3>4. \A other : other = [p.graph[n] EXCEPT !.verify = b] =>
            /\ other \in PlanNode /\ other.verify = b
            /\ other.needs = p.graph[n].needs /\ other.tools = p.graph[n].tools /\ other.check = p.graph[n].check
            /\ other.agent = p.graph[n].agent /\ other.notice = p.graph[n].notice
      BY <3>3, WithVerify
    <3> QED BY <3>1, <3>2, <3>4
  <2>6. g \in [PlannedIds -> PlanNode]
    BY <2>4, <2>5 DEF Verifying
  <2> HIDE DEF g
  <2>7. /\ q \in Progress /\ q.graph = g /\ q.spec = g /\ q.policy = p.policy /\ q.mapped = p.mapped /\ q.pin = p.pin
        /\ q.at = p.at /\ q.calls = p.calls /\ q.checked = p.checked
    BY <2>1, <2>6 DEF Progress
  <2> QED BY <1>4, <2>5, <2>7 DEF Others
<1> QED BY <1>2, <1>3, <1>4

\* The skills are granted, to nodes without an agent.
LEMMA ActivatedIs ==
    ASSUME PlanAssumption, PlanTypeOK, NEW p \in Progress, NEW staged \in BOOLEAN, NEW q, q = Activated(p, staged),
           \A n \in PlannedIds : ~p.graph[n].notice
    PROVE  /\ q \in Progress /\ q.spec = p.spec /\ Others(q, p) /\ q.mapped = p.mapped
           /\ q.pin["agent"] = p.pin["agent"] /\ q.pin["script"] = p.pin["script"]
           /\ \A n \in PlannedIds :
                /\ q.graph[n].agent = p.graph[n].agent /\ q.graph[n].check = p.graph[n].check
                /\ q.graph[n].verify = p.graph[n].verify
                /\ q.graph[n].notice => ~p.graph[n].agent /\ q.pin["skill"] \in Contents
                /\ q.policy[n].tools = p.policy[n].tools \cup (IF q.graph[n].notice THEN {"Skill"} ELSE {})
                /\ q.policy[n].isolated = p.policy[n].isolated
<1>1. p.graph \in [PlannedIds -> PlanNode] /\ DOMAIN p.graph = PlannedIds /\ \A n \in PlannedIds : p.graph[n] \in PlanNode
  BY DEF Progress
<1>2. p.policy \in [PlannedIds -> Policy] /\ \A n \in PlannedIds : p.policy[n] \in Policy
  BY DEF Progress
<1> DEFINE given == {n \in DOMAIN p.graph : ~p.graph[n].agent}
<1>3. CASE ~wish.skills \/ ~staged \/ given = {}
  <2>1. q = p
    BY <1>3 DEF Activated
  <2> QED BY <2>1 DEF Others
<1>4. CASE ~(~wish.skills \/ ~staged \/ given = {})
  <2> DEFINE g == [n \in PlannedIds |-> [p.graph[n] EXCEPT !.notice = n \in given]]
             policies == [n \in PlannedIds |->
                            [p.policy[n] EXCEPT !.tools = IF n \in given THEN @ \cup {"Skill"} ELSE @]]
  <2>1. q = [p EXCEPT !.graph = g, !.policy = policies, !.pin["skill"] = source["skill"]]
    BY <1>1, <1>4 DEF Activated
  <2>2. \A n \in PlannedIds :
          /\ g[n] \in PlanNode /\ g[n].notice = (n \in given) /\ g[n].check = p.graph[n].check
          /\ g[n].agent = p.graph[n].agent /\ g[n].needs = p.graph[n].needs /\ g[n].tools = p.graph[n].tools
          /\ g[n].verify = p.graph[n].verify
    <3> SUFFICES ASSUME NEW n \in PlannedIds
                 PROVE  /\ g[n] \in PlanNode /\ g[n].notice = (n \in given) /\ g[n].check = p.graph[n].check
                        /\ g[n].agent = p.graph[n].agent /\ g[n].needs = p.graph[n].needs /\ g[n].tools = p.graph[n].tools
                        /\ g[n].verify = p.graph[n].verify
      OBVIOUS
    <3>1. PICK b \in BOOLEAN : b = (n \in given)
      BY Truth
    <3>2. g[n] = [p.graph[n] EXCEPT !.notice = b]
      BY <3>1
    <3> HIDE DEF g, given
    <3>3. p.graph[n] \in PlanNode
      BY <1>1
    <3>4. \A other : other = [p.graph[n] EXCEPT !.notice = b] =>
            /\ other \in PlanNode /\ other.notice = b
            /\ other.needs = p.graph[n].needs /\ other.tools = p.graph[n].tools /\ other.check = p.graph[n].check
            /\ other.agent = p.graph[n].agent /\ other.verify = p.graph[n].verify
      BY <3>3, WithNotice
    <3> QED BY <3>1, <3>2, <3>4
  <2>3. \A n \in PlannedIds :
          /\ policies[n] \in Policy /\ policies[n].isolated = p.policy[n].isolated
          /\ policies[n].tools = p.policy[n].tools \cup (IF n \in given THEN {"Skill"} ELSE {})
    BY <1>2 DEF Policy
  <2>4. g \in [PlannedIds -> PlanNode] /\ policies \in [PlannedIds -> Policy]
    BY <2>2, <2>3
  <2>5. \A n \in PlannedIds : n \in given => ~p.graph[n].agent
    OBVIOUS
  <2>6. source["skill"] \in Contents /\ source["skill"] \in Pin
    BY DEF PlanTypeOK, Sources, Kinds, Pin
  <2> HIDE DEF g, policies, given
  <2>p. PICK pin : pin = [p.pin EXCEPT !["skill"] = source["skill"]]
    OBVIOUS
  <2>q. /\ pin \in [Kinds \cup {"script"} -> Pin] /\ pin["skill"] = source["skill"]
        /\ pin["agent"] = p.pin["agent"] /\ pin["script"] = p.pin["script"]
    BY <2>p, <2>6 DEF Progress, Kinds
  <2>r. q = [p EXCEPT !.graph = g, !.policy = policies, !.pin = pin]
    BY <2>1, <2>p
  <2>7. /\ q \in Progress /\ q.graph = g /\ q.spec = p.spec /\ q.policy = policies /\ q.mapped = p.mapped
        /\ q.at = p.at /\ q.calls = p.calls /\ q.checked = p.checked
        /\ q.pin["agent"] = p.pin["agent"] /\ q.pin["script"] = p.pin["script"] /\ q.pin["skill"] = source["skill"]
    BY <2>r, <2>q, <2>4 DEF Progress
  <2> QED BY <2>2, <2>3, <2>5, <2>6, <2>7 DEF Others
<1> QED BY <1>3, <1>4

\* A finished plan saves what every leg can honour, and pins what only this one can.
LEMMA FinishPlanKeeps ==
    ASSUME PlanAssumption, PlanInv, FinishPlan
    PROVE  PlanInv'
<1>1. plan.at = "scanned" /\ UNCHANGED <<wish, answer, source, copy, store, autoLeg, spawned>>
  BY DEF FinishPlan
<1>2. PICK agentStaged \in BOOLEAN, skillStaged \in BOOLEAN :
        plan' = [Mutated(plan, agentStaged, skillStaged) EXCEPT !.at = "ready"]
  BY DEF FinishPlan
<1>t. plan \in Progress /\ PlanTypeOK
  BY <1>1, PlanIs DEF Underway, PlanInv
<1>d. /\ plan.spec = plan.graph /\ plan.pin["agent"] = Unpinned /\ plan.pin["skill"] = Unpinned
      /\ \A n \in PlannedIds :
        /\ FromReply(plan.graph[n], n) /\ plan.graph[n].check = answer.nodes[n].check
        /\ ~plan.graph[n].agent /\ ~plan.graph[n].notice /\ ~plan.graph[n].verify
        /\ plan.policy[n] = ToolPolicyFor(PlannedTools(n))
  BY <1>1 DEF PlanInv, PlanParts, Drafted
<1>3. PICK mapped : mapped = Mapped(plan, agentStaged)
  OBVIOUS
<1>4. /\ mapped \in Progress /\ mapped.spec = mapped.graph /\ Others(mapped, plan) /\ mapped.policy = plan.policy
      /\ mapped.pin["skill"] = plan.pin["skill"] /\ mapped.pin["script"] = plan.pin["script"]
      /\ mapped.mapped = {} \/ (mapped.mapped = plan.mapped /\ mapped.pin["agent"] \in Contents)
      /\ \A n \in PlannedIds :
            /\ mapped.graph[n].agent = (n \in mapped.mapped) /\ mapped.graph[n].check = plan.graph[n].check
            /\ mapped.graph[n].notice = plan.graph[n].notice /\ mapped.graph[n].verify = plan.graph[n].verify
  BY <1>t, <1>d, <1>3, MappedIs
<1>5. PICK paired : paired = Paired(mapped)
  OBVIOUS
<1>6. /\ paired \in Progress /\ paired.spec = paired.graph /\ Others(paired, mapped) /\ paired.policy = mapped.policy
      /\ paired.pin = mapped.pin /\ paired.mapped = mapped.mapped
      /\ \A n \in PlannedIds :
            /\ paired.graph[n].agent = mapped.graph[n].agent
            /\ paired.graph[n].check = PairedCheck(mapped.graph[n].check)
            /\ paired.graph[n].notice = mapped.graph[n].notice /\ paired.graph[n].verify = mapped.graph[n].verify
  BY <1>4, <1>5, PairedIs
<1>7. PICK attached : attached = Attached(paired)
  OBVIOUS
<1>8. /\ attached \in Progress /\ attached.spec = attached.graph /\ Others(attached, paired)
      /\ attached.policy = paired.policy /\ attached.pin = paired.pin /\ attached.mapped = paired.mapped
      /\ \A n \in PlannedIds :
            /\ attached.graph[n].agent = paired.graph[n].agent /\ attached.graph[n].check = paired.graph[n].check
            /\ attached.graph[n].notice = paired.graph[n].notice
            /\ attached.graph[n].verify = (wish.verify /\ n \in Sinks(answer.nodes))
  <2>1. \A n \in PlannedIds : paired.graph[n].needs = answer.nodes[n].needs /\ ~paired.graph[n].verify
    BY <1>d, <1>4, <1>6 DEF Others, FromReply
  <2> QED BY <1>t, <1>6, <1>7, <2>1, AttachedIs
<1>9. PICK active : active = Activated(attached, skillStaged)
  OBVIOUS
<1>10. /\ active \in Progress /\ active.spec = attached.spec /\ Others(active, attached) /\ active.mapped = attached.mapped
       /\ active.pin["agent"] = attached.pin["agent"] /\ active.pin["script"] = attached.pin["script"]
       /\ \A n \in PlannedIds :
            /\ active.graph[n].agent = attached.graph[n].agent /\ active.graph[n].check = attached.graph[n].check
            /\ active.graph[n].verify = attached.graph[n].verify
            /\ active.graph[n].notice => ~attached.graph[n].agent /\ active.pin["skill"] \in Contents
            /\ active.policy[n].tools = attached.policy[n].tools \cup (IF active.graph[n].notice THEN {"Skill"} ELSE {})
            /\ active.policy[n].isolated = attached.policy[n].isolated
  <2>1. \A n \in PlannedIds : ~attached.graph[n].notice
    BY <1>d, <1>4, <1>6, <1>8
  <2> QED BY <1>t, <1>8, <1>9, <2>1, ActivatedIs
<1>11. active = Mutated(plan, agentStaged, skillStaged)
  BY <1>3, <1>5, <1>7, <1>9 DEF Mutated
<1>12. plan' = [active EXCEPT !.at = "ready"]
  BY <1>2, <1>11
<1>13. /\ plan' \in Progress /\ plan'.at = "ready" /\ plan'.calls = active.calls /\ plan'.checked = active.checked
       /\ plan'.graph = active.graph /\ plan'.spec = active.spec /\ plan'.policy = active.policy
       /\ plan'.pin = active.pin /\ plan'.mapped = active.mapped
  BY <1>10, <1>12 DEF Progress, Underway
<1>14. plan'.calls = plan.calls /\ plan'.checked = plan.checked
  BY <1>4, <1>6, <1>8, <1>10, <1>13 DEF Others
<1>15. plan'.mapped = {} \/ (plan'.mapped = plan.mapped /\ plan'.pin["agent"] \in Contents)
  BY <1>4, <1>6, <1>8, <1>10, <1>13
<1>16. plan'.pin["script"] = plan.pin["script"]
  BY <1>4, <1>6, <1>8, <1>10, <1>13
<1>17. PlanBound' /\ PlanNodes' /\ store' = NoStore /\ autoLeg' = NoRunLeg /\ spawned' = <<>>
  BY <1>1, <1>13, Unbound
<1>18. PlanTypeOK'
  <2>1. Progress' = Progress
    BY <1>1 DEF PlannedIds, PlanNode, Progress
  <2> QED BY <2>1, <1>1, <1>13, <1>14, <1>17 DEF PlanInv, PlanTypeOK, Underway
<1>19. ReplyAccepted' /\ ScriptPinned' /\ NotBegun' /\ Drafted'
  BY <1>1, <1>13, <1>16 DEF PlanInv, PlanParts, ReplyAccepted, ScriptPinned, NotBegun, Drafted, Underway
<1>20. MappedFits'
  BY <1>1, <1>13, <1>14, <1>15 DEF PlanInv, PlanParts, MappedFits, PlannedTools, CitesShape
<1>21. Finished'
  <2>1. PlannedIds' = PlannedIds /\ \A n \in PlannedIds : PlannedTools(n)' = PlannedTools(n)
    BY <1>1 DEF PlannedIds, PlannedTools, CitesShape
  <2> SUFFICES ASSUME NEW n \in PlannedIds PROVE SpecOf(n)' /\ GraphOf(n)' /\ PolicyOf(n)'
    BY <1>13, <1>15, <2>1 DEF Finished, Contents, Unpinned, PlanAssumption
  <2>2. plan'.graph[n].needs = answer.nodes[n].needs /\ plan'.graph[n].tools = PlannedTools(n)
    BY <1>d, <1>4, <1>6, <1>8, <1>10, <1>13 DEF Others, FromReply
  <2>3. plan'.spec[n].needs = answer.nodes[n].needs /\ plan'.spec[n].tools = PlannedTools(n)
    BY <1>d, <1>4, <1>6, <1>8, <1>10, <1>13 DEF Others, FromReply
  <2>4. /\ plan'.spec[n].check = PairedCheck(answer.nodes[n].check) /\ ~plan'.spec[n].notice
        /\ plan'.spec[n].agent = (n \in plan'.mapped)
    BY <1>d, <1>4, <1>6, <1>8, <1>10, <1>13
  <2>5. plan'.spec[n].verify = (wish.verify /\ n \in Sinks(answer.nodes))
    BY <1>8, <1>10, <1>13
  <2>6. SpecOf(n)'
    BY <1>1, <2>1, <2>3, <2>4, <2>5 DEF SpecOf, FromReply
  <2>7. /\ plan'.graph[n].check = plan'.spec[n].check /\ plan'.graph[n].agent = plan'.spec[n].agent
        /\ plan'.graph[n].verify = plan'.spec[n].verify
    BY <1>8, <1>10, <1>13
  <2>u. Unpinned \notin Contents
    BY DEF Contents, Unpinned, PlanAssumption
  <2>8. plan'.graph[n].notice => n \notin plan'.mapped /\ plan'.pin["skill"] # Unpinned
    <3>a. plan'.mapped = mapped.mapped
      BY <1>6, <1>8, <1>10, <1>13
    <3>b. mapped.graph[n].agent = (n \in mapped.mapped)
      BY <1>4
    <3>c. attached.graph[n].agent = mapped.graph[n].agent
      BY <1>6, <1>8
    <3>1. attached.graph[n].agent <=> n \in plan'.mapped
      BY <3>a, <3>b, <3>c
    <3>2. plan'.graph[n].notice => ~attached.graph[n].agent /\ plan'.pin["skill"] \in Contents
      BY <1>10, <1>13
    <3> QED BY <3>1, <3>2, <2>u
  <2>9. GraphOf(n)'
    BY <1>1, <2>1, <2>2, <2>7, <2>8 DEF GraphOf, FromReply
  <2>w. PICK b \in BOOLEAN : b = ~wish.loaded
    BY <1>t DEF PlanTypeOK, PlanAssumption
  <2>v. plan.policy[n] = [tools |-> PlannedTools(n), isolated |-> b, dirs |-> {}]
    BY <1>d, <2>w DEF ToolPolicyFor
  <2>10. plan.policy[n].tools = PlannedTools(n) /\ plan.policy[n].isolated = ~wish.loaded
    BY <2>v, <2>w
  <2>11. PolicyOf(n)'
    BY <1>1, <2>1, <2>10, <1>4, <1>6, <1>8, <1>10, <1>13 DEF PolicyOf
  <2> QED BY <2>6, <2>9, <2>11
<1> QED BY <1>17, <1>18, <1>19, <1>20, <1>21 DEF PlanInv, PlanParts

\* The first leg runs the plan, with the staged directories where it says.
LEMMA BindKeeps ==
    ASSUME PlanAssumption, PlanInv, Bind
    PROVE  PlanInv'
<1>1. plan.at = "ready" /\ UNCHANGED <<wish, answer, source>>
  BY DEF Bind
<1>t. plan \in Progress /\ PlanTypeOK
  BY <1>1, PlanIs DEF Underway, PlanInv
<1>2. CASE ~(\A k \in Staged : Restorable(k))
  <2>1. plan' = [plan EXCEPT !.at = "rejected"] /\ UNCHANGED <<copy, store, autoLeg, spawned>>
    BY <1>2 DEF Bind
  <2>2. plan'.at = "rejected" /\ plan'.calls = plan.calls
    BY <2>1, <1>t DEF Progress
  <2> QED BY <1>1, <2>1, <2>2, PlanRejected
<1>3. CASE \A k \in Staged : Restorable(k)
  <2> DEFINE dirs(n) == {k \in Staged : IF k = "agent" THEN plan.graph[n].agent ELSE plan.graph[n].notice}
             policy == [n \in PlannedIds |-> [plan.policy[n] EXCEPT !.dirs = dirs(n)]]
             command == IF wish.verify THEN "given" ELSE "none"
             idle == [n \in PlannedIds |-> NoSpawn]
  <2>d. DOMAIN plan.graph = PlannedIds /\ \A n \in PlannedIds : plan.policy[n] \in Policy
    BY <1>t DEF Progress
  <2>1. /\ plan' = [plan EXCEPT !.at = "bound", !.policy = policy]
        /\ copy' = [k \in Kinds |-> IF k \in Staged THEN Materialized(k) ELSE copy[k]]
        /\ store' = [spec |-> plan.spec, policy |-> policy, script |-> plan.pin["script"]]
        /\ autoLeg' = [no |-> 1, live |-> TRUE, graph |-> plan.graph, policy |-> policy, command |-> command]
        /\ spawned' = idle
    BY <1>3, <2>d DEF Bind
  <2>2. \A n \in PlannedIds : dirs(n) \subseteq Staged /\ dirs(n) \subseteq Kinds
    BY DEF Staged
  <2>3. \A n \in PlannedIds :
          /\ policy[n] \in Policy /\ policy[n].dirs = dirs(n)
          /\ policy[n].tools = plan.policy[n].tools /\ policy[n].isolated = plan.policy[n].isolated
    BY <2>d, <2>2 DEF Policy
  <2>4. policy \in [PlannedIds -> Policy]
    BY <2>3
  <2>5. command \in {"none", "given"} /\ (wish.verify => command = "given")
    OBVIOUS
  <2>6. \A n \in PlannedIds :
          /\ plan.graph[n].agent /\ "agent" \in Staged => "agent" \in dirs(n)
          /\ plan.graph[n].notice /\ "skill" \in Staged => "skill" \in dirs(n)
          /\ "agent" \in dirs(n) => plan.graph[n].agent
    OBVIOUS
  <2>7. NoSpawn \in Spawning /\ NoSpawn.state = "idle" /\ NoSpawn.policy = NoPolicy /\ NoSpawn.leg = 0 /\ NoPolicy.dirs = {}
        /\ ~NoSpawn.verified
    BY DEF NoSpawn, NoPolicy, Spawning, States, Policy, Kinds, Pin, Contents, PlanAssumption
  <2>8. idle \in [PlannedIds -> Spawning] /\ \A n \in PlannedIds : idle[n] = NoSpawn
    BY <2>7
  <2> HIDE DEF dirs, policy, command, idle
  <2>9. /\ plan' \in Progress /\ plan'.at = "bound" /\ plan'.policy = policy /\ plan'.graph = plan.graph
        /\ plan'.spec = plan.spec /\ plan'.pin = plan.pin /\ plan'.mapped = plan.mapped
        /\ plan'.checked = plan.checked /\ plan'.calls = plan.calls
    BY <1>t, <2>1, <2>4 DEF Progress, Underway
  <2>10. PlannedIds' = PlannedIds /\ \A n \in PlannedIds : PlannedTools(n)' = PlannedTools(n)
    BY <1>1 DEF PlannedIds, PlannedTools, CitesShape
  <2>11. Progress' = Progress /\ PlanNode' = PlanNode
    BY <1>1 DEF PlannedIds, PlanNode, Progress
  <2>12. PlanTypeOK'
    <3>1. plan.graph \in [PlannedIds -> PlanNode] /\ plan.spec \in [PlannedIds -> PlanNode] /\ plan.pin["script"] \in Pin
      BY <1>t DEF Progress
    <3>2. store' \in [spec : [PlannedIds -> PlanNode], policy : [PlannedIds -> Policy], script : Pin]
      BY <2>1, <2>4, <3>1
    <3>3. autoLeg' \in [no : 1..MaxRunLegs, live : BOOLEAN, graph : [PlannedIds -> PlanNode],
                        policy : [PlannedIds -> Policy], command : {"none", "given"}]
      BY <2>1, <2>4, <2>5, <3>1 DEF PlanAssumption
    <3>4. copy' \in [Kinds -> [bytes : Pin \cup {Foreign}, planted : BOOLEAN]]
      <4>1. \A k \in Kinds : plan.pin[k] \in Pin
        BY <1>t DEF Progress
      <4> QED BY <1>t, <2>1, <4>1 DEF PlanTypeOK, Materialized
    <3>5. wish' \in Wishes /\ plan'.calls \in 0..(MaxPlanRepairs + 1) /\ source' \in [Sources -> Contents]
      BY <1>t, <1>1, <2>9 DEF PlanTypeOK
    <3>6. spawned' \in [PlannedIds -> Spawning]
      BY <2>1, <2>8
    <3> QED BY <2>9, <2>10, <2>11, <3>2, <3>3, <3>4, <3>5, <3>6 DEF PlanTypeOK, Underway
  <2>13. ReplyAccepted' /\ NotBegun' /\ ScriptPinned' /\ Drafted'
    BY <1>1, <2>9 DEF PlanInv, PlanParts, ReplyAccepted, NotBegun, ScriptPinned, Drafted, Underway
  <2>14. MappedFits'
    BY <1>1, <2>9, <2>10 DEF PlanInv, PlanParts, MappedFits, PlannedTools, CitesShape
  <2>f. /\ \A n \in PlannedIds : SpecOf(n) /\ GraphOf(n) /\ PolicyOf(n)
        /\ plan.mapped # {} => plan.pin["agent"] # Unpinned
    BY <1>1 DEF PlanInv, PlanParts, Finished
  <2>15. Finished'
    <3>1. \A n \in PlannedIds : SpecOf(n)' /\ GraphOf(n)'
      BY <1>1, <2>9, <2>10, <2>f DEF SpecOf, GraphOf, FromReply
    <3>2. \A n \in PlannedIds : PolicyOf(n)'
      BY <1>1, <2>3, <2>9, <2>10, <2>f DEF PolicyOf
    <3> QED BY <2>9, <2>10, <2>f, <3>1, <3>2 DEF Finished
  <2>16. Staged' = Staged
    BY <2>9 DEF Staged
  <2>s. /\ store'.spec = plan.spec /\ store'.policy = policy /\ store'.script = plan.pin["script"]
        /\ autoLeg'.no = 1 /\ autoLeg'.graph = plan.graph /\ autoLeg'.policy = policy /\ autoLeg'.command = command
    BY <2>1
  <2>17. PlanBound'
    <3> SUFFICES ASSUME NEW n \in PlannedIds PROVE LegOf(n)'
      BY <2>5, <2>9, <2>10, <2>s, <1>1 DEF PlanBound
    <3>1. /\ plan.graph[n].needs = answer.nodes[n].needs /\ plan.graph[n].check = PairedCheck(answer.nodes[n].check)
          /\ wish.verify /\ n \in Sinks(answer.nodes) => plan.graph[n].verify
          /\ plan.graph[n].notice => n \notin plan.mapped /\ "skill" \in Staged
          /\ plan.graph[n].agent => n \in plan.mapped /\ "agent" \in Staged
      BY <2>f DEF SpecOf, GraphOf, FromReply, Staged, Kinds
    <3>2. PlannedTools(n) \subseteq Allowlist /\ "Skill" \notin Allowlist
      BY <1>1, SplicedNode DEF PlanAssumption, PlanInv, PlanParts, Underway
    <3>3. policy[n].tools \ {"Skill"} = PlannedTools(n) /\ (("Skill" \in policy[n].tools) <=> plan.graph[n].notice)
      BY <2>3, <2>f, <3>2 DEF PolicyOf
    <3>b. plan.graph[n].notice \in BOOLEAN
      BY <1>t DEF Progress, PlanNode
    <3>4. policy[n].isolated = ~wish.loaded
      BY <2>3, <2>f DEF PolicyOf
    <3>5. Given(policy[n], plan.graph[n].notice, plan.graph[n].agent, 1, n)
      BY <2>3, <2>6, <3>1, <3>3, <3>4, <3>b DEF Given
    <3>6. Given(autoLeg.policy[n], autoLeg.graph[n].notice, autoLeg.graph[n].agent, autoLeg.no, n)'
      BY <1>1, <2>10, <2>s, <3>5 DEF Given
    <3>7. Sinks(answer.nodes)' = Sinks(answer.nodes)
      BY <1>1 DEF Sinks
    <3>8. policy[n].dirs \subseteq Staged /\ ("agent" \in policy[n].dirs => n \in plan.mapped)
      BY <2>2, <2>3, <2>6, <3>1
    <3> QED BY <1>1, <2>9, <2>16, <2>s, <3>1, <3>6, <3>7, <3>8 DEF LegOf
  <2>18. PlanNodes'
    <3> SUFFICES ASSUME NEW n \in PlannedIds PROVE GivenTo(n)' /\ ReadBy(n)' /\ JudgedAs(n)' /\ InOrder(n)'
      BY <2>9, <2>10 DEF PlanNodes
    <3>1. spawned'[n] = NoSpawn
      BY <2>1, <2>8
    <3> QED BY <3>1, <2>7 DEF GivenTo, ReadBy, JudgedAs, InOrder
  <2> QED BY <2>12, <2>13, <2>14, <2>15, <2>17, <2>18 DEF PlanInv, PlanParts
<1> QED BY <1>2, <1>3

----------------------------------------------------------------------------
(* The legs. *)

\* What a leg runs of a node, while the plan, the store and the leg stand.
LEMMA BoundStands ==
    ASSUME PlanBound, UNCHANGED <<wish, answer, plan, store>>,
           autoLeg'.no = autoLeg.no, autoLeg'.graph = autoLeg.graph, autoLeg'.policy = autoLeg.policy,
           autoLeg'.command = autoLeg.command
    PROVE  PlanBound'
<1> SUFFICES ASSUME plan.at = "bound", NEW n \in PlannedIds PROVE LegOf(n)'
  BY DEF PlanBound, PlannedIds
<1>1. LegOf(n)
  BY DEF PlanBound
<1>2. PlannedTools(n)' = PlannedTools(n) /\ Staged' = Staged /\ Sinks(answer.nodes)' = Sinks(answer.nodes)
  BY DEF PlannedTools, CitesShape, Staged, Sinks
<1> QED BY <1>1, <1>2 DEF LegOf, Given

\* A node that a step leaves alone is as it was, if its copies and its parents are.
LEMMA NodeStands ==
    ASSUME PlanTypeOK, plan.at = "bound", NEW n \in PlannedIds, GivenTo(n), ReadBy(n), JudgedAs(n), InOrder(n),
           UNCHANGED <<wish, answer, plan>>, spawned'[n] = spawned[n],
           \A k \in Staged : copy[k] = Materialized(k) => copy'[k] = Materialized(k),
           \A p \in answer.nodes[n].needs : spawned[p].state = "PASS" => spawned'[p].state = "PASS"
    PROVE  GivenTo(n)' /\ ReadBy(n)' /\ JudgedAs(n)' /\ InOrder(n)'
<1>1. PlannedTools(n)' = PlannedTools(n) /\ Staged' = Staged /\ Sinks(answer.nodes)' = Sinks(answer.nodes)
  BY DEF PlannedTools, CitesShape, Staged, Sinks
<1>2. \A k \in Kinds : Materialized(k)' = Materialized(k)
  BY DEF Materialized
<1>3. GivenTo(n)'
  BY <1>1 DEF GivenTo, Given
<1>4. ReadBy(n)'
  <2>1. spawned[n].policy.dirs \subseteq Staged /\ Staged \subseteq Kinds
    BY DEF GivenTo, Staged
  <2> QED BY <1>2, <2>1 DEF ReadBy, Materialized
<1>5. JudgedAs(n)'
  BY <1>1 DEF JudgedAs
<1>6. InOrder(n)'
  BY DEF InOrder
<1> QED BY <1>3, <1>4, <1>5, <1>6

\* A step of one node, which has not passed, in a leg under way.
LEMMA NodeMoves ==
    ASSUME PlanAssumption, PlanInv, plan.at = "bound", NEW n \in PlannedIds, NEW rec \in Spawning, NodeBecomes(n, rec),
           UNCHANGED <<wish, answer, plan, source, store, autoLeg>>, spawned[n].state # "PASS",
           copy' \in [Kinds -> [bytes : Pin \cup {Foreign}, planted : BOOLEAN]],
           \A k \in Staged : copy[k] = Materialized(k) => copy'[k] = Materialized(k),
           rec.policy # NoPolicy => Given(rec.policy, rec.notice, rec.agent, rec.leg, n),
           rec.policy.dirs \subseteq Staged, "agent" \in rec.policy.dirs => n \in plan.mapped,
           ~rec.exposed => \A k \in rec.policy.dirs :
              /\ rec.state = "starting" => copy'[k] = Materialized(k)
              /\ rec.state \notin {"idle", "starting", "FAIL"} => rec.read[k] = plan.pin[k],
           rec.state \in {"verifying", "judging", "PASS"} /\ rec.code # 0 => answer.nodes[n].check = {},
           rec.state = "PASS" /\ rec.code # 0 => rec.verified, rec.state # "PASS" => ~rec.verified,
           rec.state = "PASS" /\ n \in Sinks(answer.nodes) /\ wish.verify => rec.verified,
           rec.state = "PASS" /\ rec.verified /\ wish.verify => rec.ran = 0,
           rec.state # "idle", rec.leg > 0,
           \A p \in answer.nodes[n].needs : spawned[p].state = "PASS"
    PROVE  PlanInv'
<1>1. PlanTypeOK /\ spawned \in [PlannedIds -> Spawning]
  BY DEF PlanInv, PlanTypeOK
<1>2. spawned' = [spawned EXCEPT ![n] = rec] /\ spawned' \in [PlannedIds -> Spawning] /\ spawned'[n] = rec
  BY <1>1 DEF NodeBecomes
<1>3. PlanTypeOK'
  BY <1>1, <1>2 DEF PlanTypeOK, PlannedIds, PlanNode, Progress
<1>4. PlanParts' /\ PlanBound'
  BY PlanStands, BoundStands DEF PlanInv
<1>5. \A p \in PlannedIds : spawned[p].state = "PASS" => spawned'[p].state = "PASS"
  BY <1>1, <1>2
<1>6. answer.nodes[n].needs \subseteq PlannedIds
  BY SplicedNode DEF PlanInv, PlanParts, Underway
<1>7. PlannedTools(n)' = PlannedTools(n) /\ Staged' = Staged /\ Sinks(answer.nodes)' = Sinks(answer.nodes)
      /\ PlannedIds' = PlannedIds
  BY DEF PlannedTools, CitesShape, Staged, Sinks, PlannedIds
<1>8. \A k \in Kinds : Materialized(k)' = Materialized(k)
  BY DEF Materialized
<1>9. GivenTo(n)'
  BY <1>2, <1>7 DEF GivenTo, Given
<1>10. ReadBy(n)'
  <2>1. rec.policy.dirs \subseteq Kinds
    BY DEF Spawning, Policy
  <2> QED BY <1>2, <1>8, <2>1 DEF ReadBy, Materialized
<1>11. JudgedAs(n)'
  BY <1>2, <1>7 DEF JudgedAs
<1>12. InOrder(n)'
  BY <1>2, <1>5, <1>6 DEF InOrder
<1>13. ASSUME NEW m \in PlannedIds, m # n PROVE GivenTo(m)' /\ ReadBy(m)' /\ JudgedAs(m)' /\ InOrder(m)'
  <2>1. GivenTo(m) /\ ReadBy(m) /\ JudgedAs(m) /\ InOrder(m)
    BY DEF PlanInv, PlanNodes
  <2>2. answer.nodes[m].needs \subseteq PlannedIds
    BY SplicedNode DEF PlanInv, PlanParts, Underway
  <2>3. spawned'[m] = spawned[m]
    BY <1>1, <1>2, <1>13
  <2> QED BY <1>1, <1>5, <2>1, <2>2, <2>3, NodeStands
<1>14. PlanNodes'
  BY <1>7, <1>9, <1>10, <1>11, <1>12, <1>13 DEF PlanNodes
<1> QED BY <1>3, <1>4, <1>14 DEF PlanInv

\* What is known of a node that a leg moves.
LEMMA NodeKnown ==
    ASSUME PlanAssumption, PlanInv, NEW n \in DOMAIN spawned
    PROVE  /\ plan.at = "bound" /\ n \in PlannedIds /\ spawned \in [PlannedIds -> Spawning] /\ spawned[n] \in Spawning
           /\ copy \in [Kinds -> [bytes : Pin \cup {Foreign}, planted : BOOLEAN]]
           /\ autoLeg \in [no : 1..MaxRunLegs, live : BOOLEAN, graph : [PlannedIds -> PlanNode],
                           policy : [PlannedIds -> Policy], command : {"none", "given"}]
           /\ autoLeg.no \in Nat /\ autoLeg.no > 0
           /\ GivenTo(n) /\ ReadBy(n) /\ JudgedAs(n) /\ InOrder(n) /\ LegOf(n)
           /\ plan.pin \in [Kinds \cup {"script"} -> Pin] /\ Staged \subseteq Kinds
           /\ store.script = plan.pin["script"] /\ plan.pin["script"] = IF wish.verify THEN 0 ELSE Unpinned
           /\ wish.verify \in BOOLEAN
           /\ answer.nodes[n].needs \subseteq PlannedIds /\ answer.nodes[n].check \subseteq Checks
<1>1. plan.at = "bound"
  BY NothingRuns
<1>2. spawned \in [PlannedIds -> Spawning] /\ copy \in [Kinds -> [bytes : Pin \cup {Foreign}, planted : BOOLEAN]]
      /\ autoLeg \in [no : 1..MaxRunLegs, live : BOOLEAN, graph : [PlannedIds -> PlanNode],
                      policy : [PlannedIds -> Policy], command : {"none", "given"}]
      /\ wish.verify \in BOOLEAN
  BY <1>1 DEF PlanInv, PlanTypeOK, PlanAssumption
<1>3. n \in PlannedIds /\ spawned[n] \in Spawning
  BY <1>2
<1>4. autoLeg.no \in Nat /\ autoLeg.no > 0
  BY <1>2 DEF PlanAssumption
<1>5. GivenTo(n) /\ ReadBy(n) /\ JudgedAs(n) /\ InOrder(n) /\ LegOf(n) /\ store.script = plan.pin["script"]
  BY <1>1, <1>3 DEF PlanInv, PlanNodes, PlanBound
<1>6. plan.pin \in [Kinds \cup {"script"} -> Pin] /\ plan.pin["script"] = IF wish.verify THEN 0 ELSE Unpinned
  BY <1>1, PlanIs DEF Progress, Underway, PlanInv, PlanParts, ScriptPinned
<1>7. answer.nodes[n].needs \subseteq PlannedIds /\ answer.nodes[n].check \subseteq Checks
  BY <1>1, <1>3, SplicedNode DEF PlanInv, PlanParts, Underway
<1> QED BY <1>1, <1>2, <1>3, <1>4, <1>5, <1>6, <1>7 DEF Staged

\* The record of a node nobody has spawned.
LEMMA NoSpawnTyped ==
    ASSUME PlanAssumption
    PROVE  /\ NoSpawn \in Spawning /\ NoSpawn.state = "idle" /\ NoSpawn.policy = NoPolicy /\ NoSpawn.leg = 0
           /\ NoPolicy.dirs = {} /\ ~NoSpawn.exposed /\ ~NoSpawn.verified /\ NoSpawn.code = 0
BY DEF NoSpawn, NoPolicy, Spawning, States, Policy, Kinds, Pin, Contents, PlanAssumption

\* A copy that is as planned can be restored; restoring leaves it so.
LEMMA PlannedCopies ==
    ASSUME NEW k, copy[k] = Materialized(k)
    PROVE  Restorable(k) /\ copy[k].bytes = plan.pin[k] /\ ~copy[k].planted
BY DEF Restorable, Materialized

\* A node is given what its leg has for it, over copies made good; or fails before
\* it is given anything.
LEMMA SpawnNodeKeeps ==
    ASSUME PlanAssumption, PlanInv, NEW n \in DOMAIN spawned, SpawnNode(n)
    PROVE  PlanInv'
<1>1. autoLeg.live /\ spawned[n].state = "idle" /\ UNCHANGED <<wish, answer, plan, source, store, autoLeg>>
      /\ \A p \in autoLeg.graph[n].needs : spawned[p].state = "PASS"
  BY DEF SpawnNode
<1>2. /\ plan.at = "bound" /\ n \in PlannedIds
      /\ copy \in [Kinds -> [bytes : Pin \cup {Foreign}, planted : BOOLEAN]]
      /\ autoLeg \in [no : 1..MaxRunLegs, live : BOOLEAN, graph : [PlannedIds -> PlanNode],
                      policy : [PlannedIds -> Policy], command : {"none", "given"}]
      /\ autoLeg.no \in Nat /\ autoLeg.no > 0 /\ LegOf(n)
      /\ plan.pin \in [Kinds \cup {"script"} -> Pin] /\ Staged \subseteq Kinds
  BY NodeKnown
<1>3. \A p \in answer.nodes[n].needs : spawned[p].state = "PASS"
  BY <1>1, <1>2 DEF LegOf
<1>4. \A k \in Kinds : plan.pin[k] \in Pin /\ Materialized(k) = [bytes |-> plan.pin[k], planted |-> FALSE]
                       /\ Materialized(k) \in [bytes : Pin \cup {Foreign}, planted : BOOLEAN]
  BY <1>2 DEF Materialized
<1>5. StagedHere \subseteq Staged /\ (autoLeg.no = 1 => StagedHere = Staged)
  BY DEF StagedHere
<1>6. CASE \A k \in StagedHere : Restorable(k)
  <2>1. copy' = [k \in Kinds |-> IF k \in StagedHere THEN Materialized(k) ELSE copy[k]]
    BY <1>6 DEF SpawnNode
  <2>2. /\ copy' \in [Kinds -> [bytes : Pin \cup {Foreign}, planted : BOOLEAN]]
        /\ \A k \in Staged : copy[k] = Materialized(k) => copy'[k] = Materialized(k)
        /\ \A k \in StagedHere : copy'[k] = Materialized(k)
    BY <1>2, <1>4, <1>5, <2>1
  <2>3. PICK notice \in BOOLEAN, agent \in BOOLEAN : notice = autoLeg.graph[n].notice /\ agent = autoLeg.graph[n].agent
    BY <1>2 DEF PlanNode
  <2>4. PICK rec : rec = [NoSpawn EXCEPT !.state = "starting", !.policy = autoLeg.policy[n], !.leg = autoLeg.no,
                                         !.notice = notice, !.agent = agent]
    OBVIOUS
  <2>5. NodeBecomes(n, rec)
    BY <1>6, <2>3, <2>4 DEF SpawnNode
  <2>6. rec.state = "starting" /\ rec.policy = autoLeg.policy[n] /\ rec.leg = autoLeg.no
        /\ rec.notice = notice /\ rec.agent = agent /\ rec \in Spawning /\ rec.verified = NoSpawn.verified
    <3>1. "starting" \in States /\ autoLeg.policy[n] \in Policy /\ autoLeg.no \in 0..MaxRunLegs /\ NoSpawn \in Spawning
      BY <1>2, NoSpawnTyped DEF States
    <3>2. PICK base \in Spawning : base = NoSpawn
      BY <3>1
    <3>3. PICK policy \in Policy : policy = autoLeg.policy[n]
      BY <3>1
    <3>4. PICK leg \in 0..MaxRunLegs : leg = autoLeg.no
      BY <3>1
    <3>5. rec = [base EXCEPT !.state = "starting", !.policy = policy, !.leg = leg, !.notice = notice, !.agent = agent]
      BY <2>4, <3>2, <3>3, <3>4
    <3>6. /\ rec \in Spawning /\ rec.state = "starting" /\ rec.policy = policy /\ rec.leg = leg
          /\ rec.notice = notice /\ rec.agent = agent /\ rec.verified = base.verified
      BY <2>3, <3>1, <3>5 DEF Spawning
    <3> QED BY <3>2, <3>3, <3>4, <3>6
  <2>7. Given(rec.policy, rec.notice, rec.agent, rec.leg, n)
    BY <1>2, <2>3, <2>6 DEF LegOf
  <2>8. rec.policy.dirs \subseteq Staged /\ ("agent" \in rec.policy.dirs => n \in plan.mapped)
    BY <1>2, <2>6 DEF LegOf
  <2>9. \A k \in rec.policy.dirs : copy'[k] = Materialized(k)
    BY <1>2, <1>5, <2>2, <2>6 DEF LegOf
  <2>10. ~rec.verified
    BY <2>6, NoSpawnTyped
  <2> QED BY <1>1, <1>2, <1>3, <2>2, <2>5, <2>6, <2>7, <2>8, <2>9, <2>10, NodeMoves
<1>7. CASE ~(\A k \in StagedHere : Restorable(k))
  <2> DEFINE reached(k) == k \in StagedHere /\ (k = "agent" \/ "agent" \notin StagedHere \/ Restorable("agent"))
  <2>1. copy' = [k \in Kinds |->
                   IF reached(k)
                   THEN [copy[k] EXCEPT !.planted = FALSE, !.bytes = IF Restorable(k) THEN plan.pin[k] ELSE @]
                   ELSE copy[k]]
    BY <1>7 DEF SpawnNode
  <2> HIDE DEF reached
  <2>2. ASSUME NEW k \in Kinds
        PROVE  copy'[k] \in [bytes : Pin \cup {Foreign}, planted : BOOLEAN] /\ (copy[k] = Materialized(k) => copy'[k] = Materialized(k))
    <3>1. copy[k] \in [bytes : Pin \cup {Foreign}, planted : BOOLEAN]
      BY <1>2
    <3>2. CASE ~reached(k)
      BY <2>1, <3>1, <3>2
    <3>3. CASE reached(k) /\ Restorable(k)
      <4>1. copy'[k] = [copy[k] EXCEPT !.planted = FALSE, !.bytes = plan.pin[k]]
        BY <2>1, <3>3
      <4>2. copy'[k] = [bytes |-> plan.pin[k], planted |-> FALSE]
        BY <3>1, <4>1
      <4> QED BY <4>2, <1>4
    <3>4. CASE reached(k) /\ ~Restorable(k)
      <4>1. copy'[k] = [copy[k] EXCEPT !.planted = FALSE, !.bytes = copy[k].bytes]
        BY <2>1, <3>4
      <4>2. copy'[k] \in [bytes : Pin \cup {Foreign}, planted : BOOLEAN]
        BY <3>1, <4>1
      <4> QED BY <3>4, <4>2, PlannedCopies
    <3> QED BY <3>2, <3>3, <3>4
  <2>3. copy' \in [Kinds -> [bytes : Pin \cup {Foreign}, planted : BOOLEAN]]
        /\ \A k \in Staged : copy[k] = Materialized(k) => copy'[k] = Materialized(k)
    <3>1. DOMAIN copy' = Kinds /\ copy' = [k \in Kinds |-> copy'[k]]
      BY <2>1
    <3> QED BY <1>2, <2>2, <3>1
  <2>4. PICK rec : rec = [NoSpawn EXCEPT !.state = "FAIL", !.leg = autoLeg.no]
    OBVIOUS
  <2>5. NodeBecomes(n, rec)
    BY <1>7, <2>4 DEF SpawnNode
  <2>6. /\ rec.state = "FAIL" /\ rec.policy = NoPolicy /\ rec.leg = autoLeg.no /\ rec \in Spawning /\ NoPolicy.dirs = {}
        /\ ~rec.verified
    <3>1. "FAIL" \in States /\ autoLeg.no \in 0..MaxRunLegs
      BY <1>2 DEF States
    <3>2. PICK base \in Spawning : base = NoSpawn
      BY NoSpawnTyped
    <3>3. PICK leg \in 0..MaxRunLegs : leg = autoLeg.no
      BY <3>1
    <3>4. rec = [base EXCEPT !.state = "FAIL", !.leg = leg]
      BY <2>4, <3>2, <3>3
    <3>5. rec \in Spawning /\ rec.state = "FAIL" /\ rec.policy = base.policy /\ rec.leg = leg /\ rec.verified = base.verified
      BY <3>1, <3>4 DEF Spawning
    <3> QED BY <3>2, <3>3, <3>5, NoSpawnTyped
  <2> QED BY <1>1, <1>2, <1>3, <2>3, <2>5, <2>6, NodeMoves
<1> QED BY <1>6, <1>7

\* What a node reads is what lies in the directories it was given.
LEMMA NodeReadsKeeps ==
    ASSUME PlanAssumption, PlanInv, NEW n \in DOMAIN spawned, NodeReads(n)
    PROVE  PlanInv'
<1>1. /\ autoLeg.live /\ spawned[n].state = "starting" /\ UNCHANGED <<wish, answer, plan, copy, source, store, autoLeg>>
  BY DEF NodeReads
<1> DEFINE read == [k \in Kinds |-> IF k \notin spawned[n].policy.dirs THEN Unpinned
                                   ELSE IF copy[k].planted THEN Foreign ELSE copy[k].bytes]
<1>2. NodeBecomes(n, [spawned[n] EXCEPT !.state = "running", !.read = read])
  BY DEF NodeReads
<1>3. /\ plan.at = "bound" /\ n \in PlannedIds /\ spawned[n] \in Spawning
      /\ copy \in [Kinds -> [bytes : Pin \cup {Foreign}, planted : BOOLEAN]]
      /\ GivenTo(n) /\ ReadBy(n) /\ JudgedAs(n) /\ InOrder(n) /\ Staged \subseteq Kinds
  BY NodeKnown
<1>4. read \in [Kinds -> Pin \cup {Foreign}]
  BY <1>3 DEF Pin
<1>5. ~spawned[n].exposed => \A k \in spawned[n].policy.dirs : read[k] = plan.pin[k]
  <2> SUFFICES ASSUME ~spawned[n].exposed, NEW k \in spawned[n].policy.dirs PROVE read[k] = plan.pin[k]
    OBVIOUS
  <2>1. copy[k] = Materialized(k) /\ k \in Kinds
    BY <1>1, <1>3 DEF ReadBy, GivenTo
  <2> QED BY <2>1, PlannedCopies
<1> HIDE DEF read
<1>6. PICK rec : rec = [spawned[n] EXCEPT !.state = "running", !.read = read]
  OBVIOUS
<1>7. /\ rec \in Spawning /\ rec.state = "running" /\ rec.read = read /\ rec.policy = spawned[n].policy
      /\ rec.notice = spawned[n].notice /\ rec.agent = spawned[n].agent /\ rec.leg = spawned[n].leg
      /\ rec.exposed = spawned[n].exposed /\ rec.verified = spawned[n].verified
  BY <1>3, <1>4, <1>6 DEF Spawning, States
<1>8. rec.policy # NoPolicy => Given(rec.policy, rec.notice, rec.agent, rec.leg, n)
  BY <1>3, <1>7 DEF GivenTo
<1>9. rec.policy.dirs \subseteq Staged /\ ("agent" \in rec.policy.dirs => n \in plan.mapped)
  BY <1>3, <1>7 DEF GivenTo
<1>10. rec.leg > 0 /\ \A p \in answer.nodes[n].needs : spawned[p].state = "PASS"
  BY <1>1, <1>3, <1>7 DEF InOrder
<1>11. ~rec.exposed => \A k \in rec.policy.dirs : rec.read[k] = plan.pin[k]
  BY <1>5, <1>7
<1>12. NodeBecomes(n, rec)
  BY <1>2, <1>6
<1>13. ~rec.verified
  BY <1>1, <1>3, <1>7 DEF JudgedAs
<1> QED BY <1>1, <1>3, <1>7, <1>8, <1>9, <1>10, <1>11, <1>12, <1>13, NodeMoves

\* A failing exit gets no further than a verification, and only where the reply
\* declared no check.
LEMMA NodeAnswersKeeps ==
    ASSUME PlanAssumption, PlanInv, NEW n \in DOMAIN spawned, NEW code \in 0..1, NEW matches \in BOOLEAN,
           NodeAnswers(n, code, matches)
    PROVE  PlanInv'
<1>1. /\ autoLeg.live /\ spawned[n].state = "running" /\ UNCHANGED <<wish, answer, plan, copy, source, store, autoLeg>>
  BY DEF NodeAnswers
<1> DEFINE next == IF ~CheckHolds(autoLeg.graph[n], code, matches) THEN "FAIL"
                   ELSE IF autoLeg.graph[n].verify THEN "verifying" ELSE "PASS"
<1>2. NodeBecomes(n, [spawned[n] EXCEPT !.code = code, !.state = next])
  BY DEF NodeAnswers
<1>3. /\ plan.at = "bound" /\ n \in PlannedIds /\ spawned[n] \in Spawning
      /\ copy \in [Kinds -> [bytes : Pin \cup {Foreign}, planted : BOOLEAN]]
      /\ GivenTo(n) /\ ReadBy(n) /\ JudgedAs(n) /\ InOrder(n) /\ LegOf(n) /\ answer.nodes[n].check \subseteq Checks
  BY NodeKnown
<1>4. next \in {"FAIL", "verifying", "PASS"} /\ next \in States
  BY DEF States
<1>5. next \in {"verifying", "PASS"} /\ code # 0 => answer.nodes[n].check = {} /\ next = "verifying"
  <2> SUFFICES ASSUME next # "FAIL", code # 0 PROVE answer.nodes[n].check = {} /\ next = "verifying"
    OBVIOUS
  <2>1. CheckHolds(autoLeg.graph[n], code, matches)
    OBVIOUS
  <2>2. ~IsZero(autoLeg.graph[n]) /\ "exit_zero" \notin autoLeg.graph[n].check
    BY <2>1 DEF CheckHolds
  <2>3. autoLeg.graph[n].check = PairedCheck(answer.nodes[n].check)
    BY <1>3 DEF LegOf
  <2>4. "result_matches" \notin answer.nodes[n].check /\ "exit_zero" \notin answer.nodes[n].check
    BY <2>2, <2>3 DEF PairedCheck
  <2>5. answer.nodes[n].check = {} /\ autoLeg.graph[n].check = {}
    BY <1>3, <2>3, <2>4 DEF Checks, PairedCheck
  <2>6. autoLeg.graph[n].verify
    BY <2>2, <2>5 DEF IsZero
  <2> QED BY <2>1, <2>5, <2>6
<1>6. wish.verify /\ n \in Sinks(answer.nodes) => next # "PASS"
  BY <1>3 DEF LegOf
<1> HIDE DEF next
<1>7. PICK rec : rec = [spawned[n] EXCEPT !.code = code, !.state = next]
  OBVIOUS
<1>8. /\ rec \in Spawning /\ rec.state = next /\ rec.code = code /\ rec.policy = spawned[n].policy
      /\ rec.notice = spawned[n].notice /\ rec.agent = spawned[n].agent /\ rec.leg = spawned[n].leg
      /\ rec.exposed = spawned[n].exposed /\ rec.read = spawned[n].read
      /\ rec.verified = spawned[n].verified /\ rec.ran = spawned[n].ran
  BY <1>3, <1>4, <1>7 DEF Spawning
<1>9. rec.policy # NoPolicy => Given(rec.policy, rec.notice, rec.agent, rec.leg, n)
  BY <1>3, <1>8 DEF GivenTo
<1>10. rec.policy.dirs \subseteq Staged /\ ("agent" \in rec.policy.dirs => n \in plan.mapped)
  BY <1>3, <1>8 DEF GivenTo
<1>11. rec.leg > 0 /\ \A p \in answer.nodes[n].needs : spawned[p].state = "PASS"
  BY <1>1, <1>3, <1>8 DEF InOrder
<1>12. ~rec.exposed => \A k \in rec.policy.dirs : rec.read[k] = plan.pin[k]
  BY <1>1, <1>3, <1>8 DEF ReadBy
<1>13. NodeBecomes(n, rec)
  BY <1>2, <1>7
<1>14. ~rec.verified
  BY <1>1, <1>3, <1>8 DEF JudgedAs
<1> QED BY <1>1, <1>3, <1>4, <1>5, <1>6, <1>8, <1>9, <1>10, <1>11, <1>12, <1>13, <1>14, NodeMoves

\* A node under verification goes on, fails, or passes verified.
LEMMA NodeJudged ==
    ASSUME PlanAssumption, PlanInv, NEW n \in DOMAIN spawned, spawned[n].state \in {"verifying", "judging"},
           UNCHANGED <<wish, answer, plan, copy, source, store, autoLeg>>,
           NEW rec \in Spawning, NodeBecomes(n, rec), rec.state \in {"judging", "PASS", "FAIL"},
           rec.policy = spawned[n].policy, rec.notice = spawned[n].notice, rec.agent = spawned[n].agent,
           rec.leg = spawned[n].leg, rec.exposed = spawned[n].exposed, rec.read = spawned[n].read,
           rec.code = spawned[n].code, rec.verified <=> rec.state = "PASS",
           rec.state = "PASS" /\ wish.verify => rec.ran = 0
    PROVE  PlanInv'
<1>3. /\ plan.at = "bound" /\ n \in PlannedIds /\ spawned[n] \in Spawning
      /\ copy \in [Kinds -> [bytes : Pin \cup {Foreign}, planted : BOOLEAN]]
      /\ GivenTo(n) /\ ReadBy(n) /\ JudgedAs(n) /\ InOrder(n)
  BY NodeKnown
<1>9. rec.policy # NoPolicy => Given(rec.policy, rec.notice, rec.agent, rec.leg, n)
  BY <1>3 DEF GivenTo
<1>10. rec.policy.dirs \subseteq Staged /\ ("agent" \in rec.policy.dirs => n \in plan.mapped)
  BY <1>3 DEF GivenTo
<1>11. rec.leg > 0 /\ \A p \in answer.nodes[n].needs : spawned[p].state = "PASS"
  BY <1>3 DEF InOrder
<1>12. ~rec.exposed => \A k \in rec.policy.dirs : rec.read[k] = plan.pin[k]
  BY <1>3 DEF ReadBy
<1>13. rec.code # 0 => answer.nodes[n].check = {}
  BY <1>3 DEF JudgedAs
<1> QED BY <1>3, <1>9, <1>10, <1>11, <1>12, <1>13, NodeMoves

\* What the verification of a run launched with one ran is what was pinned then.
LEMMA PinnedRuns ==
    ASSUME PlanAssumption, PlanInv, NEW n \in DOMAIN spawned, PinHolds, wish.verify
    PROVE  source["script"] = 0
<1>1. store.script = 0
  BY NodeKnown
<1>2. Unpinned # 0
  BY DEF Unpinned, PlanAssumption
<1> QED BY <1>1, <1>2 DEF PinHolds

\* A verification begins.
LEMMA VerifyStartsKeeps ==
    ASSUME PlanAssumption, PlanInv, NEW n \in DOMAIN spawned, VerifyStarts(n)
    PROVE  PlanInv'
<1>1. spawned[n].state = "verifying" /\ UNCHANGED <<wish, answer, plan, copy, source, store, autoLeg>>
  BY DEF VerifyStarts
<1>2. spawned[n] \in Spawning /\ JudgedAs(n)
  BY NodeKnown
<1>3. source["script"] \in Pin
  BY DEF PlanInv, PlanTypeOK, Sources, Pin
<1>4. CASE PinHolds
  <2>1. PICK rec : rec = [spawned[n] EXCEPT !.state = "judging", !.ran = source["script"]]
    OBVIOUS
  <2>2. NodeBecomes(n, rec)
    BY <1>4, <2>1 DEF VerifyStarts
  <2>3. /\ rec \in Spawning /\ rec.state = "judging" /\ rec.policy = spawned[n].policy
        /\ rec.notice = spawned[n].notice /\ rec.agent = spawned[n].agent /\ rec.leg = spawned[n].leg
        /\ rec.exposed = spawned[n].exposed /\ rec.read = spawned[n].read /\ rec.code = spawned[n].code
        /\ rec.verified = spawned[n].verified
    BY <1>2, <1>3, <2>1 DEF Spawning, States
  <2>4. ~rec.verified
    BY <1>1, <1>2, <2>3 DEF JudgedAs
  <2> QED BY <1>1, <2>2, <2>3, <2>4, NodeJudged
<1>5. CASE ~PinHolds
  <2>1. PICK rec : rec = [spawned[n] EXCEPT !.state = "FAIL"]
    OBVIOUS
  <2>2. NodeBecomes(n, rec)
    BY <1>5, <2>1 DEF VerifyStarts, Settled
  <2>3. /\ rec \in Spawning /\ rec.state = "FAIL" /\ rec.policy = spawned[n].policy
        /\ rec.notice = spawned[n].notice /\ rec.agent = spawned[n].agent /\ rec.leg = spawned[n].leg
        /\ rec.exposed = spawned[n].exposed /\ rec.read = spawned[n].read /\ rec.code = spawned[n].code
        /\ rec.verified = spawned[n].verified
    BY <1>2, <2>1 DEF Spawning, States
  <2>4. ~rec.verified
    BY <1>1, <1>2, <2>3 DEF JudgedAs
  <2> QED BY <1>1, <2>2, <2>3, <2>4, NodeJudged
<1> QED BY <1>4, <1>5

\* A verification ends.
LEMMA VerifyEndsKeeps ==
    ASSUME PlanAssumption, PlanInv, NEW n \in DOMAIN spawned, NEW agrees \in BOOLEAN, VerifyEnds(n, agrees)
    PROVE  PlanInv'
<1>1. spawned[n].state = "judging" /\ UNCHANGED <<wish, answer, plan, copy, source, store, autoLeg>>
  BY DEF VerifyEnds
<1>2. spawned[n] \in Spawning /\ JudgedAs(n)
  BY NodeKnown
<1>3. source["script"] \in Pin
  BY DEF PlanInv, PlanTypeOK, Sources, Pin
<1>4. CASE PinHolds /\ agrees
  <2>1. PICK rec : rec = [spawned[n] EXCEPT !.state = "PASS", !.verified = TRUE, !.ran = source["script"]]
    OBVIOUS
  <2>2. NodeBecomes(n, rec)
    BY <1>4, <2>1 DEF VerifyEnds
  <2>3. /\ rec \in Spawning /\ rec.state = "PASS" /\ rec.policy = spawned[n].policy
        /\ rec.notice = spawned[n].notice /\ rec.agent = spawned[n].agent /\ rec.leg = spawned[n].leg
        /\ rec.exposed = spawned[n].exposed /\ rec.read = spawned[n].read /\ rec.code = spawned[n].code
        /\ rec.verified /\ rec.ran = source["script"]
    BY <1>2, <1>3, <2>1 DEF Spawning, States
  <2>4. wish.verify => rec.ran = 0
    BY <1>4, <2>3, PinnedRuns
  <2> QED BY <1>1, <2>2, <2>3, <2>4, NodeJudged
<1>5. CASE ~(PinHolds /\ agrees)
  <2>1. PICK rec : rec = [spawned[n] EXCEPT !.state = "FAIL"]
    OBVIOUS
  <2>2. NodeBecomes(n, rec)
    BY <1>5, <2>1 DEF VerifyEnds, Settled
  <2>3. /\ rec \in Spawning /\ rec.state = "FAIL" /\ rec.policy = spawned[n].policy
        /\ rec.notice = spawned[n].notice /\ rec.agent = spawned[n].agent /\ rec.leg = spawned[n].leg
        /\ rec.exposed = spawned[n].exposed /\ rec.read = spawned[n].read /\ rec.code = spawned[n].code
        /\ rec.verified = spawned[n].verified
    BY <1>2, <2>1 DEF Spawning, States
  <2>4. ~rec.verified
    BY <1>1, <1>2, <2>3 DEF JudgedAs
  <2> QED BY <1>1, <2>2, <2>3, <2>4, NodeJudged
<1> QED BY <1>4, <1>5

\* A copy altered while nodes wait to read it exposes those nodes, and no other.
LEMMA TamperKeeps ==
    ASSUME PlanAssumption, PlanInv, NEW n \in DOMAIN spawned, NEW k \in Kinds, TamperWithCopy(n, k)
    PROVE  PlanInv'
<1>1. /\ k \in Staged /\ UNCHANGED <<wish, answer, plan, source, store, autoLeg>>
      /\ copy' = [copy EXCEPT ![k].bytes = Foreign] \/ copy' = [copy EXCEPT ![k].planted = TRUE]
      /\ spawned' = [m \in DOMAIN spawned |->
                      IF spawned[m].state = "starting" THEN [spawned[m] EXCEPT !.exposed = TRUE] ELSE spawned[m]]
  BY DEF TamperWithCopy
<1>2. /\ plan.at = "bound" /\ spawned \in [PlannedIds -> Spawning]
      /\ copy \in [Kinds -> [bytes : Pin \cup {Foreign}, planted : BOOLEAN]]
  BY NodeKnown
<1>3. copy' \in [Kinds -> [bytes : Pin \cup {Foreign}, planted : BOOLEAN]]
  <2>1. copy[k] \in [bytes : Pin \cup {Foreign}, planted : BOOLEAN]
    BY <1>2
  <2>2. CASE copy' = [copy EXCEPT ![k].bytes = Foreign]
    <3>1. [copy[k] EXCEPT !.bytes = Foreign] \in [bytes : Pin \cup {Foreign}, planted : BOOLEAN]
      BY <2>1
    <3> QED
      BY <1>2, <2>2, <3>1
  <2>3. CASE copy' = [copy EXCEPT ![k].planted = TRUE]
    <3>1. [copy[k] EXCEPT !.planted = TRUE] \in [bytes : Pin \cup {Foreign}, planted : BOOLEAN]
      BY <2>1
    <3> QED
      BY <1>2, <2>3, <3>1
  <2> QED
    BY <1>1, <2>2, <2>3
<1>4. ASSUME NEW m \in PlannedIds
      PROVE  /\ spawned'[m] \in Spawning /\ spawned'[m].state = spawned[m].state /\ spawned'[m].policy = spawned[m].policy
             /\ spawned'[m].notice = spawned[m].notice /\ spawned'[m].agent = spawned[m].agent
             /\ spawned'[m].leg = spawned[m].leg /\ spawned'[m].read = spawned[m].read
             /\ spawned'[m].code = spawned[m].code /\ spawned'[m].verified = spawned[m].verified
             /\ spawned'[m].ran = spawned[m].ran
             /\ (spawned[m].state = "starting" => spawned'[m].exposed)
             /\ (spawned[m].state # "starting" => spawned'[m] = spawned[m])
  <2>1. spawned[m] \in Spawning
    BY <1>2
  <2>2. CASE spawned[m].state = "starting"
    <3>1. spawned'[m] = [spawned[m] EXCEPT !.exposed = TRUE]
      BY <1>1, <1>2, <2>2
    <3> QED BY <2>1, <2>2, <3>1 DEF Spawning
  <2>3. CASE spawned[m].state # "starting"
    <3>1. spawned'[m] = spawned[m]
      BY <1>1, <1>2, <2>3
    <3> QED BY <2>1, <2>3, <3>1
  <2> QED BY <2>2, <2>3
<1>5. spawned' \in [PlannedIds -> Spawning]
  <2>1. DOMAIN spawned' = PlannedIds /\ spawned' = [m \in PlannedIds |-> spawned'[m]]
    BY <1>1, <1>2
  <2> QED BY <1>4, <2>1
<1>6. PlanTypeOK'
  BY <1>1, <1>2, <1>3, <1>5 DEF PlanInv, PlanTypeOK, PlannedIds, PlanNode, Progress
<1>7. PlanParts' /\ PlanBound'
  BY <1>1, PlanStands, BoundStands DEF PlanInv
<1>8. PlanNodes'
  <2>1. PlannedIds' = PlannedIds
    BY <1>1 DEF PlannedIds
  <2> SUFFICES ASSUME NEW m \in PlannedIds PROVE GivenTo(m)' /\ ReadBy(m)' /\ JudgedAs(m)' /\ InOrder(m)'
    BY <2>1 DEF PlanNodes
  <2>2. GivenTo(m) /\ ReadBy(m) /\ JudgedAs(m) /\ InOrder(m)
    BY <1>2 DEF PlanInv, PlanNodes
  <2>3. PlannedTools(m)' = PlannedTools(m) /\ Staged' = Staged /\ Sinks(answer.nodes)' = Sinks(answer.nodes)
    BY <1>1 DEF PlannedTools, CitesShape, Staged, Sinks
  <2>4. answer.nodes[m].needs \subseteq PlannedIds
    BY <1>2, SplicedNode DEF PlanInv, PlanParts, Underway
  <2>5. GivenTo(m)'
    <3>1. /\ spawned'[m].policy = spawned[m].policy /\ spawned'[m].notice = spawned[m].notice
          /\ spawned'[m].agent = spawned[m].agent /\ spawned'[m].leg = spawned[m].leg
          /\ plan' = plan /\ wish' = wish
      BY <1>1, <1>4
    <3>2. Given(spawned[m].policy, spawned[m].notice, spawned[m].agent, spawned[m].leg, m)'
            <=> Given(spawned[m].policy, spawned[m].notice, spawned[m].agent, spawned[m].leg, m)
      BY <2>3, <3>1 DEF Given
    <3> QED BY <2>2, <2>3, <3>1, <3>2 DEF GivenTo
  <2>6. ReadBy(m)'
    <3>1. CASE spawned[m].state = "starting"
      BY <1>4, <3>1 DEF ReadBy
    <3>2. CASE spawned[m].state # "starting"
      <4>1. spawned'[m] = spawned[m] /\ plan' = plan
        BY <1>1, <1>4, <3>2
      <4> QED BY <2>2, <3>2, <4>1 DEF ReadBy
    <3> QED BY <3>1, <3>2
  <2>7. JudgedAs(m)'
    BY <1>1, <1>4, <2>2, <2>3 DEF JudgedAs
  <2>8. InOrder(m)'
    <3>1. \A p \in PlannedIds : spawned'[p].state = spawned[p].state
      BY <1>4
    <3>2. spawned[m].state = "idle" => spawned'[m] = spawned[m]
      BY <1>4
    <3> QED BY <1>1, <1>4, <2>2, <2>4, <3>1, <3>2 DEF InOrder
  <2> QED BY <2>5, <2>6, <2>7, <2>8
<1> QED BY <1>6, <1>7, <1>8 DEF PlanInv

\* A leg ends.
LEMMA RunLegEndsKeeps ==
    ASSUME PlanAssumption, PlanInv, RunLegEnds
    PROVE  PlanInv'
<1>1. autoLeg.live /\ autoLeg' = [autoLeg EXCEPT !.live = FALSE] /\ UNCHANGED <<wish, answer, plan, source, copy, store, spawned>>
  BY DEF RunLegEnds
<1>2. plan.at = "bound"
  BY <1>1, NothingRuns
<1>3. autoLeg \in [no : 1..MaxRunLegs, live : BOOLEAN, graph : [PlannedIds -> PlanNode],
                   policy : [PlannedIds -> Policy], command : {"none", "given"}]
  BY <1>2 DEF PlanInv, PlanTypeOK
<1>4. /\ autoLeg'.no = autoLeg.no /\ autoLeg'.graph = autoLeg.graph /\ autoLeg'.policy = autoLeg.policy
      /\ autoLeg'.command = autoLeg.command
      /\ autoLeg' \in [no : 1..MaxRunLegs, live : BOOLEAN, graph : [PlannedIds -> PlanNode],
                       policy : [PlannedIds -> Policy], command : {"none", "given"}]
  BY <1>1, <1>3
<1>5. PlanTypeOK'
  BY <1>1, <1>2, <1>4 DEF PlanInv, PlanTypeOK, PlannedIds, PlanNode, Progress
<1>6. PlanParts' /\ PlanBound'
  BY <1>1, <1>4, PlanStands, BoundStands DEF PlanInv
<1>7. PlanNodes'
  <2>1. PlannedIds' = PlannedIds
    BY <1>1 DEF PlannedIds
  <2> SUFFICES ASSUME NEW m \in PlannedIds PROVE GivenTo(m)' /\ ReadBy(m)' /\ JudgedAs(m)' /\ InOrder(m)'
    BY <2>1 DEF PlanNodes
  <2>2. GivenTo(m) /\ ReadBy(m) /\ JudgedAs(m) /\ InOrder(m)
    BY <1>2 DEF PlanInv, PlanNodes
  <2> QED BY <1>1, <1>2, <2>2, NodeStands DEF PlanInv
<1> QED BY <1>5, <1>6, <1>7 DEF PlanInv

\* A run launched with a verification has one at a sink, so no leg of it is
\* resumed without a command.
LEMMA CommandGiven ==
    ASSUME PlanAssumption, PlanInv, plan.at = "bound", wish.verify, \A n \in DOMAIN store.spec : ~store.spec[n].verify
    PROVE  FALSE
<1>1. answer \in Answers /\ answer.form = "graph" /\ PlannedIds # {}
  BY DEF PlanInv, PlanParts, ReplyAccepted, ReplyRefused, Underway, PlannedIds
<1>2. Loads(answer.nodes)
  BY <1>1 DEF PlanAssumption
<1>3. PICK s \in PlannedIds : \A m \in PlannedIds : s \notin answer.nodes[m].needs
  BY <1>1, <1>2 DEF Loads, PlannedIds
<1>4. s \in Sinks(answer.nodes)
  BY <1>3 DEF Sinks, PlannedIds
<1>5. store.spec = plan.spec /\ SpecOf(s) /\ plan \in Progress
  BY <1>3, PlanIs DEF PlanInv, PlanParts, PlanBound, Finished, Underway
<1>6. DOMAIN plan.spec = PlannedIds
  BY <1>5 DEF Progress
<1> QED BY <1>3, <1>4, <1>5, <1>6 DEF SpecOf

\* A later leg runs what was saved, verified by the command it was given, with
\* neither agents nor skills nor their tool.
LEMMA ResumeRunKeeps ==
    ASSUME PlanAssumption, PlanInv, NEW command \in {"none", "given"}, ResumeRun(command)
    PROVE  PlanInv'
<1>1. /\ autoLeg.no \in 1..(MaxRunLegs - 1) /\ UNCHANGED <<wish, answer, plan, source, copy>>
      /\ autoLeg' = [no |-> autoLeg.no + 1, live |-> TRUE, graph |-> Reattached(command),
                     policy |-> Rehydrated, command |-> command]
      /\ store' = [store EXCEPT !.policy = Rehydrated]
      /\ spawned' = [n \in DOMAIN spawned |-> IF spawned[n].state = "PASS" THEN spawned[n] ELSE NoSpawn]
      /\ command = "none" => \A n \in DOMAIN store.spec : ~store.spec[n].verify
  BY DEF ResumeRun
<1>2. plan.at = "bound"
  BY <1>1, NothingRuns DEF PlanAssumption
<1>3. /\ spawned \in [PlannedIds -> Spawning]
      /\ store \in [spec : [PlannedIds -> PlanNode], policy : [PlannedIds -> Policy], script : Pin]
      /\ autoLeg \in [no : 1..MaxRunLegs, live : BOOLEAN, graph : [PlannedIds -> PlanNode],
                      policy : [PlannedIds -> Policy], command : {"none", "given"}]
      /\ wish.verify \in BOOLEAN
  BY <1>2 DEF PlanInv, PlanTypeOK, PlanAssumption
<1>4. store.spec = plan.spec /\ store.policy = autoLeg.policy /\ store.script = plan.pin["script"]
      /\ \A n \in PlannedIds : LegOf(n)
  BY <1>2 DEF PlanInv, PlanBound
<1>5. \A n \in PlannedIds : SpecOf(n)
  BY <1>2 DEF PlanInv, PlanParts, Finished
<1>6. wish.verify => command # "none"
  BY <1>1, <1>2, CommandGiven
<1>7. \A n \in PlannedIds : store.spec[n] \in PlanNode /\ store.policy[n] \in Policy
  BY <1>3
<1>8. DOMAIN store.spec = PlannedIds /\ DOMAIN store.policy = PlannedIds /\ DOMAIN spawned = PlannedIds
  BY <1>3
<1>9. Sinks(store.spec) = Sinks(answer.nodes)
  BY <1>4, <1>5, <1>8, SinksSame DEF SpecOf, FromReply
<1> DEFINE graph == Reattached(command)
           policy == Rehydrated
<1>10. ASSUME NEW n \in PlannedIds
       PROVE  /\ graph[n] \in PlanNode /\ graph[n].needs = store.spec[n].needs /\ graph[n].check = store.spec[n].check
              /\ graph[n].notice = store.spec[n].notice /\ ~graph[n].agent
              /\ graph[n].verify <=> command # "none" /\ n \in Sinks(store.spec)
  <2>1. CASE command # "none" /\ n \in Sinks(store.spec)
    <3>1. graph[n] = [store.spec[n] EXCEPT !.agent = FALSE, !.verify = TRUE]
      BY <1>8, <2>1 DEF Reattached
    <3> HIDE DEF graph
    <3> QED BY <1>7, <2>1, <3>1 DEF PlanNode
  <2>2. CASE ~(command # "none" /\ n \in Sinks(store.spec))
    <3>1. graph[n] = [store.spec[n] EXCEPT !.agent = FALSE, !.verify = FALSE]
      BY <1>8, <2>2 DEF Reattached
    <3> HIDE DEF graph
    <3> QED BY <1>7, <2>2, <3>1 DEF PlanNode
  <2> QED BY <2>1, <2>2
<1>11. ASSUME NEW n \in PlannedIds
       PROVE  /\ policy[n] \in Policy /\ policy[n].dirs = {} /\ policy[n].isolated = store.policy[n].isolated
              /\ policy[n].tools = IF store.policy[n].dirs # {} /\ ~store.spec[n].agent
                                   THEN store.policy[n].tools \ {"Skill"} ELSE store.policy[n].tools
  <2>1. PICK tools \in SUBSET (Allowlist \cup {"Skill"}) :
           tools = IF store.policy[n].dirs # {} /\ ~store.spec[n].agent
                   THEN store.policy[n].tools \ {"Skill"} ELSE store.policy[n].tools
    BY <1>7 DEF Policy
  <2>2. policy[n] = [store.policy[n] EXCEPT !.dirs = {}, !.tools = tools]
    BY <1>8, <2>1 DEF Rehydrated
  <2> HIDE DEF policy
  <2> QED BY <1>7, <2>1, <2>2 DEF Policy
<1>12. graph \in [PlannedIds -> PlanNode] /\ policy \in [PlannedIds -> Policy]
  <2>1. DOMAIN graph = PlannedIds /\ graph = [n \in PlannedIds |-> graph[n]]
    BY <1>8 DEF Reattached
  <2>2. DOMAIN policy = PlannedIds /\ policy = [n \in PlannedIds |-> policy[n]]
    BY <1>8 DEF Rehydrated
  <2> HIDE DEF graph, policy
  <2> QED BY <1>10, <1>11, <2>1, <2>2
<1>13. /\ autoLeg' = [no |-> autoLeg.no + 1, live |-> TRUE, graph |-> graph, policy |-> policy, command |-> command]
       /\ store' = [store EXCEPT !.policy = policy]
  BY <1>1
<1> HIDE DEF graph, policy
<1>14. /\ autoLeg'.no = autoLeg.no + 1 /\ autoLeg'.graph = graph /\ autoLeg'.policy = policy /\ autoLeg'.command = command
       /\ store'.spec = store.spec /\ store'.policy = policy /\ store'.script = store.script
  BY <1>3, <1>13
<1>15. /\ store' \in [spec : [PlannedIds -> PlanNode], policy : [PlannedIds -> Policy], script : Pin]
       /\ autoLeg' \in [no : 1..MaxRunLegs, live : BOOLEAN, graph : [PlannedIds -> PlanNode],
                        policy : [PlannedIds -> Policy], command : {"none", "given"}]
  <2>1. autoLeg.no + 1 \in 1..MaxRunLegs
    BY <1>1 DEF PlanAssumption
  <2> QED BY <1>3, <1>12, <1>13, <2>1
<1>16. \A n \in PlannedIds : spawned'[n] = IF spawned[n].state = "PASS" THEN spawned[n] ELSE NoSpawn
  BY <1>1, <1>8
<1>17. spawned' \in [PlannedIds -> Spawning]
  BY <1>1, <1>3, <1>8, NoSpawnTyped
<1>18. PlanTypeOK'
  <2>1. Progress' = Progress /\ PlanNode' = PlanNode /\ PlannedIds' = PlannedIds
    BY <1>1 DEF PlannedIds, PlanNode, Progress
  <2> QED BY <1>1, <1>2, <1>15, <1>17, <2>1 DEF PlanInv, PlanTypeOK
<1>19. PlanParts'
  BY <1>1, PlanStands DEF PlanInv
<1>s. /\ PlannedIds' = PlannedIds /\ Staged' = Staged /\ Sinks(answer.nodes)' = Sinks(answer.nodes)
      /\ \A n \in PlannedIds : PlannedTools(n)' = PlannedTools(n)
  BY <1>1 DEF PlannedIds, PlannedTools, CitesShape, Staged, Sinks
<1>20. PlanBound'
  <2> SUFFICES ASSUME NEW n \in PlannedIds PROVE LegOf(n)'
    BY <1>1, <1>4, <1>6, <1>14, <1>s DEF PlanBound
  <2>1. LegOf(n) /\ SpecOf(n)
    BY <1>4, <1>5
  <2>2. /\ graph[n].needs = answer.nodes[n].needs /\ graph[n].check = PairedCheck(answer.nodes[n].check)
        /\ ~graph[n].notice /\ ~graph[n].agent
    BY <1>4, <1>10, <2>1 DEF SpecOf, FromReply
  <2>3. wish.verify /\ n \in Sinks(answer.nodes) => graph[n].verify
    BY <1>6, <1>9, <1>10
  <2>4. "Skill" \in store.policy[n].tools => store.policy[n].dirs # {} /\ ~store.spec[n].agent
    BY <1>4, <2>1 DEF LegOf, SpecOf, Given
  <2>5. policy[n].tools \ {"Skill"} = store.policy[n].tools \ {"Skill"} /\ "Skill" \notin policy[n].tools
    BY <1>11, <2>4
  <2>6. store.policy[n].tools \ {"Skill"} = PlannedTools(n) /\ policy[n].isolated = ~wish.loaded
    <3>1. autoLeg.policy[n].tools \ {"Skill"} = PlannedTools(n)
      BY <2>1 DEF LegOf, Given
    <3>2. autoLeg.policy[n].isolated = ~wish.loaded
      BY <2>1 DEF LegOf, Given
    <3>3. policy[n].isolated = autoLeg.policy[n].isolated
      BY <1>4, <1>11
    <3> QED BY <1>4, <3>1, <3>2, <3>3
  <2>7. graph[n] \in PlanNode
    BY <1>10
  <2>8. graph[n].notice \in BOOLEAN
    BY <2>7 DEF PlanNode
  <2>9. ("Skill" \in policy[n].tools) = graph[n].notice
    BY <2>2, <2>5, <2>8
  <2>10. Given(policy[n], graph[n].notice, graph[n].agent, autoLeg.no + 1, n)
    BY <2>2, <2>5, <2>6, <2>9 DEF Given
  <2>11. Given(autoLeg.policy[n], autoLeg.graph[n].notice, autoLeg.graph[n].agent, autoLeg.no, n)'
    BY <1>1, <1>14, <1>s, <2>10 DEF Given
  <2> QED BY <1>1, <1>11, <1>14, <1>s, <2>2, <2>3, <2>11 DEF LegOf
<1>21. PlanNodes'
  <2> SUFFICES ASSUME NEW n \in PlannedIds PROVE GivenTo(n)' /\ ReadBy(n)' /\ JudgedAs(n)' /\ InOrder(n)'
    BY <1>s DEF PlanNodes
  <2>1. GivenTo(n) /\ ReadBy(n) /\ JudgedAs(n) /\ InOrder(n)
    BY <1>2 DEF PlanInv, PlanNodes
  <2>2. CASE spawned[n].state = "PASS"
    <3>1. answer.nodes[n].needs \subseteq PlannedIds
      BY <1>2, SplicedNode DEF PlanInv, PlanParts, Underway
    <3>2. spawned'[n] = spawned[n] /\ \A p \in answer.nodes[n].needs : spawned[p].state = "PASS" => spawned'[p].state = "PASS"
      BY <1>16, <2>2, <3>1
    <3> QED BY <1>1, <1>2, <2>1, <3>2, NodeStands DEF PlanInv
  <2>3. CASE spawned[n].state # "PASS"
    <3>1. spawned'[n] = NoSpawn
      BY <1>16, <2>3
    <3> QED BY <3>1, NoSpawnTyped DEF GivenTo, ReadBy, JudgedAs, InOrder
  <2> QED BY <2>2, <2>3
<1> QED BY <1>18, <1>19, <1>20, <1>21 DEF PlanInv

\* Every step of an auto run keeps the invariant.
LEMMA PlanInvKept == PlanAssumption /\ PlanInv /\ [PlanNext]_planVars => PlanInv'
<1> SUFFICES ASSUME PlanAssumption, PlanInv, [PlanNext]_planVars PROVE PlanInv'
  OBVIOUS
<1>1. ASSUME NEW s \in Sources, EditSource(s) PROVE PlanInv'
  BY <1>1, EditSourceKeeps
<1>2. ASSUME NEW a \in Answers, PlannerAnswers(a) PROVE PlanInv'
  BY <1>2, PlannerAnswersKeeps
<1>3. ASSUME Splice \/ ScanAgents \/ FinishPlan \/ Bind PROVE PlanInv'
  BY <1>3, SpliceKeeps, ScanAgentsKeeps, FinishPlanKeeps, BindKeeps
<1>4. ASSUME NEW n \in DOMAIN spawned, NEW k \in Kinds, TamperWithCopy(n, k) PROVE PlanInv'
  BY <1>4, TamperKeeps
<1>5. ASSUME NEW n \in DOMAIN spawned, SpawnNode(n) \/ NodeReads(n) \/ VerifyStarts(n) PROVE PlanInv'
  BY <1>5, SpawnNodeKeeps, NodeReadsKeeps, VerifyStartsKeeps
<1>6. ASSUME NEW n \in DOMAIN spawned, NEW code \in 0..1, NEW matches \in BOOLEAN, NodeAnswers(n, code, matches) PROVE PlanInv'
  BY <1>6, NodeAnswersKeeps
<1>7. ASSUME NEW n \in DOMAIN spawned, NEW agrees \in BOOLEAN, VerifyEnds(n, agrees) PROVE PlanInv'
  BY <1>7, VerifyEndsKeeps
<1>8. ASSUME RunLegEnds PROVE PlanInv'
  BY <1>8, RunLegEndsKeeps
<1>9. ASSUME NEW command \in {"none", "given"}, ResumeRun(command) PROVE PlanInv'
  BY <1>9, ResumeRunKeeps
<1>10. ASSUME UNCHANGED planVars PROVE PlanInv'
  <2>1. UNCHANGED <<wish, answer, plan, source, copy, store, autoLeg, spawned>>
    BY <1>10 DEF planVars
  <2>2. PlanTypeOK'
    BY <2>1 DEF PlanInv, PlanTypeOK, PlannedIds, PlanNode, Progress
  <2>3. PlanParts' /\ PlanBound'
    BY <2>1, PlanStands, BoundStands DEF PlanInv
  <2>4. PlanNodes'
    BY <2>1, NodesStand DEF PlanInv
  <2> QED BY <2>2, <2>3, <2>4 DEF PlanInv
<1> QED BY <1>1, <1>2, <1>3, <1>4, <1>5, <1>6, <1>7, <1>8, <1>9, <1>10 DEF PlanNext

\* The invariant of an auto run holds always.
LEMMA PlanInductive == PlanSpec => []PlanInv
<1>1. PlanInit => PlanInv
  BY PlanAssumption, PlanInitHolds
<1>2. PlanInv /\ [PlanNext]_planVars => PlanInv'
  BY PlanAssumption, PlanInvKept
<1> QED BY <1>1, <1>2, PTL DEF PlanSpec

\* A node that is spawned finds all it may quote finished: the finished nodes are
\* a set that misses none of their needs.
LEMMA QuotesAreFinished ==
    ASSUME PlanAssumption, PlanInv, NEW n \in DOMAIN spawned, spawned[n].leg > 0, NEW q \in answer.nodes[n].quotes
    PROVE  spawned[q].state = "PASS"
<1>1. plan.at = "bound" /\ n \in PlannedIds /\ InOrder(n)
  BY NodeKnown
<1>2. answer.nodes[n].quotes \subseteq Before(answer.nodes)[n]
  BY <1>1, SplicedNode DEF PlanInv, PlanParts, Underway
<1>3. q \in PlannedIds /\ \A ns \in SUBSET PlannedIds :
        answer.nodes[n].needs \subseteq ns /\ (\A m \in ns : answer.nodes[m].needs \subseteq ns) => q \in ns
  BY <1>1, <1>2 DEF Before, PlannedIds
<1> DEFINE passed == {p \in PlannedIds : spawned[p].state = "PASS"}
<1>4. ASSUME NEW m \in PlannedIds, spawned[m].leg > 0 PROVE answer.nodes[m].needs \subseteq passed
  <2>1. InOrder(m) /\ answer.nodes[m].needs \subseteq PlannedIds
    BY <1>1, SplicedNode DEF PlanInv, PlanParts, Underway, PlanNodes
  <2> QED BY <1>4, <2>1 DEF InOrder
<1>5. \A m \in passed : spawned[m].leg > 0
  BY <1>1 DEF PlanInv, PlanNodes, InOrder
<1>6. q \in passed
  BY <1>1, <1>3, <1>4, <1>5
<1> QED BY <1>6

\* The invariant says what is promised of every leg.
LEMMA LegRunsSuffices == PlanAssumption /\ PlanInv => LegRunsThePlan
<1> SUFFICES ASSUME PlanAssumption, PlanInv PROVE LegRunsThePlan
  OBVIOUS
<1>1. ASSUME NEW n \in Spawned
      PROVE  /\ plan.at = "bound" /\ n \in PlannedIds /\ n \in DOMAIN spawned /\ spawned[n] \in Spawning
             /\ GivenTo(n) /\ ReadBy(n) /\ JudgedAs(n) /\ InOrder(n) /\ spawned[n].leg > 0
             /\ PlannedTools(n) \subseteq Allowlist
  <2>1. n \in DOMAIN spawned /\ spawned[n].leg > 0
    BY DEF Spawned
  <2>2. plan.at = "bound" /\ n \in PlannedIds /\ spawned[n] \in Spawning /\ GivenTo(n) /\ ReadBy(n) /\ JudgedAs(n) /\ InOrder(n)
    BY <2>1, NodeKnown
  <2>3. PlannedTools(n) \subseteq Allowlist
    BY <2>2, SplicedNode DEF PlanInv, PlanParts, Underway
  <2> QED BY <2>1, <2>2, <2>3
<1>2. CeilingKept
  BY <1>1 DEF CeilingKept, GivenTo, Given
<1>3. NothingTransientSaved
  <2>1. CASE plan.at # "bound"
    <3>1. DOMAIN store.spec = {}
      BY <2>1 DEF PlanInv, PlanTypeOK, NoStore
    <3> QED BY <3>1 DEF NothingTransientSaved
  <2>2. CASE plan.at = "bound"
    <3>1. store.spec = plan.spec /\ plan \in Progress /\ \A n \in PlannedIds : SpecOf(n)
      BY <2>2, PlanIs DEF PlanInv, PlanBound, PlanParts, Finished, Underway
    <3>2. DOMAIN plan.spec = PlannedIds
      BY <3>1 DEF Progress
    <3> QED BY <3>1, <3>2 DEF NothingTransientSaved, SpecOf
  <2> QED BY <2>1, <2>2
<1>4. StagedAsPlanned
  <2> SUFFICES ASSUME NEW n \in Ran, NEW k \in Kinds, k \in spawned[n].policy.dirs
               PROVE  /\ spawned[n].read[k] = plan.pin[k] \/ spawned[n].exposed
                      /\ k = "agent" => \/ AgentTools[plan.pin[k]] \subseteq PlannedTools(n)
                                        \/ plan.checked # plan.pin[k]
    BY DEF StagedAsPlanned
  <2>1. n \in Spawned /\ spawned[n].state \notin {"starting", "FAIL"}
    BY DEF Ran
  <2>2. spawned[n].state # "idle"
    BY <1>1, <2>1 DEF InOrder
  <2>3. spawned[n].read[k] = plan.pin[k] \/ spawned[n].exposed
    BY <1>1, <2>1, <2>2 DEF ReadBy
  <2>4. k = "agent" => n \in plan.mapped
    BY <1>1, <2>1 DEF GivenTo
  <2>5. k = "agent" /\ plan.checked = plan.pin[k] => AgentTools[plan.pin[k]] \subseteq PlannedTools(n)
    BY <1>1, <2>1, <2>4 DEF PlanInv, PlanParts, MappedFits
  <2> QED BY <2>3, <2>5
<1>5. EvidenceHolds
  <2>1. wish.verify /\ autoLeg.no > 0 => autoLeg.command # "none"
    <3>1. autoLeg.no > 0 => plan.at = "bound"
      BY NothingRuns
    <3> QED BY <3>1 DEF PlanInv, PlanBound
  <2>2. ASSUME NEW n \in Ran, spawned[n].state = "PASS"
        PROVE  /\ n \in Sinks(store.spec) /\ wish.verify => spawned[n].verified
               /\ spawned[n].verified /\ wish.verify => spawned[n].ran = 0
    <3>1. n \in Spawned
      BY DEF Ran
    <3>2. JudgedAs(n) /\ plan.at = "bound"
      BY <1>1, <3>1
    <3>3. store.spec = plan.spec /\ plan \in Progress /\ \A m \in PlannedIds : SpecOf(m)
      BY <3>2, PlanIs DEF PlanInv, PlanBound, PlanParts, Finished, Underway
    <3>4. DOMAIN plan.spec = PlannedIds
      BY <3>3 DEF Progress
    <3>5. Sinks(store.spec) = Sinks(answer.nodes)
      BY <3>3, <3>4, SinksSame DEF SpecOf, FromReply
    <3> QED BY <2>2, <3>2, <3>5 DEF JudgedAs
  <2> QED BY <2>1, <2>2 DEF EvidenceHolds
<1>6. ExitCounts
  BY <1>1 DEF ExitCounts, Ran, JudgedAs
<1>7. QuotesResolve
  BY <1>1, QuotesAreFinished DEF QuotesResolve
<1> QED BY <1>2, <1>3, <1>4, <1>5, <1>6, <1>7 DEF LegRunsThePlan

\* Every reachable state of an auto run is well-typed, whatever the planner says.
THEOREM PlanTypes == PlanSpec => []PlanTypeOK
BY PlanInductive, PTL DEF PlanInv

\* In every leg a node has the tools its plan was accepted with and no more, reads
\* the contents that were planned, quotes finished nodes, and passes only with the
\* evidence the command line asked for (LegRunsThePlan).
THEOREM PlanIsRun == PlanSpec => []LegRunsThePlan
<1>1. PlanInv => LegRunsThePlan
  BY PlanAssumption, LegRunsSuffices
<1> QED BY <1>1, PlanInductive, PTL

----------------------------------------------------------------------------
(* What the nodes of a run are told. *)

\* A text that was read, and what a node may hear.
Text == [file : Inode, says : Wordings, size : Sizes \cup {Min(Sizes)}]
Item == [part : {"conventions"}, of : Seq(Text)] \cup [part : {"prompt"}, of : Members]
        \cup [part : {"reply"}, of : Members \X Nat]

\* The conventions accepted at the launch, if any.
Accepted == IF options.named THEN load.texts ELSE NoTexts

\* The files read are those that were looked at, one after the other.
LaunchInv ==
    /\ options.named \in BOOLEAN /\ options.guard \in BOOLEAN
    /\ leadsTo \in [ToSet(Named) -> Inode \cup {Missing}]
    /\ holds \in [Inode -> [says : Wordings \cup Unfit, size : Sizes \cup {Min(Sizes)}]]
    /\ load = [at |-> load.at, seen |-> load.seen, texts |-> load.texts, changes |-> load.changes]
    /\ load.at \in {"naming", "reading", "accepted", "refused"}
    /\ load.texts \in Seq(Text)
    /\ load.at = "naming" => load.texts = NoTexts
    /\ load.at = "reading" =>
        /\ DOMAIN load.seen = 1..Len(Named) /\ \A i \in 1..Len(Named) : load.seen[i] \in Inode
        /\ IsInjective(load.seen)
        /\ Len(load.texts) < Len(Named)
        /\ \A i \in DOMAIN load.texts : load.texts[i].file = load.seen[i]
    /\ load.at = "accepted" =>
        /\ load.texts # NoTexts
        /\ \A i, j \in DOMAIN load.texts : i # j => load.texts[i].file # load.texts[j].file
        /\ Rendered(load.texts) <= StageCap

\* The record names what was accepted, under a schema no program that would drop
\* it accepts; a leg goes by it.
RecordInv ==
    /\ briefLeg = [no |-> briefLeg.no, live |-> briefLeg.live, prefix |-> briefLeg.prefix,
                   guard |-> briefLeg.guard, tries |-> briefLeg.tries]
    /\ briefLeg.no \in Nat
    /\ briefLeg.no = 0 => ~briefLeg.live /\ \A n \in Members : briefed[n].state = "idle"
    /\ briefLeg.no > 0 =>
        /\ load.at = IF options.named THEN "accepted" ELSE "naming"
        /\ snap.conventions = Accepted /\ snap.guard = options.guard
        /\ snap.schema = Schema(snap.conventions, snap.guard)
    /\ briefLeg.live => briefLeg.prefix = Accepted /\ briefLeg.guard = options.guard

Conversation == [state : {"idle", "running", "retrying", "PASS", "FAIL"}, heard : Seq(Item),
                 settled : Nat, judged : Nat, onRecord : Nat, saved : Nat]

\* What a conversation holds: the conventions first and once, and of the node's own
\* replies the last; and no other node's replies, unless it continues that node's.
Opens(h) == IF options.named
            THEN {i \in DOMAIN h : h[i].part = "conventions"} = {1} /\ h[1] = Told(load.texts)
            ELSE {i \in DOMAIN h : h[i].part = "conventions"} = {}
Quotes(n, h, k) ==
    \A i \in DOMAIN h : h[i].part = "reply" =>
        /\ h[i].of[1] = n => h[i].of[2] = k
        /\ h[i].of[1] = n \/ (n = "second" /\ h[i].of[1] = "first")
Asks(n, h) ==
    \E i \in DOMAIN h : h[i] = OwnPrompt(n) /\ \A j \in DOMAIN h : h[j].part = "prompt" => j <= i
Hears(n, c) ==
    /\ Opens(c.heard) /\ Asks(n, c.heard)
    /\ Quotes(n, c.heard, IF c.state = "running" THEN c.settled ELSE c.settled - 1)

HeardInv ==
    /\ briefed \in [Members -> Conversation]
    /\ \A n \in Members :
        /\ briefed[n].judged \in {0, briefed[n].settled} /\ briefed[n].saved \in {0, briefed[n].onRecord}
        /\ briefed[n].state # "idle" => Hears(n, briefed[n])

BriefInv == LaunchInv /\ RecordInv /\ HeardInv

\* Nothing is told before the launch.
LEMMA BriefInitial == BriefInit => BriefInv
<1> SUFFICES ASSUME BriefInit PROVE BriefInv
  OBVIOUS
<1>1. LaunchInv
  BY DEF BriefInit, LaunchInv, Unedited, Wordings, NoTexts, Text
<1>2. RecordInv
  BY DEF BriefInit, RecordInv, NotRun, Members
<1>3. HeardInv
  BY DEF BriefInit, HeardInv, NotRun, Conversation
<1> QED BY <1>1, <1>2, <1>3 DEF BriefInv

\* A step of the launch tells nobody anything: no leg has begun, and none looks at
\* the files again.
LEMMA LaunchOnly ==
    ASSUME BriefInv, LaunchInv', UNCHANGED <<options, runBrief>>,
           load.texts' = load.texts \/ briefLeg.no = 0,
           load.at' = load.at \/ briefLeg.no = 0
    PROVE  BriefInv'
<1>1. RecordInv'
  BY DEF BriefInv, RecordInv, runBrief, Accepted, Schema
<1>2. HeardInv'
  BY DEF BriefInv, HeardInv, RecordInv, runBrief, Hears, Opens, Asks, Quotes, Accepted
<1> QED BY <1>1, <1>2 DEF BriefInv

LEMMA EditKeeps ==
    ASSUME BriefInv, NEW f \in Inode, NEW says \in Wordings \cup Unfit, NEW size \in Sizes, EditFile(f, says, size)
    PROVE  BriefInv'
<1>1. /\ load' = [load EXCEPT !.changes = @ + 1] /\ load.at = "reading"
      /\ UNCHANGED <<options, runBrief, leadsTo>> /\ holds' = [holds EXCEPT ![f] = [says |-> says, size |-> size]]
  BY DEF EditFile, Changing
<1>2. /\ load' = [at |-> load'.at, seen |-> load'.seen, texts |-> load'.texts, changes |-> load'.changes]
      /\ load'.at = load.at /\ load'.seen = load.seen /\ load'.texts = load.texts
  BY <1>1 DEF BriefInv, LaunchInv
<1>3. LaunchInv'
  BY <1>1, <1>2 DEF BriefInv, LaunchInv
<1> QED BY <1>1, <1>2, <1>3, LaunchOnly

LEMMA RelinkKeeps ==
    ASSUME BriefInv, NEW p \in ToSet(Named), NEW f \in Inode \cup {Missing}, Relink(p, f)
    PROVE  BriefInv'
<1>1. /\ load' = [load EXCEPT !.changes = @ + 1] /\ load.at = "reading"
      /\ UNCHANGED <<options, runBrief, holds>> /\ leadsTo' = [leadsTo EXCEPT ![p] = f]
  BY DEF Relink, Changing
<1>2. /\ load' = [at |-> load'.at, seen |-> load'.seen, texts |-> load'.texts, changes |-> load'.changes]
      /\ load'.at = load.at /\ load'.seen = load.seen /\ load'.texts = load.texts
  BY <1>1 DEF BriefInv, LaunchInv
<1>3. LaunchInv'
  BY <1>1, <1>2 DEF BriefInv, LaunchInv
<1> QED BY <1>1, <1>2, <1>3, LaunchOnly

\* Two names of one file are refused, and so is a name of none.
LEMMA StatKeeps == ASSUME BriefInv, StatAll PROVE BriefInv'
<1> DEFINE files == [i \in DOMAIN Named |-> leadsTo[Named[i]]]
<1>1. /\ load.at = "naming" /\ options.named /\ UNCHANGED <<leadsTo, holds, options, runBrief>>
      /\ \/ load' = [load EXCEPT !.at = "refused"]
         \/ /\ Missing \notin ToSet(files) /\ IsInjective(files)
            /\ load' = [load EXCEPT !.at = "reading", !.seen = files]
  BY DEF StatAll
<1>2. /\ load = [at |-> load.at, seen |-> load.seen, texts |-> load.texts, changes |-> load.changes]
      /\ load.texts = NoTexts /\ Len(load.texts) = 0 /\ DOMAIN load.texts = {} /\ load.texts \in Seq(Text)
  BY <1>1 DEF BriefInv, LaunchInv, NoTexts
<1>3. briefLeg.no = 0
  BY <1>1 DEF BriefInv, RecordInv
<1>4. ASSUME load' = [load EXCEPT !.at = "refused"] PROVE LaunchInv' /\ load'.texts = load.texts
  <2>1. /\ load' = [at |-> load'.at, seen |-> load'.seen, texts |-> load'.texts, changes |-> load'.changes]
        /\ load'.at = "refused" /\ load'.texts = load.texts
    BY <1>2, <1>4
  <2> QED BY <1>1, <1>2, <2>1 DEF BriefInv, LaunchInv
<1>5. ASSUME Missing \notin ToSet(files), IsInjective(files), load' = [load EXCEPT !.at = "reading", !.seen = files]
      PROVE  LaunchInv' /\ load'.texts = load.texts
  <2>1. /\ load' = [at |-> load'.at, seen |-> load'.seen, texts |-> load'.texts, changes |-> load'.changes]
        /\ load'.at = "reading" /\ load'.texts = load.texts /\ load'.seen = files
    BY <1>2, <1>5
  <2>2. Len(Named) \in Nat \ {0} /\ DOMAIN Named = 1..Len(Named)
    BY BriefAssumption
  <2>3. DOMAIN files = 1..Len(Named)
    BY <2>2
  <2>4. ASSUME NEW i \in 1..Len(Named) PROVE files[i] \in Inode
    <3>1. files[i] # Missing
      BY <1>5, <2>3 DEF ToSet
    <3>2. Named[i] \in ToSet(Named)
      BY <2>2 DEF ToSet
    <3> QED BY <2>3, <3>1, <3>2 DEF BriefInv, LaunchInv
  <2> HIDE DEF files
  <2>5. Len(load'.texts) < Len(Named)
    BY <1>2, <2>1, <2>2
  <2> QED BY <1>1, <1>2, <1>5, <2>1, <2>3, <2>4, <2>5 DEF BriefInv, LaunchInv
<1> QED BY <1>1, <1>3, <1>4, <1>5, LaunchOnly

\* A file that was re-pointed, grown or spoilt since it was looked at is refused; the
\* last one read, the texts are of distinct files and fit one argument.
LEMMA ReadKeeps == ASSUME BriefInv, ReadNext PROVE BriefInv'
<1> DEFINE i == Len(load.texts) + 1
           file == leadsTo[Named[i]]
           text == [file |-> file, says |-> holds[file].says, size |-> holds[file].size]
           texts == Append(load.texts, text)
<1>1. /\ load.at = "reading" /\ UNCHANGED <<leadsTo, holds, options, runBrief>>
      /\ \/ load' = [load EXCEPT !.at = "refused"]
         \/ /\ file = load.seen[i] /\ holds[file].says \in Wordings
            /\ load' = IF i < Len(Named) THEN [load EXCEPT !.texts = texts]
                       ELSE [load EXCEPT !.texts = texts,
                                         !.at = IF Rendered(texts) <= StageCap THEN "accepted" ELSE "refused"]
  BY DEF ReadNext
<1>2. /\ load = [at |-> load.at, seen |-> load.seen, texts |-> load.texts, changes |-> load.changes]
      /\ load.texts \in Seq(Text) /\ Len(load.texts) < Len(Named)
      /\ DOMAIN load.seen = 1..Len(Named) /\ (\A j \in 1..Len(Named) : load.seen[j] \in Inode)
      /\ IsInjective(load.seen)
      /\ \A j \in DOMAIN load.texts : load.texts[j].file = load.seen[j]
  BY <1>1 DEF BriefInv, LaunchInv
<1>3. briefLeg.no = 0
  BY <1>1 DEF BriefInv, RecordInv
<1>4. ASSUME load' = [load EXCEPT !.at = "refused"] PROVE LaunchInv'
  <2>1. /\ load' = [at |-> load'.at, seen |-> load'.seen, texts |-> load'.texts, changes |-> load'.changes]
        /\ load'.at = "refused" /\ load'.texts = load.texts
    BY <1>2, <1>4
  <2> QED BY <1>1, <1>2, <2>1 DEF BriefInv, LaunchInv
<1>5. ASSUME file = load.seen[i], holds[file].says \in Wordings,
             load' = IF i < Len(Named) THEN [load EXCEPT !.texts = texts]
                     ELSE [load EXCEPT !.texts = texts,
                                       !.at = IF Rendered(texts) <= StageCap THEN "accepted" ELSE "refused"]
      PROVE  LaunchInv'
  <2>1. Len(Named) \in Nat /\ Len(load.texts) \in Nat /\ i \in 1..Len(Named)
    BY <1>2, BriefAssumption
  <2>2. file \in Inode /\ text \in Text
    <3>1. file \in Inode
      BY <1>2, <1>5, <2>1
    <3>2. holds[file].size \in Sizes \cup {Min(Sizes)}
      BY <3>1 DEF BriefInv, LaunchInv
    <3> QED BY <1>5, <3>1, <3>2 DEF Text
  <2> HIDE DEF file
  <2>3. text.file = load.seen[i]
    BY <1>5
  <2> HIDE DEF text
  <2>4. /\ texts \in Seq(Text) /\ Len(texts) = i /\ texts[i] = text
        /\ \A j \in 1..Len(load.texts) : texts[j] = load.texts[j]
    BY <1>2, <2>2
  <2>5. DOMAIN texts = 1..i /\ DOMAIN load.texts = 1..Len(load.texts)
    BY <1>2, <2>4
  <2> HIDE DEF texts
  <2>6. \A j \in DOMAIN texts : texts[j].file = load.seen[j]
    BY <1>2, <2>1, <2>3, <2>4, <2>5
  <2>7. texts # NoTexts /\ \A j, k \in DOMAIN texts : j # k => texts[j].file # texts[k].file
    <3>1. texts # NoTexts
      BY <2>1, <2>4 DEF NoTexts
    <3>2. \A j \in DOMAIN texts : j \in DOMAIN load.seen
      BY <1>2, <2>1, <2>5
    <3> QED BY <1>2, <2>6, <3>1, <3>2 DEF IsInjective
  <2>8. /\ load' = [at |-> load'.at, seen |-> load'.seen, texts |-> load'.texts, changes |-> load'.changes]
        /\ load'.texts = texts /\ load'.seen = load.seen
        /\ load'.at = IF i < Len(Named) THEN "reading"
                      ELSE IF Rendered(texts) <= StageCap THEN "accepted" ELSE "refused"
    BY <1>1, <1>2, <1>5
  <2> HIDE DEF i
  <2> QED BY <1>1, <1>2, <2>1, <2>4, <2>6, <2>7, <2>8 DEF BriefInv, LaunchInv
<1> QED BY <1>1, <1>3, <1>4, <1>5, LaunchOnly

\* The launch's variables, as a leg leaves them.
LEMMA LaunchStays == ASSUME BriefInv, UNCHANGED launchState PROVE LaunchInv'
BY DEF BriefInv, LaunchInv, launchState

\* The run begins with the texts accepted, and forgets where they came from.
LEMMA StageKeeps == ASSUME BriefInv, StageBriefing PROVE BriefInv'
<1>1. /\ briefLeg.no = 0 /\ options' = options /\ briefed' = briefed
      /\ load.at = IF options.named THEN "accepted" ELSE "naming"
      /\ snap' = Saved(Accepted, options.interview, options.guard)
      /\ briefLeg' = [no |-> 1, live |-> TRUE, prefix |-> Accepted, guard |-> options.guard, tries |-> 0]
      /\ load' = [load EXCEPT !.seen = <<>>, !.changes = 0]
      /\ leadsTo' = [p \in ToSet(Named) |-> Missing] /\ holds' = Unedited
  BY DEF StageBriefing, Accepted, NoTexts
<1>2. /\ load' = [at |-> load'.at, seen |-> load'.seen, texts |-> load'.texts, changes |-> load'.changes]
      /\ load'.at = load.at /\ load'.texts = load.texts
  BY <1>1 DEF BriefInv, LaunchInv
<1>3. LaunchInv'
  BY <1>1, <1>2 DEF BriefInv, LaunchInv, Unedited, Wordings
<1>4. RecordInv'
  BY <1>1, <1>2 DEF RecordInv, Saved, Accepted, Schema
<1>5. HeardInv'
  BY <1>1, <1>2 DEF BriefInv, HeardInv, RecordInv
<1> QED BY <1>3, <1>4, <1>5 DEF BriefInv

\* What a node writes in the run's directory is not what a leg goes by.
LEMMA AlterKeeps ==
    ASSUME BriefInv, NEW conventions, NEW answers, AlterStaged(conventions, answers)
    PROVE  BriefInv'
<1>1. UNCHANGED <<launchState, snap, briefLeg, briefed>>
  BY DEF AlterStaged
<1>2. RecordInv'
  BY <1>1 DEF BriefInv, RecordInv, launchState, Accepted, Schema
<1>3. HeardInv'
  BY <1>1 DEF BriefInv, HeardInv, launchState, Hears, Opens, Asks, Quotes
<1> QED BY <1>1, <1>2, <1>3, LaunchStays DEF BriefInv

\* Two conversations, one after the other.
LEMMA ConcatTold ==
    ASSUME NEW a \in Seq(Item), NEW b \in Seq(Item)
    PROVE  /\ a \o b \in Seq(Item) /\ Len(a \o b) = Len(a) + Len(b) /\ DOMAIN (a \o b) = 1..Len(a \o b)
           /\ \A i \in 1..Len(a) : (a \o b)[i] = a[i]
           /\ \A i \in 1..Len(b) : (a \o b)[Len(a) + i] = b[i]
<1>1. Len(a) \in Nat /\ Len(b) \in Nat /\ DOMAIN a = 1..Len(a) /\ DOMAIN b = 1..Len(b)
  OBVIOUS
<1>2. a \o b \in Seq(Item) /\ Len(a \o b) = Len(a) + Len(b)
  OBVIOUS
<1>3. DOMAIN (a \o b) = 1..Len(a \o b)
  BY <1>2
<1>4. \A i \in 1..Len(a) : (a \o b)[i] = a[i]
  BY <1>1
<1>5. \A i \in 1..Len(b) : (a \o b)[Len(a) + i] = b[i]
  BY <1>1
<1> QED BY <1>2, <1>3, <1>4, <1>5

\* What a prompt adds to what was heard before: the node's own prompt, and at most
\* the quoted reply.
LEMMA Prompted ==
    ASSUME NEW base \in Seq(Item), NEW n \in Members, NEW k \in Nat, NEW quote, quote \in {<<>>, <<ReplyQuoted(n, k)>>}
    PROVE  LET h == base \o <<OwnPrompt(n)>> \o quote IN
           /\ h \in Seq(Item)
           /\ \A i \in DOMAIN h : i \in DOMAIN base \/ i = Len(base) + 1 \/ (i = Len(base) + 2 /\ h[i] = ReplyQuoted(n, k))
           /\ \A i \in DOMAIN base : i \in DOMAIN h /\ h[i] = base[i] /\ i <= Len(base) /\ i >= 1
           /\ Len(base) + 1 \in DOMAIN h /\ h[Len(base) + 1] = OwnPrompt(n)
<1> DEFINE own == <<OwnPrompt(n)>>
           asked == base \o own
           h == asked \o quote
<1>1. OwnPrompt(n) \in Item /\ ReplyQuoted(n, k) \in Item
  BY DEF OwnPrompt, ReplyQuoted, Item
<1>2. own \in Seq(Item) /\ Len(own) = 1 /\ own[1] = OwnPrompt(n)
  BY <1>1
<1>3. quote \in Seq(Item) /\ Len(quote) \in {0, 1} /\ (Len(quote) = 1 => quote[1] = ReplyQuoted(n, k))
  <2>1. CASE quote = <<>>
    BY <2>1
  <2>2. CASE quote = <<ReplyQuoted(n, k)>>
    BY <1>1, <2>2
  <2> QED BY <2>1, <2>2
<1>4. Len(base) \in Nat /\ DOMAIN base = 1..Len(base)
  OBVIOUS
<1> HIDE DEF own
<1>5. /\ asked \in Seq(Item) /\ Len(asked) = Len(base) + 1 /\ asked[Len(base) + 1] = OwnPrompt(n)
      /\ \A i \in 1..Len(base) : asked[i] = base[i]
  <2>1. /\ asked \in Seq(Item) /\ Len(asked) = Len(base) + Len(own)
        /\ \A i \in 1..Len(base) : asked[i] = base[i]
        /\ \A i \in 1..Len(own) : asked[Len(base) + i] = own[i]
    BY <1>2, ConcatTold
  <2>2. 1 \in 1..Len(own)
    BY <1>2
  <2> HIDE DEF asked
  <2> QED BY <1>2, <2>1, <2>2
<1> HIDE DEF asked
<1>6. /\ h \in Seq(Item) /\ Len(h) = Len(asked) + Len(quote) /\ DOMAIN h = 1..Len(h)
      /\ \A i \in 1..Len(asked) : h[i] = asked[i]
      /\ Len(quote) = 1 => h[Len(asked) + 1] = ReplyQuoted(n, k)
  BY <1>3, <1>5, ConcatTold
<1> HIDE DEF h
<1>7. /\ \A i \in DOMAIN h : i \in DOMAIN base \/ i = Len(base) + 1 \/ (i = Len(base) + 2 /\ h[i] = ReplyQuoted(n, k))
      /\ \A i \in DOMAIN base : i \in DOMAIN h /\ h[i] = base[i] /\ i <= Len(base) /\ i >= 1
      /\ Len(base) + 1 \in DOMAIN h /\ h[Len(base) + 1] = OwnPrompt(n)
  <2>1. /\ Len(asked) = Len(base) + 1 /\ Len(h) = Len(base) + 1 + Len(quote) /\ Len(h) \in Nat /\ Len(quote) \in Nat
        /\ Len(quote) = 1 => h[Len(base) + 2] = ReplyQuoted(n, k)
    BY <1>3, <1>4, <1>5, <1>6
  <2>2. ASSUME NEW i \in DOMAIN h
        PROVE  i \in DOMAIN base \/ i = Len(base) + 1 \/ (i = Len(base) + 2 /\ h[i] = ReplyQuoted(n, k))
    <3>1. i \in 1..Len(h)
      BY <1>6, <2>2
    <3>2. i <= Len(base) \/ i = Len(base) + 1 \/ (i = Len(base) + 2 /\ Len(quote) = 1)
      <4>1. \A b \in Nat : \A q \in {0, 1} : \A m \in 1..(b + 1 + q) :
              m <= b \/ m = b + 1 \/ (m = b + 2 /\ q = 1)
        OBVIOUS
      <4>2. i \in 1..(Len(base) + 1 + Len(quote))
        BY <2>1, <3>1
      <4>3. Len(base) \in Nat /\ Len(quote) \in {0, 1}
        BY <1>3, <1>4
      <4> QED BY <4>1, <4>2, <4>3
    <3>3. i >= 1 /\ i \in Int
      BY <2>1, <3>1
    <3>4. CASE i <= Len(base)
      BY <1>4, <3>3, <3>4
    <3>5. CASE i = Len(base) + 2 /\ Len(quote) = 1
      BY <2>1, <3>5
    <3> QED BY <3>2, <3>4, <3>5
  <2>3. ASSUME NEW i \in DOMAIN base
        PROVE  i \in DOMAIN h /\ h[i] = base[i] /\ i <= Len(base) /\ i >= 1
    <3>1. i \in 1..Len(base) /\ i \in 1..Len(asked) /\ i \in 1..Len(h)
      BY <1>4, <2>1, <2>3
    <3> QED BY <1>4, <1>5, <1>6, <3>1
  <2>4. Len(base) + 1 \in DOMAIN h /\ h[Len(base) + 1] = OwnPrompt(n)
    <3>1. Len(base) + 1 \in 1..Len(asked) /\ Len(base) + 1 \in 1..Len(h)
      BY <1>4, <2>1
    <3> QED BY <1>5, <1>6, <3>1
  <2> QED BY <2>2, <2>3, <2>4
<1> QED BY <1>6, <1>7 DEF h, asked, own

\* An attempt resumes a conversation that opens with the conventions, or begins one
\* with them; it is quoted the reply of the node's attempt before, if that one was
\* found wanting.
LEMMA AttemptKeeps == ASSUME BriefInv, NEW n \in Members, AttemptNode(n) PROVE BriefInv'
<1> DEFINE node == briefed[n]
           retry == node.state = "retrying" \/ node.judged > 0
           resumes == n = "second" /\ ~retry
           base == (IF resumes THEN briefed["first"].heard ELSE <<>>) \o WithConventions(n, resumes)
           quote == IF node.judged > 0 THEN <<ReplyQuoted(n, node.judged)>> ELSE <<>>
           h == base \o <<OwnPrompt(n)>> \o quote
<1>1. /\ briefLeg.live /\ UNCHANGED <<launchState, stagedText, snap, briefLeg>>
      /\ n = "second" => briefed["first"].state = "PASS"
      /\ briefed' = [briefed EXCEPT ![n] = [node EXCEPT !.state = "running", !.heard = h]]
  BY DEF AttemptNode
<1>2. /\ briefLeg.prefix = Accepted /\ briefLeg.no > 0 /\ load.texts \in Seq(Text)
      /\ briefed \in [Members -> Conversation] /\ node.judged \in {0, node.settled} /\ node \in Conversation
      /\ \A m \in Members : briefed[m].state # "idle" => Hears(m, briefed[m])
      /\ load.at = IF options.named THEN "accepted" ELSE "naming"
      /\ load.at = "accepted" => load.texts # NoTexts
  BY <1>1 DEF BriefInv, RecordInv, HeardInv, LaunchInv
<1>3. node.settled \in Nat /\ node.judged \in Nat
  BY <1>2 DEF Conversation
<1>4. base \in Seq(Item) /\ Opens(base) /\ \A i \in DOMAIN base : base[i].part = "reply" => n = "second" /\ base[i].of[1] = "first"
  <2>1. CASE resumes
    <3>1. n = "second" /\ "first" \in Members /\ briefed["first"].state = "PASS"
      BY <1>1, <2>1 DEF Members
    <3>2. briefed["first"].heard \in Seq(Item) /\ base = briefed["first"].heard
      <4>1. WithConventions(n, resumes) = <<>>
        BY <2>1 DEF WithConventions
      <4>2. briefed["first"].heard \in Seq(Item)
        BY <1>2, <3>1 DEF Conversation
      <4>3. base = briefed["first"].heard \o <<>>
        BY <2>1, <4>1
      <4> QED BY <4>2, <4>3, ConcatEmptySeq
    <3>3. Hears("first", briefed["first"])
      BY <1>2, <3>1
    <3> HIDE DEF base
    <3> QED BY <3>1, <3>2, <3>3 DEF Hears, Quotes
  <2>2. CASE ~resumes
    <3>1. base = <<>> \o WithConventions(n, FALSE)
      BY <2>2
    <3>2. CASE options.named
      <4>1. briefLeg.prefix = load.texts /\ briefLeg.prefix # NoTexts
        BY <1>2, <3>2 DEF Accepted
      <4>2. Told(load.texts) \in Item
        BY <1>2 DEF Told, Item
      <4>3. base = <<Told(load.texts)>>
        <5>1. WithConventions(n, FALSE) = <<Told(load.texts)>> /\ <<Told(load.texts)>> \in Seq(Item)
          BY <4>1, <4>2 DEF WithConventions
        <5> QED BY <3>1, <5>1, ConcatEmptySeq
      <4> HIDE DEF base
      <4>4. base \in Seq(Item) /\ DOMAIN base = {1} /\ base[1] = Told(load.texts)
        BY <4>2, <4>3
      <4>5. Told(load.texts).part = "conventions"
        BY DEF Told
      <4> QED BY <3>2, <4>4, <4>5 DEF Opens
    <3>3. CASE ~options.named
      <4>1. WithConventions(n, FALSE) = <<>>
        BY <1>2, <3>3 DEF Accepted, WithConventions
      <4>2. base = <<>>
        <5>1. base = <<>> \o <<>>
          BY <3>1, <4>1
        <5>2. <<>> \in Seq(Item)
          OBVIOUS
        <5>3. <<>> \o <<>> = <<>>
          BY <5>2, ConcatEmptySeq
        <5> QED BY <5>1, <5>3
      <4> HIDE DEF base
      <4> QED BY <3>3, <4>2 DEF Opens
    <3> QED BY <3>2, <3>3
  <2> QED BY <2>1, <2>2
<1> HIDE DEF base
<1>5. /\ h \in Seq(Item)
      /\ \A i \in DOMAIN h : i \in DOMAIN base \/ i = Len(base) + 1
                             \/ (i = Len(base) + 2 /\ h[i] = ReplyQuoted(n, node.judged))
      /\ \A i \in DOMAIN base : i \in DOMAIN h /\ h[i] = base[i] /\ i <= Len(base) /\ i >= 1
      /\ Len(base) + 1 \in DOMAIN h /\ h[Len(base) + 1] = OwnPrompt(n)
  <2>1. quote \in {<<>>, <<ReplyQuoted(n, node.judged)>>}
    OBVIOUS
  <2> HIDE DEF quote, node
  <2> QED BY <1>3, <1>4, <2>1, Prompted
<1>6. \A i \in DOMAIN h : i = Len(base) + 2 /\ i \notin DOMAIN base => node.judged = node.settled
  <2>1. CASE node.judged > 0
    BY <1>2, <2>1
  <2>2. CASE ~(node.judged > 0)
    <3>1. h = base \o <<OwnPrompt(n)>> /\ Len(h) = Len(base) + 1 /\ DOMAIN h = 1..Len(h) /\ Len(base) \in Nat
      BY <1>4, <2>2 DEF OwnPrompt, Item
    <3> QED BY <3>1
  <2> QED BY <2>1, <2>2
<1> HIDE DEF h, quote
<1>7. OwnPrompt(n).part = "prompt" /\ ReplyQuoted(n, node.judged).part = "reply"
      /\ ReplyQuoted(n, node.judged).of[1] = n /\ ReplyQuoted(n, node.judged).of[2] = node.judged
  BY DEF OwnPrompt, ReplyQuoted
<1>8. Len(base) \in Nat /\ DOMAIN base = 1..Len(base)
  BY <1>4
<1>9. Opens(h)
  BY <1>4, <1>5, <1>7, <1>8 DEF Opens
<1>10. Quotes(n, h, node.settled)
  BY <1>4, <1>5, <1>6, <1>7, <1>8 DEF Quotes
<1>11. Asks(n, h)
  <2>1. \A j \in DOMAIN h : h[j].part = "prompt" => j <= Len(base) + 1
    BY <1>5, <1>7, <1>8
  <2> QED BY <1>5, <2>1 DEF Asks
<1>12. /\ briefed' \in [Members -> Conversation]
       /\ \A m \in Members : m # n => briefed'[m] = briefed[m]
       /\ briefed'[n].heard = h /\ briefed'[n].state = "running" /\ briefed'[n].settled = node.settled
       /\ briefed'[n].judged = node.judged /\ briefed'[n].onRecord = node.onRecord /\ briefed'[n].saved = node.saved
  BY <1>1, <1>2, <1>5 DEF Conversation
<1>13. Hears(n, briefed'[n])
  BY <1>9, <1>10, <1>11, <1>12 DEF Hears
<1>14. \A m \in Members : Hears(m, briefed'[m]) => Hears(m, briefed[m])'
  BY <1>1 DEF Hears, Opens, Asks, Quotes, launchState
<1>15. HeardInv'
  BY <1>2, <1>12, <1>13, <1>14 DEF BriefInv, HeardInv
<1>16. RecordInv'
  BY <1>1, <1>2 DEF BriefInv, RecordInv, launchState, Accepted, Schema
<1> QED BY <1>1, <1>15, <1>16, LaunchStays DEF BriefInv

\* The reply of an attempt that ended is the one the next is quoted; what was heard
\* stays heard.
LEMMA SettleKeeps ==
    ASSUME BriefInv, NEW n \in Members, NEW verdict \in {"PASS", "FAIL", "retrying"}, NEW judged \in BOOLEAN,
           AttemptSettles(n, verdict, judged)
    PROVE  BriefInv'
<1> DEFINE ended == briefed[n].settled + 1
           reply == IF judged THEN ended ELSE 0
           after == [briefed[n] EXCEPT !.state = verdict, !.settled = ended, !.judged = reply]
           now == IF verdict = "retrying" THEN after ELSE [after EXCEPT !.onRecord = ended, !.saved = reply]
<1>1. /\ briefLeg.live /\ briefed[n].state = "running" /\ UNCHANGED <<launchState, stagedText, snap>>
      /\ briefLeg' = [briefLeg EXCEPT !.tries = IF verdict = "retrying" THEN @ + 1 ELSE 0]
      /\ briefed' = [briefed EXCEPT ![n] = now]
  BY DEF AttemptSettles
<1>2. /\ briefed \in [Members -> Conversation] /\ briefed[n] \in Conversation
      /\ \A m \in Members :
            /\ briefed[m].judged \in {0, briefed[m].settled} /\ briefed[m].saved \in {0, briefed[m].onRecord}
            /\ briefed[m].state # "idle" => Hears(m, briefed[m])
  BY DEF BriefInv, HeardInv
<1>3. /\ briefLeg' = [no |-> briefLeg'.no, live |-> briefLeg'.live, prefix |-> briefLeg'.prefix,
                      guard |-> briefLeg'.guard, tries |-> briefLeg'.tries]
      /\ briefLeg'.no = briefLeg.no /\ briefLeg'.live = briefLeg.live
      /\ briefLeg'.prefix = briefLeg.prefix /\ briefLeg'.guard = briefLeg.guard /\ briefLeg.no > 0
  <2>1. /\ briefLeg = [no |-> briefLeg.no, live |-> briefLeg.live, prefix |-> briefLeg.prefix,
                       guard |-> briefLeg.guard, tries |-> briefLeg.tries]
        /\ briefLeg.no > 0
    BY <1>1 DEF BriefInv, RecordInv
  <2>2. \E k : briefLeg' = [briefLeg EXCEPT !.tries = k]
    BY <1>1
  <2> QED BY <2>1, <2>2
<1>4. /\ now \in Conversation /\ now.heard = briefed[n].heard /\ now.state # "running" /\ now.settled - 1 = briefed[n].settled
      /\ now.judged \in {0, now.settled} /\ now.saved \in {0, now.onRecord}
  <2>1. ended \in Nat /\ reply \in {0, ended} /\ ended - 1 = briefed[n].settled
    BY <1>2 DEF Conversation
  <2> HIDE DEF ended, reply
  <2>2. /\ after \in Conversation /\ after.heard = briefed[n].heard /\ after.state = verdict /\ after.settled = ended
        /\ after.judged = reply /\ after.onRecord = briefed[n].onRecord /\ after.saved = briefed[n].saved
    <3>1. /\ ended \in Nat /\ reply \in Nat
          /\ verdict \in {"idle", "running", "retrying", "PASS", "FAIL"}
      BY <2>1
    <3> QED BY <1>2, <3>1 DEF Conversation
  <2> HIDE DEF after
  <2>3. CASE verdict = "retrying"
    BY <1>2, <2>1, <2>2, <2>3
  <2>4. CASE verdict # "retrying"
    BY <2>1, <2>2, <2>4 DEF Conversation
  <2> QED BY <2>3, <2>4
<1> HIDE DEF now
<1>5. /\ briefed' \in [Members -> Conversation] /\ briefed'[n] = now
      /\ \A m \in Members : m # n => briefed'[m] = briefed[m]
  BY <1>1, <1>2, <1>4
<1>6. Hears(n, now)
  BY <1>1, <1>2, <1>4 DEF Hears
<1>7. \A m \in Members : \A c : Hears(m, c) => Hears(m, c)'
  BY <1>1 DEF Hears, Opens, Asks, Quotes, launchState
<1>8. HeardInv'
  <2>1. ASSUME NEW m \in Members
        PROVE  /\ (briefed'[m]).judged \in {0, (briefed'[m]).settled} /\ (briefed'[m]).saved \in {0, (briefed'[m]).onRecord}
               /\ (briefed'[m]).state # "idle" => Hears(m, briefed'[m])
    BY <1>2, <1>4, <1>5, <1>6
  <2> QED BY <1>5, <1>7, <2>1 DEF HeardInv
<1>9. RecordInv'
  BY <1>1, <1>3 DEF BriefInv, RecordInv, launchState, Accepted, Schema
<1> QED BY <1>1, <1>8, <1>9, LaunchStays DEF BriefInv

\* An attempt the leg did not live to see the end of never was.
LEMMA LegEndKeeps == ASSUME BriefInv, BriefLegEnds PROVE BriefInv'
<1> DEFINE undone(n) == [briefed[n] EXCEPT !.state = "idle", !.heard = <<>>, !.settled = briefed[n].onRecord,
                                           !.judged = briefed[n].saved]
<1>1. /\ briefLeg.live /\ briefLeg' = [briefLeg EXCEPT !.live = FALSE, !.tries = 0]
      /\ briefed' = [n \in Members |-> IF briefed[n].state \in {"running", "retrying"} THEN undone(n) ELSE briefed[n]]
      /\ UNCHANGED <<launchState, stagedText, snap>>
  BY DEF BriefLegEnds
<1>2. /\ briefed \in [Members -> Conversation]
      /\ \A m \in Members :
            /\ briefed[m].judged \in {0, briefed[m].settled} /\ briefed[m].saved \in {0, briefed[m].onRecord}
            /\ briefed[m].state # "idle" => Hears(m, briefed[m])
  BY DEF BriefInv, HeardInv
<1>3. /\ briefLeg' = [no |-> briefLeg'.no, live |-> briefLeg'.live, prefix |-> briefLeg'.prefix,
                      guard |-> briefLeg'.guard, tries |-> briefLeg'.tries]
      /\ briefLeg'.no = briefLeg.no /\ ~briefLeg'.live /\ briefLeg.no > 0
  <2>1. /\ briefLeg = [no |-> briefLeg.no, live |-> briefLeg.live, prefix |-> briefLeg.prefix,
                       guard |-> briefLeg.guard, tries |-> briefLeg.tries]
        /\ briefLeg.no \in Nat /\ briefLeg.no # 0
    BY <1>1 DEF BriefInv, RecordInv
  <2> HIDE DEF undone
  <2>2. briefLeg' = [briefLeg EXCEPT !.live = FALSE, !.tries = 0]
    BY <1>1
  <2>3. briefLeg.no > 0
    BY <2>1
  <2>4. briefLeg' = [no |-> briefLeg.no, live |-> FALSE, prefix |-> briefLeg.prefix,
                     guard |-> briefLeg.guard, tries |-> 0]
    BY <2>1, <2>2
  <2> QED BY <2>3, <2>4
<1>4. ASSUME NEW m \in Members
      PROVE  /\ undone(m) \in Conversation /\ undone(m).state = "idle"
             /\ undone(m).judged \in {0, undone(m).settled} /\ undone(m).saved \in {0, undone(m).onRecord}
  <2>1. briefed[m] \in Conversation /\ <<>> \in Seq(Item)
    BY <1>2, <1>4
  <2> QED BY <1>2, <1>4, <2>1 DEF Conversation
<1> HIDE DEF undone
<1>5. /\ briefed' \in [Members -> Conversation]
      /\ \A m \in Members : briefed'[m] = briefed[m] \/ briefed'[m] = undone(m)
  BY <1>1, <1>2, <1>4
<1>6. \A m \in Members : \A c : Hears(m, c) => Hears(m, c)'
  BY <1>1 DEF Hears, Opens, Asks, Quotes, launchState
<1>7. HeardInv'
  <2>1. ASSUME NEW m \in Members
        PROVE  /\ (briefed'[m]).judged \in {0, (briefed'[m]).settled} /\ (briefed'[m]).saved \in {0, (briefed'[m]).onRecord}
               /\ (briefed'[m]).state # "idle" => Hears(m, briefed'[m])
    BY <1>2, <1>4, <1>5
  <2> QED BY <1>5, <1>6, <2>1 DEF HeardInv
<1>8. RecordInv'
  BY <1>1, <1>3 DEF BriefInv, RecordInv, launchState, Accepted, Schema
<1> QED BY <1>1, <1>7, <1>8, LaunchStays DEF BriefInv

\* A program that accepts the record's schema knows of what the record names.
LEMMA ResumeKeeps == ASSUME BriefInv, NEW build \in Builds, ResumeBy(build) PROVE BriefInv'
<1> DEFINE conventions == IF 4 \in build THEN snap.conventions ELSE NoTexts
           answers == IF 4 \in build THEN snap.interview ELSE Missing
           guard == 5 \in build /\ snap.guard
           again(n) == [briefed[n] EXCEPT !.state = "idle", !.heard = <<>>]
<1>1. /\ briefLeg.no \in 1..(MaxBriefLegs - 1) /\ snap.schema \in build
      /\ briefLeg' = [no |-> briefLeg.no + 1, live |-> TRUE, prefix |-> conventions, guard |-> guard, tries |-> 0]
      /\ snap' = Saved(conventions, answers, guard)
      /\ briefed' = [n \in Members |-> IF briefed[n].state = "PASS" THEN briefed[n] ELSE again(n)]
      /\ UNCHANGED <<launchState, stagedText>>
  BY DEF ResumeBy
<1>2. /\ briefed \in [Members -> Conversation]
      /\ \A m \in Members :
            /\ briefed[m].judged \in {0, briefed[m].settled} /\ briefed[m].saved \in {0, briefed[m].onRecord}
            /\ briefed[m].state # "idle" => Hears(m, briefed[m])
  BY DEF BriefInv, HeardInv
<1>3. /\ briefLeg.no \in Nat /\ briefLeg.no > 0 /\ load.at = IF options.named THEN "accepted" ELSE "naming"
      /\ snap.conventions = Accepted /\ snap.guard = options.guard /\ options.guard \in BOOLEAN
      /\ snap.schema = Schema(snap.conventions, snap.guard)
  <2>1. briefLeg.no \in Nat /\ briefLeg.no > 0
    <3>1. briefLeg.no \in 1..(MaxBriefLegs - 1) /\ MaxBriefLegs \in Nat
      BY <1>1, BriefAssumption
    <3> QED BY <3>1
  <2> QED BY <2>1 DEF BriefInv, RecordInv, LaunchInv
<1>4. conventions = Accepted /\ guard = options.guard
  <2>1. build \in {{3}, {3, 4}, {3, 4, 5}}
    BY BriefAssumption
  <2>2. CASE options.guard
    <3>1. 5 \in build
      BY <1>1, <1>3, <2>2 DEF Schema
    <3>2. 4 \in build
      BY <2>1, <3>1
    <3>3. guard /\ guard \in BOOLEAN
      BY <1>3, <2>2, <3>1
    <3>4. guard = options.guard
      BY <1>3, <2>2, <3>3
    <3> QED BY <1>3, <3>2, <3>4
  <2>3. CASE ~options.guard /\ Accepted # NoTexts
    <3>1. 4 \in build
      BY <1>1, <1>3, <2>3 DEF Schema
    <3> QED BY <1>3, <2>3, <3>1
  <2>4. CASE ~options.guard /\ Accepted = NoTexts
    BY <1>3, <2>4
  <2> QED BY <2>2, <2>3, <2>4, <1>3
<1> HIDE DEF conventions, guard
<1>5. ASSUME NEW m \in Members
      PROVE  /\ again(m) \in Conversation /\ again(m).state = "idle"
             /\ again(m).judged \in {0, again(m).settled} /\ again(m).saved \in {0, again(m).onRecord}
  <2>1. briefed[m] \in Conversation /\ <<>> \in Seq(Item)
    BY <1>2, <1>5
  <2> QED BY <1>2, <1>5, <2>1 DEF Conversation
<1> HIDE DEF again
<1>6. /\ briefed' \in [Members -> Conversation]
      /\ \A m \in Members : briefed'[m] = briefed[m] \/ briefed'[m] = again(m)
  BY <1>1, <1>2, <1>5
<1>7. \A m \in Members : \A c : Hears(m, c) => Hears(m, c)'
  BY <1>1 DEF Hears, Opens, Asks, Quotes, launchState
<1>8. HeardInv'
  <2>1. ASSUME NEW m \in Members
        PROVE  /\ (briefed'[m]).judged \in {0, (briefed'[m]).settled} /\ (briefed'[m]).saved \in {0, (briefed'[m]).onRecord}
               /\ (briefed'[m]).state # "idle" => Hears(m, briefed'[m])
    BY <1>2, <1>5, <1>6
  <2> QED BY <1>6, <1>7, <2>1 DEF HeardInv
<1>9. RecordInv'
  <2>1. snap'.conventions = Accepted /\ snap'.guard = options.guard /\ snap'.schema = Schema(Accepted, options.guard)
    BY <1>1, <1>4 DEF Saved
  <2>2. UNCHANGED <<load, options>> /\ Accepted' = Accepted
    BY <1>1 DEF launchState, Accepted
  <2>3. \A c, g : Schema(c, g)' = Schema(c, g)
    BY DEF Schema
  <2> QED BY <1>1, <1>3, <1>4, <2>1, <2>2, <2>3 DEF RecordInv
<1> QED BY <1>1, <1>8, <1>9, LaunchStays DEF BriefInv

LEMMA BriefStep == ASSUME BriefInv, [BriefNext]_briefVars PROVE BriefInv'
<1>1. ASSUME UNCHANGED briefVars PROVE BriefInv'
  <2>1. UNCHANGED launchState
    BY <1>1 DEF briefVars, launchState
  <2>2. RecordInv'
    BY <1>1 DEF BriefInv, RecordInv, briefVars, Accepted, Schema
  <2>3. HeardInv'
    BY <1>1 DEF BriefInv, HeardInv, briefVars, Hears, Opens, Asks, Quotes
  <2> QED BY <2>1, <2>2, <2>3, LaunchStays DEF BriefInv
<1>2. ASSUME BriefNext PROVE BriefInv'
  BY <1>2, EditKeeps, RelinkKeeps, StatKeeps, ReadKeeps, StageKeeps, AlterKeeps, AttemptKeeps, SettleKeeps,
     LegEndKeeps, ResumeKeeps DEF BriefNext
<1> QED BY <1>1, <1>2

\* Whoever edits or re-points the files while they are read, whatever a node writes
\* in the run's directory, and whichever programs resume the run: every conversation
\* opens with the accepted conventions and holds them once, quotes of the node's own
\* replies that of its attempt before, and no leg drops the guard (conventions.Load,
\* withConventions, startCold, Write): for any files, programs, attempts and legs.
THEOREM AllToldTheSame == BriefSpec => []BriefedAlike
<1>1. BriefInit => BriefInv
  BY BriefInitial
<1>2. BriefInv /\ [BriefNext]_briefVars => BriefInv'
  BY BriefStep
<1>3. BriefInv => BriefedAlike
  <2> SUFFICES ASSUME BriefInv PROVE BriefedAlike
    OBVIOUS
  <2>1. ASSUME NEW n \in Members, briefed[n].state # "idle"
        PROVE  /\ IF options.named
                  THEN Heard(n, "conventions") = {1} /\ briefed[n].heard[1] = Told(load.texts)
                  ELSE Heard(n, "conventions") = {}
               /\ \A i \in Heard(n, "reply") :
                     briefed[n].heard[i].of[1] = n =>
                        briefed[n].heard[i].of[2] = briefed[n].settled - (IF briefed[n].state = "running" THEN 0 ELSE 1)
               /\ \E i \in Heard(n, "prompt") :
                     briefed[n].heard[i] = OwnPrompt(n) /\ \A j \in Heard(n, "prompt") : j <= i
    <3>1. Hears(n, briefed[n]) /\ briefed[n].settled \in Nat
      BY <2>1 DEF BriefInv, HeardInv, Conversation
    <3>2. Opens(briefed[n].heard) /\ Asks(n, briefed[n].heard)
      BY <3>1 DEF Hears
    <3>3. Quotes(n, briefed[n].heard, briefed[n].settled - (IF briefed[n].state = "running" THEN 0 ELSE 1))
      BY <3>1 DEF Hears
    <3>4. OwnPrompt(n).part = "prompt"
      BY DEF OwnPrompt
    <3> QED BY <3>2, <3>3, <3>4 DEF Opens, Asks, Quotes, Heard
  <2> QED BY <2>1 DEF BriefInv, LaunchInv, RecordInv, BriefedAlike
<1> QED BY <1>1, <1>2, <1>3, PTL DEF BriefSpec

----------------------------------------------------------------------------
(* What fits into the coordinator's prompts. *)

\* The lesser of two numbers.
LEMMA MinOfTwo ==
    ASSUME NEW a \in Int, NEW b \in Int
    PROVE  Min({a, b}) = IF a <= b THEN a ELSE b
<1>1. PICK m \in {a, b} : \A y \in {a, b} : m <= y
  <2>1. CASE a <= b
    BY <2>1
  <2>2. CASE b <= a
    BY <2>2
  <2> QED BY <2>1, <2>2
<1>2. Min({a, b}) \in {a, b} /\ \A y \in {a, b} : Min({a, b}) <= y
  BY <1>1, Zenon DEF Min
<1> QED
  BY <1>2

\* Some numbers have a least.
LEMMA LeastOfSome ==
    ASSUME NEW T, T \subseteq Nat, T # {}
    PROVE  \E t \in T : \A u \in T : t <= u
<1>1. PICK t \in T : \A u \in T : ~(<<u, t>> \in OpToRel(<, Nat))
  BY NatLessThanWellFounded, WFMin
<1>2. ASSUME NEW u \in T, u < t PROVE <<u, t>> \in OpToRel(<, Nat)
  <2>1. <<u, t>> \in Nat \X Nat /\ <<u, t>>[1] = u /\ <<u, t>>[2] = t
    OBVIOUS
  <2> QED
    BY <1>2, <2>1, Zenon DEF OpToRel
<1>3. \A u \in T : ~(u < t)
  BY <1>1, <1>2, Zenon
<1> QED
  BY <1>3

\* The largest of a set of numbers up to a bound is one of them.
LEMMA MaxOfSome ==
    ASSUME NEW n \in Nat, NEW S, S \subseteq 0..n, S # {}
    PROVE  Max(S) \in S /\ \A y \in S : Max(S) >= y
<1> DEFINE T == {n - s : s \in S}
<1>1. T \subseteq Nat /\ T # {}
  OBVIOUS
<1>2. PICK t \in T : \A u \in T : t <= u
  <2> HIDE DEF T
  <2> QED
    BY <1>1, LeastOfSome
<1>3. PICK m \in S : t = n - m
  OBVIOUS
<1>4. \A y \in S : m >= y
  BY <1>2, <1>3
<1> QED
  BY <1>4, Zenon DEF Max

----------------------------------------------------------------------------
(* Sums. *)

\* Induction over a finite set: of some of its subsets, one has none of them below it.
LEMMA SmallestSubset ==
    ASSUME NEW U, IsFiniteSet(U), NEW B, B \subseteq SUBSET U, B # {}
    PROVE  \E s \in B : \A x \in s : s \ {x} \notin B
<1>1. IsWellFoundedOn(StrictSubsetOrdering(U), SUBSET U)
  BY FS_StrictSubsetOrderingWellFounded, FS_FiniteSubsetsOfFinite
<1>2. PICK s \in B : \A y \in B : ~(<<y, s>> \in StrictSubsetOrdering(U))
  BY <1>1, WFMin
<1>3. ASSUME NEW x \in s PROVE s \ {x} \notin B
  <2>1. s \ {x} \in SUBSET U /\ s \in SUBSET U /\ s \ {x} \subseteq s /\ s \ {x} # s
    BY <1>3
  <2>2. <<s \ {x}, s>> \in StrictSubsetOrdering(U)
    BY <2>1 DEF StrictSubsetOrdering
  <2> QED
    BY <1>2, <2>2
<1> QED
  BY <1>3

\* One step of the recursion that MapThenSumSet makes over a set.
SumFrom(f, g, s) == IF s = {} THEN 0 ELSE LET x == CHOOSE y \in s : TRUE IN f[x] + g[s \ {x}]

\* The recursion is well-founded: over the subsets of some size, then of one more.
LEMMA SumsDefined ==
    ASSUME NEW f, NEW U, IsFiniteSet(U)
    PROVE  \E g : g = [s \in SUBSET U |-> SumFrom(f, g, s)]
<1> DEFINE D(n) == {s \in SUBSET U : Cardinality(s) <= n}
           P(n) == \E g : g = [s \in D(n) |-> SumFrom(f, g, s)]
           T == {n \in Nat : ~P(n)}
<1>0. \A s \in SUBSET U : /\ IsFiniteSet(s) /\ Cardinality(s) \in Nat
                          /\ Cardinality(s) = 0 <=> s = {}
                          /\ Cardinality(s) <= Cardinality(U)
                          /\ \A x \in s : Cardinality(s \ {x}) = Cardinality(s) - 1
  BY FS_Subset, FS_CardinalityType, FS_EmptySet, FS_RemoveElement
<1>1. P(0)
  <2> DEFINE h == [s \in D(0) |-> 0]
  <2>1. \A s \in D(0) : s = {}
    BY <1>0
  <2>2. h = [s \in D(0) |-> SumFrom(f, h, s)]
    BY <2>1 DEF SumFrom
  <2> QED
    BY <2>2, Zenon
<1>2. ASSUME NEW n \in Nat, P(n)
      PROVE  P(n + 1)
  <2>1. PICK g : g = [s \in D(n) |-> SumFrom(f, g, s)]
    BY <1>2
  <2> DEFINE h == [s \in D(n + 1) |-> IF s = {} THEN 0 ELSE f[CHOOSE y \in s : TRUE] + g[s \ {CHOOSE y \in s : TRUE}]]
  <2>2. ASSUME NEW s \in D(n + 1), s # {}
        PROVE  LET x == CHOOSE y \in s : TRUE IN h[s \ {x}] = g[s \ {x}] /\ x \in s
    <3> DEFINE x == CHOOSE y \in s : TRUE
    <3>1. x \in s
      BY <2>2
    <3> HIDE DEF x
    <3>2. s \ {x} \in D(n) /\ s \ {x} \in D(n + 1)
      BY <3>1, <1>0
    <3>3. g[s \ {x}] = SumFrom(f, g, s \ {x})
      BY <2>1, <3>2, Zenon
    <3>4. h[s \ {x}] = SumFrom(f, g, s \ {x})
      BY <3>2 DEF SumFrom
    <3> QED
      BY <3>1, <3>3, <3>4 DEF x
  <2>3. ASSUME NEW s \in D(n + 1)
        PROVE  h[s] = SumFrom(f, h, s)
    <3>1. CASE s = {}
      BY <3>1, <2>3 DEF SumFrom
    <3>2. CASE s # {}
      <4> DEFINE x == CHOOSE y \in s : TRUE
      <4>1. h[s] = f[x] + g[s \ {x}]
        BY <3>2, <2>3
      <4>2. h[s \ {x}] = g[s \ {x}]
        BY <3>2, <2>2
      <4> HIDE DEF h
      <4> QED
        BY <3>2, <4>1, <4>2 DEF SumFrom
    <3> QED
      BY <3>1, <3>2
  <2>4. h = [s \in D(n + 1) |-> h[s]]
    OBVIOUS
  <2> HIDE DEF h
  <2>5. h = [s \in D(n + 1) |-> SumFrom(f, h, s)]
    BY <2>3, <2>4
  <2> QED
    BY <2>5, Zenon
<1> HIDE DEF P
<1>3. ASSUME T # {}
      PROVE  FALSE
  <2>1. PICK t \in T : \A u \in T : t <= u
    BY <1>3, LeastOfSome
  <2>2. t # 0
    BY <1>1
  <2>3. t - 1 \in Nat /\ t - 1 \notin T
    BY <2>1, <2>2
  <2>4. P(t - 1)
    BY <2>3
  <2>5. P((t - 1) + 1) /\ (t - 1) + 1 = t
    BY <1>2, <2>3, <2>4
  <2> QED
    BY <2>5
<1>4. P(Cardinality(U)) /\ D(Cardinality(U)) = SUBSET U
  BY <1>0, <1>3
<1> QED
  BY <1>4 DEF P

\* A sum, by any of its terms.
LEMMA SumByOne ==
    ASSUME NEW U, IsFiniteSet(U), NEW f, \A i \in U : f[i] \in Nat
    PROVE  /\ Total(f, {}) = 0
           /\ \A s \in SUBSET U : Total(f, s) \in Nat
           /\ \A s \in SUBSET U : \A x \in s : Total(f, s) = f[x] + Total(f, s \ {x})
<1>1. PICK g : g = [s \in SUBSET U |-> SumFrom(f, g, s)]
  BY SumsDefined
<1>2. g[{}] = 0
  BY <1>1 DEF SumFrom
<1>3. \A s \in SUBSET U : s # {} => \E x \in s : g[s] = f[x] + g[s \ {x}]
  <2> SUFFICES ASSUME NEW s \in SUBSET U, s # {} PROVE \E x \in s : g[s] = f[x] + g[s \ {x}]
    OBVIOUS
  <2>1. g[s] = SumFrom(f, g, s)
    BY <1>1, Zenon
  <2>2. (CHOOSE y \in s : TRUE) \in s
    OBVIOUS
  <2> QED
    BY <2>1, <2>2 DEF SumFrom
<1>4. \A s \in SUBSET U : g[s] \in Nat
  <2> DEFINE B == {s \in SUBSET U : g[s] \notin Nat}
  <2>1. ASSUME B # {} PROVE FALSE
    <3>1. PICK s \in B : \A x \in s : s \ {x} \notin B
      BY <2>1, SmallestSubset
    <3>2. s # {}
      BY <1>2
    <3>3. PICK x \in s : g[s] = f[x] + g[s \ {x}]
      BY <1>3, <3>2
    <3>4. g[s \ {x}] \in Nat /\ f[x] \in Nat
      BY <3>1, <3>3
    <3> QED
      BY <3>3, <3>4
  <2> QED
    BY <2>1
<1>5. \A s \in SUBSET U : \A x \in s : g[s] = f[x] + g[s \ {x}]
  <2> DEFINE B == {s \in SUBSET U : \E x \in s : g[s] # f[x] + g[s \ {x}]}
  <2>1. ASSUME B # {} PROVE FALSE
    <3>1. PICK s \in B : \A x \in s : s \ {x} \notin B
      BY <2>1, SmallestSubset
    <3>2. PICK x \in s : g[s] # f[x] + g[s \ {x}]
      OBVIOUS
    <3>3. PICK c \in s : g[s] = f[c] + g[s \ {c}]
      BY <1>3, <3>2
    <3>4. c # x
      BY <3>2, <3>3
    <3>5. s \ {c} \in SUBSET U /\ s \ {x} \in SUBSET U /\ x \in s \ {c} /\ c \in s \ {x} /\ (s \ {c}) \ {x} = (s \ {x}) \ {c}
          /\ s \ {c} \notin B /\ s \ {x} \notin B
      BY <3>1, <3>2, <3>3, <3>4
    <3>6. g[s \ {c}] = f[x] + g[(s \ {c}) \ {x}] /\ g[s \ {x}] = f[c] + g[(s \ {x}) \ {c}]
      BY <3>5
    <3>7. f[x] \in Nat /\ f[c] \in Nat /\ g[(s \ {x}) \ {c}] \in Nat
      BY <1>4, <3>5
    <3> DEFINE a == f[x]
               b == f[c]
               d == g[(s \ {x}) \ {c}]
    <3>8. a \in Nat /\ b \in Nat /\ d \in Nat /\ g[s \ {c}] = a + d /\ g[s \ {x}] = b + d
      BY <3>5, <3>6, <3>7
    <3>9. g[s] = b + (a + d) /\ a + (b + d) # g[s]
      BY <3>2, <3>3, <3>8, Zenon
    <3> HIDE DEF a, b, d
    <3> QED
      BY <3>8, <3>9
  <2> QED
    BY <2>1
\* The total over a set has a recursion of its own, over the set's subsets.
<1>6. ASSUME NEW s \in SUBSET U
      PROVE  Total(f, s) = g[s]
  <2> DEFINE iter == CHOOSE h : h = [r \in SUBSET s |-> SumFrom(f, h, r)]
             B == {r \in SUBSET s : iter[r] # g[r]}
  <2>1. IsFiniteSet(s)
    BY FS_Subset
  <2>2. \E h : h = [r \in SUBSET s |-> SumFrom(f, h, r)]
    BY <2>1, SumsDefined
  <2>3. iter = [r \in SUBSET s |-> SumFrom(f, iter, r)]
    BY <2>2, Zenon
  <2>4. Total(f, s) = iter[s]
    BY Zenon DEF Total, MapThenSumSet, MapThenFoldSet, SumFrom
  <2> HIDE DEF iter
  <2>5. ASSUME B # {} PROVE FALSE
    <3>1. PICK r \in B : \A x \in r : r \ {x} \notin B
      BY <2>1, <2>5, SmallestSubset
    <3>2. iter[r] = SumFrom(f, iter, r) /\ g[r] = SumFrom(f, g, r)
      BY <1>1, <2>3, Zenon
    <3>3. CASE r = {}
      BY <3>2, <3>3 DEF SumFrom
    <3>4. CASE r # {}
      <4> DEFINE x == CHOOSE y \in r : TRUE
      <4>1. x \in r
        BY <3>4
      <4> HIDE DEF x
      <4>2. iter[r \ {x}] = g[r \ {x}]
        BY <3>1, <4>1
      <4> QED
        BY <3>2, <3>4, <4>2 DEF SumFrom, x
    <3> QED
      BY <3>3, <3>4
  <2> QED
    BY <2>4, <2>5
<1>7. \A s \in SUBSET U : Total(f, s) = g[s]
  BY <1>6
<1> QED
  BY <1>2, <1>4, <1>5, <1>7

\* Nothing adds up to nothing.
LEMMA SumOfNone ==
    ASSUME NEW f PROVE Total(f, {}) = 0
<1>1. IsFiniteSet({}) /\ \A i \in {} : f[i] \in Nat
  BY FS_EmptySet
<1> QED
  BY <1>1, SumByOne

\* Term by term.
LEMMA SumBound ==
    ASSUME NEW U, IsFiniteSet(U), NEW f, NEW g, \A i \in U : f[i] \in Nat /\ g[i] \in Nat /\ f[i] <= g[i]
    PROVE  Total(f, U) <= Total(g, U)
<1> DEFINE B == {s \in SUBSET U : ~(Total(f, s) <= Total(g, s))}
<1>0. /\ Total(f, {}) = 0 /\ Total(g, {}) = 0
      /\ \A s \in SUBSET U : Total(f, s) \in Nat /\ Total(g, s) \in Nat
      /\ \A s \in SUBSET U : \A x \in s : Total(f, s) = f[x] + Total(f, s \ {x})
      /\ \A s \in SUBSET U : \A x \in s : Total(g, s) = g[x] + Total(g, s \ {x})
  <2>1. (\A i \in U : f[i] \in Nat) /\ \A i \in U : g[i] \in Nat
    OBVIOUS
  <2> QED
    BY <2>1, SumByOne
<1>1. ASSUME B # {} PROVE FALSE
  <2>1. PICK s \in B : \A x \in s : s \ {x} \notin B
    BY <1>1, SmallestSubset
  <2>2. PICK x \in s : TRUE
    <3>1. CASE s = {}
      BY <3>1, <1>0
    <3> QED
      BY <3>1
  <2> DEFINE c == Total(f, s \ {x})
             d == Total(g, s \ {x})
  <2>3. c \in Nat /\ d \in Nat /\ c <= d
    BY <1>0, <2>1
  <2>4. Total(f, s) = f[x] + c /\ Total(g, s) = g[x] + d
    BY <1>0
  <2>5. f[x] \in Nat /\ g[x] \in Nat /\ f[x] <= g[x]
    OBVIOUS
  <2> HIDE DEF c, d
  <2>6. Total(f, s) <= Total(g, s)
    BY <2>3, <2>4, <2>5
  <2> QED
    BY <2>6
<1> QED
  BY <1>1

\* A sum looks only at its own set's values.
LEMMA SumSame ==
    ASSUME NEW U, IsFiniteSet(U), NEW f, NEW g, \A i \in U : f[i] \in Nat /\ g[i] = f[i]
    PROVE  Total(f, U) = Total(g, U)
<1>1. Total(f, U) <= Total(g, U) /\ Total(g, U) <= Total(f, U)
  BY SumBound
<1>2. Total(f, U) \in Nat /\ Total(g, U) \in Nat
  BY SumByOne
<1> QED
  BY <1>1, <1>2

\* A sum of sums is the sum of both.
LEMMA SumOfBoth ==
    ASSUME NEW U, IsFiniteSet(U), NEW f, NEW g, NEW h,
           \A i \in U : f[i] \in Nat /\ g[i] \in Nat /\ h[i] = f[i] + g[i]
    PROVE  Total(h, U) = Total(f, U) + Total(g, U)
<1> DEFINE B == {s \in SUBSET U : Total(h, s) # Total(f, s) + Total(g, s)}
<1>0. /\ Total(f, {}) = 0 /\ Total(g, {}) = 0 /\ Total(h, {}) = 0
      /\ \A s \in SUBSET U : Total(f, s) \in Nat /\ Total(g, s) \in Nat /\ Total(h, s) \in Nat
      /\ \A s \in SUBSET U : \A x \in s : Total(f, s) = f[x] + Total(f, s \ {x})
      /\ \A s \in SUBSET U : \A x \in s : Total(g, s) = g[x] + Total(g, s \ {x})
      /\ \A s \in SUBSET U : \A x \in s : Total(h, s) = h[x] + Total(h, s \ {x})
  <2>1. (\A i \in U : h[i] \in Nat) /\ (\A i \in U : f[i] \in Nat) /\ \A i \in U : g[i] \in Nat
    OBVIOUS
  <2> QED
    BY <2>1, SumByOne
<1>1. ASSUME B # {} PROVE FALSE
  <2>1. PICK s \in B : \A x \in s : s \ {x} \notin B
    BY <1>1, SmallestSubset
  <2>2. PICK x \in s : TRUE
    <3>1. CASE s = {}
      BY <3>1, <1>0
    <3> QED
      BY <3>1
  <2> DEFINE c == Total(f, s \ {x})
             d == Total(g, s \ {x})
             e == Total(h, s \ {x})
  <2>3. c \in Nat /\ d \in Nat /\ e = c + d
    BY <1>0, <2>1
  <2>4. Total(f, s) = f[x] + c /\ Total(g, s) = g[x] + d /\ Total(h, s) = h[x] + e
    BY <1>0
  <2>5. f[x] \in Nat /\ g[x] \in Nat /\ h[x] = f[x] + g[x]
    OBVIOUS
  <2> HIDE DEF c, d, e
  <2>6. Total(h, s) = Total(f, s) + Total(g, s)
    BY <2>3, <2>4, <2>5
  <2> QED
    BY <2>6
<1> QED
  BY <1>1

\* A set's sum is that of its two parts.
LEMMA SumOfParts ==
    ASSUME NEW U, IsFiniteSet(U), NEW f, \A i \in U : f[i] \in Nat, NEW S \in SUBSET U
    PROVE  Total(f, U) = Total(f, S) + Total(f, U \ S)
<1> DEFINE B == {s \in SUBSET (U \ S) : Total(f, S \cup s) # Total(f, S) + Total(f, s)}
<1>0. /\ Total(f, {}) = 0
      /\ \A s \in SUBSET U : Total(f, s) \in Nat
      /\ \A s \in SUBSET U : \A x \in s : Total(f, s) = f[x] + Total(f, s \ {x})
  BY SumByOne
<1>1. ASSUME B # {} PROVE FALSE
  <2>0. IsFiniteSet(U \ S)
    BY FS_Subset
  <2>1. PICK s \in B : \A x \in s : s \ {x} \notin B
    BY <1>1, <2>0, SmallestSubset
  <2>2. PICK x \in s : TRUE
    <3>1. S \cup {} = S
      OBVIOUS
    <3>2. Total(f, S) \in Nat
      BY <1>0
    <3>3. CASE s = {}
      BY <3>1, <3>2, <3>3, <1>0
    <3> QED
      BY <3>3
  <2> DEFINE c == Total(f, s \ {x})
             d == Total(f, S \cup (s \ {x}))
  <2>3. c \in Nat /\ Total(f, S) \in Nat /\ d = Total(f, S) + c
    <3>1. s \ {x} \in SUBSET (U \ S) /\ s \ {x} \in SUBSET U /\ S \in SUBSET U
      OBVIOUS
    <3> QED
      BY <1>0, <2>1, <3>1
  <2>4. Total(f, s) = f[x] + c /\ Total(f, S \cup s) = f[x] + d
    <3>1. (S \cup s) \ {x} = S \cup (s \ {x}) /\ S \cup s \in SUBSET U /\ s \in SUBSET U /\ x \in S \cup s
      OBVIOUS
    <3> QED
      BY <1>0, <3>1
  <2>5. f[x] \in Nat
    OBVIOUS
  <2> HIDE DEF c, d
  <2>6. Total(f, S \cup s) = Total(f, S) + Total(f, s)
    BY <2>3, <2>4, <2>5
  <2> QED
    BY <2>6
<1>2. S \cup (U \ S) = U
  OBVIOUS
<1> QED
  BY <1>1, <1>2

\* Equal values add up to a product.
LEMMA SumOfAlike ==
    ASSUME NEW U, IsFiniteSet(U), NEW c \in Nat, NEW f, \A i \in U : f[i] = c
    PROVE  Total(f, U) = c * Cardinality(U)
<1> DEFINE B == {s \in SUBSET U : Total(f, s) # c * Cardinality(s)}
<1>0. /\ Total(f, {}) = 0
      /\ \A s \in SUBSET U : Total(f, s) \in Nat
      /\ \A s \in SUBSET U : \A x \in s : Total(f, s) = f[x] + Total(f, s \ {x})
  <2>1. \A i \in U : f[i] \in Nat
    OBVIOUS
  <2> QED
    BY <2>1, SumByOne
<1>1. ASSUME B # {} PROVE FALSE
  <2>1. PICK s \in B : \A x \in s : s \ {x} \notin B
    BY <1>1, SmallestSubset
  <2>2. PICK x \in s : TRUE
    <3>1. CASE s = {}
      BY <3>1, <1>0, FS_EmptySet
    <3> QED
      BY <3>1
  <2>3. IsFiniteSet(s) /\ Cardinality(s \ {x}) = Cardinality(s) - 1
    BY FS_Subset, FS_RemoveElement
  <2> DEFINE n == Cardinality(s)
             m == Cardinality(s \ {x})
             d == Total(f, s \ {x})
  <2>4. n \in Nat /\ m \in Nat /\ m = n - 1 /\ d = c * m
    BY <2>1, <2>3, FS_CardinalityType, FS_Subset
  <2>5. Total(f, s) = c + d
    BY <1>0
  <2> HIDE DEF n, m, d
  <2>6. Total(f, s) = c * n
    BY <2>4, <2>5
  <2> QED
    BY <2>6 DEF n
<1> QED
  BY <1>1

\* A part is at most the whole, and a term at most the sum.
LEMMA SumOfSome ==
    ASSUME NEW U, IsFiniteSet(U), NEW f, \A i \in U : f[i] \in Nat
    PROVE  /\ Total(f, U) \in Nat
           /\ \A S \in SUBSET U : Total(f, S) \in Nat /\ Total(f, S) <= Total(f, U)
           /\ \A i \in U : f[i] <= Total(f, U)
<1>1. \A S \in SUBSET U : Total(f, S) \in Nat
  BY SumByOne
<1>2. ASSUME NEW S \in SUBSET U PROVE Total(f, S) <= Total(f, U)
  <2>1. Total(f, U) = Total(f, S) + Total(f, U \ S)
    BY SumOfParts
  <2>2. Total(f, S) \in Nat /\ Total(f, U \ S) \in Nat
    BY <1>1
  <2> QED
    BY <2>1, <2>2
<1>3. ASSUME NEW i \in U PROVE f[i] <= Total(f, U)
  <2>1. Total(f, U) = f[i] + Total(f, U \ {i})
    BY SumByOne
  <2>2. Total(f, U \ {i}) \in Nat /\ f[i] \in Nat
    BY <1>1
  <2> QED
    BY <2>1, <2>2
<1> QED
  BY <1>1, <1>2, <1>3

\* Who wants at most a level, and all who want no less.
Splits(f, U, c, S) == (\A i \in S : f[i] <= c) /\ \A i \in U \ S : f[i] >= c
\* What everyone gets of a level.
Capped(f, U, c) == [i \in U |-> Min({f[i], c})]

\* Everyone filled up to a level: who wants less is full.
LEMMA FilledUpTo ==
    ASSUME NEW U, IsFiniteSet(U), NEW f, \A i \in U : f[i] \in Nat
    PROVE  \A c \in Nat : \A S \in SUBSET U :
               Splits(f, U, c, S) => Total(Capped(f, U, c), U) = Total(f, S) + c * Cardinality(U \ S)
<1> SUFFICES ASSUME NEW c \in Nat, NEW S \in SUBSET U, Splits(f, U, c, S)
             PROVE  Total(Capped(f, U, c), U) = Total(f, S) + c * Cardinality(U \ S)
  OBVIOUS
<1> DEFINE g == Capped(f, U, c)
<1>0. \A i \in U : g[i] = IF f[i] <= c THEN f[i] ELSE c
  BY MinOfTwo DEF Capped
<1> HIDE DEF g
<1>1. IsFiniteSet(S) /\ IsFiniteSet(U \ S)
  BY FS_Subset
<1>2. \A i \in S : g[i] = f[i] /\ f[i] \in Nat
  BY <1>0 DEF Splits
<1>3. \A i \in U \ S : g[i] = c
  BY <1>0 DEF Splits
<1>4. \A i \in U : g[i] \in Nat
  BY <1>0
<1>5. Total(f, S) = Total(g, S)
  BY <1>1, <1>2, SumSame
<1>6. Total(g, U \ S) = c * Cardinality(U \ S)
  BY <1>1, <1>3, SumOfAlike
<1>7. Total(g, U) = Total(g, S) + Total(g, U \ S)
  BY <1>4, SumOfParts
<1> QED
  BY <1>5, <1>6, <1>7 DEF g

\* Somewhere a function of a set has its least value ...
LEMMA LeastIn ==
    ASSUME NEW S, S # {}, NEW f, \A i \in S : f[i] \in Nat
    PROVE  \E i \in S : \A j \in S : f[i] <= f[j]
<1> DEFINE T == {f[i] : i \in S}
<1>1. T \subseteq Nat /\ T # {}
  OBVIOUS
<1>2. PICK t \in T : \A u \in T : t <= u
  <2> HIDE DEF T
  <2> QED
    BY <1>1, LeastOfSome
<1>3. PICK i \in S : t = f[i]
  OBVIOUS
<1> QED
  BY <1>2, <1>3

\* ... and, bounded, its greatest.
LEMMA MostIn ==
    ASSUME NEW S, S # {}, NEW f, NEW n \in Nat, \A i \in S : f[i] \in 0..n
    PROVE  \E i \in S : \A j \in S : f[j] <= f[i]
<1> DEFINE g == [i \in S |-> n - f[i]]
<1>1. \A i \in S : g[i] \in Nat
  OBVIOUS
<1>2. PICK i \in S : \A j \in S : g[i] <= g[j]
  <2> HIDE DEF g
  <2> QED
    BY <1>1, LeastIn
<1> QED
  BY <1>2

\* Integer division, as the code's shares use it.
LEMMA Shared ==
    ASSUME NEW a \in Int, NEW n \in Nat, n > 0
    PROVE  \E q \in Int, r \in 0..(n - 1) :
               /\ q = a \div n /\ r = a % n
               /\ n * q = a - r
               /\ n * q <= a
               /\ a - n * q < n
               /\ \A b \in Int : n * b <= a => b <= q
               /\ \A b \in Int : b <= q => n * b <= a
               /\ a >= 0 => q \in Nat
<1>0. PICK q, r : q = a \div n /\ r = a % n
  OBVIOUS
<1>1. q \in Int /\ r \in 0..(n - 1) /\ a = n * q + r
  BY <1>0
<1>2. n * q <= a /\ a - n * q < n
  BY <1>1
<1>3. ASSUME NEW b \in Int, n * b <= a PROVE b <= q
  <2>1. CASE b >= q + 1
    <3>1. n * b >= n * (q + 1)
      BY <2>1, <1>1
    <3>2. n * (q + 1) = n * q + n
      BY <1>1
    <3>3. n * q \in Int /\ n * b \in Int /\ n * (q + 1) \in Int
      BY <1>1
    <3> QED
      BY <1>2, <1>3, <3>1, <3>2, <3>3
  <2> QED
    BY <2>1, <1>1
<1>4. ASSUME NEW b \in Int, b <= q PROVE n * b <= a
  <2>1. n * b <= n * q /\ n * b \in Int /\ n * q \in Int
    BY <1>4, <1>1
  <2> QED
    BY <2>1, <1>2
<1>5. a >= 0 => q \in Nat
  <2> SUFFICES ASSUME a >= 0 PROVE q \in Nat
    OBVIOUS
  <2>1. n * 0 <= a
    OBVIOUS
  <2> QED
    BY <2>1, <1>1, <1>3
<1>6. n * q = a - r
  BY <1>1
<1> QED
  BY <1>0, <1>1, <1>2, <1>3, <1>4, <1>5, <1>6, Zenon

\* Filled(wants, budget): what everyone gets fits, leaves less than one byte for each
\* if anyone is cut, and no higher level would fit.
LEMMA FilledFits ==
    ASSUME NEW wants, IsFiniteSet(DOMAIN wants), wants \in [DOMAIN wants -> Nat], NEW budget \in Nat
    PROVE  /\ waterLevel(wants, budget) \in Nat
           /\ Filled(wants, budget) = [i \in DOMAIN wants |-> Min({wants[i], waterLevel(wants, budget)})]
           /\ \A i \in DOMAIN wants : Filled(wants, budget)[i] \in 0..wants[i]
           /\ Total(Filled(wants, budget), DOMAIN wants) <= budget
           /\ \/ \A i \in DOMAIN wants : Filled(wants, budget)[i] = wants[i]
              \/ budget - Total(Filled(wants, budget), DOMAIN wants) < Cardinality(DOMAIN wants)
           /\ \A c \in Nat : Total(Capped(wants, DOMAIN wants, c), DOMAIN wants) <= budget =>
                  \A i \in DOMAIN wants : Min({wants[i], c}) <= Filled(wants, budget)[i]
<1> DEFINE U == DOMAIN wants
           Shorter(i) == {j \in U : wants[j] < wants[i]}
           Waiting(i) == Cardinality(U \ Shorter(i))
           Share(i) == (budget - Total(wants, Shorter(i))) \div Waiting(i)
           Fullx(i) == wants[i] <= Share(i)
           short == {i \in U : Fullx(i) /\ \A j \in Shorter(i) : Fullx(j)}
           long == U \ short
           level == waterLevel(wants, budget)
           Upto(c) == Capped(wants, U, c)
           Fits == /\ level \in Nat
                   /\ Total(Upto(level), U) <= budget
                   /\ \/ \A i \in U : Min({wants[i], level}) = wants[i]
                      \/ budget - Total(Upto(level), U) < Cardinality(U)
                   /\ \A c \in Nat : Total(Upto(c), U) <= budget => \A i \in U : Min({wants[i], c}) <= Min({wants[i], level})
<1>2. level = IF U = {} THEN 0
              ELSE IF long = {} THEN Max({wants[i] : i \in U})
              ELSE Share(CHOOSE i \in long : Shorter(i) \subseteq short)
  BY Zenon DEF waterLevel
<1>1. \A i \in U : wants[i] \in Nat
  OBVIOUS
<1>0. IsFiniteSet(U)
  OBVIOUS
<1>w. /\ level = waterLevel(wants, budget)
      /\ Filled(wants, budget) = Upto(level)
  BY DEF Filled, Capped
<1>u. U = DOMAIN wants
  OBVIOUS
<1>t. wants \in [U -> Nat]
  OBVIOUS
<1> HIDE DEF U, level
<1> USE <1>0, <1>t
<1>3. ASSUME NEW i \in U
      PROVE  /\ Total(wants, Shorter(i)) \in Nat
             /\ Waiting(i) \in Nat \ {0} /\ Waiting(i) <= Cardinality(U)
             /\ Share(i) \in Int
             /\ \A c \in Nat : c <= Share(i) <=> Total(wants, Shorter(i)) + c * Waiting(i) <= budget
             /\ budget - (Total(wants, Shorter(i)) + Share(i) * Waiting(i)) < Waiting(i)
  <2> DEFINE t == Total(wants, Shorter(i))
             n == Waiting(i)
  <2>1. t \in Nat
    BY <1>1, <1>0, SumByOne
  <2>2. i \in U \ Shorter(i) /\ IsFiniteSet(U \ Shorter(i))
    BY <1>1, <1>0, FS_Subset
  <2>3. n \in Nat /\ n # 0
    BY <2>2, FS_CardinalityType, FS_EmptySet
  <2>4. n <= Cardinality(U)
    BY <1>0, FS_Subset
  <2>5. Share(i) = (budget - t) \div n
    OBVIOUS
  <2> HIDE DEF t, n
  <2>6. budget - t \in Int /\ n > 0
    BY <2>1, <2>3
  <2>7. /\ Share(i) \in Int /\ (budget - t) - n * Share(i) < n
        /\ \A b \in Int : n * b <= budget - t => b <= Share(i)
        /\ \A b \in Int : b <= Share(i) => n * b <= budget - t
    <3>1. PICK q \in Int : /\ q = (budget - t) \div n /\ (budget - t) - n * q < n
                           /\ \A b \in Int : n * b <= budget - t => b <= q
                           /\ \A b \in Int : b <= q => n * b <= budget - t
      BY <2>3, <2>6, Shared
    <3>2. q = Share(i)
      BY <2>5, <3>1
    <3> QED
      BY <3>1, <3>2, Zenon
  <2>8. \A c \in Nat : c <= Share(i) <=> t + c * n <= budget
    <3> SUFFICES ASSUME NEW c \in Nat PROVE c <= Share(i) <=> t + c * n <= budget
      OBVIOUS
    <3> DEFINE p == n * c
    <3>1. c <= Share(i) <=> p <= budget - t
      BY <2>7
    <3>2. p = c * n /\ p \in Int
      BY <2>3
    <3> HIDE DEF p
    <3>3. p <= budget - t <=> t + p <= budget
      BY <2>1, <3>2
    <3> QED
      BY <3>1, <3>2, <3>3
  <2>9. budget - (t + Share(i) * n) < n
    <3> DEFINE p == n * Share(i)
    <3>1. p = Share(i) * n /\ p \in Int /\ (budget - t) - p < n
      BY <2>3, <2>7
    <3> HIDE DEF p
    <3>2. budget - (t + p) < n
      BY <2>1, <2>3, <3>1
    <3> QED
      BY <3>1, <3>2
  <2> QED
    BY <2>1, <2>3, <2>4, <2>7, <2>8, <2>9 DEF t, n
<1> HIDE DEF Share, Waiting
\* What a level takes, split at the wants of one of them.
<1>4. \A i \in U : \A c \in Nat :
          (\A j \in Shorter(i) : wants[j] <= c) /\ c <= wants[i] =>
              Total(Upto(c), U) = Total(wants, Shorter(i)) + c * Waiting(i)
  <2> SUFFICES ASSUME NEW i \in U, NEW c \in Nat, \A j \in Shorter(i) : wants[j] <= c, c <= wants[i]
               PROVE  Total(Upto(c), U) = Total(wants, Shorter(i)) + c * Waiting(i)
    OBVIOUS
  <2>1. Shorter(i) \in SUBSET U /\ \A j \in U \ Shorter(i) : wants[j] >= c
    BY <1>1
  <2>2. \A d \in Nat : \A S \in SUBSET U :
            Splits(wants, U, d, S) => Total(Capped(wants, U, d), U) = Total(wants, S) + d * Cardinality(U \ S)
    BY <1>1, FilledUpTo
  <2> HIDE DEF Shorter
  <2>3. Splits(wants, U, c, Shorter(i))
    BY <2>1 DEF Splits
  <2> QED
    BY <2>1, <2>2, <2>3 DEF Waiting
<1>5. ASSUME U = {} PROVE Fits
  <2>1. level = 0
    BY <1>2, <1>5
  <2>2. Total(Upto(level), U) = 0
    BY <1>5, SumOfNone
  <2> HIDE DEF Upto
  <2> QED
    BY <1>5, <2>1, <2>2
<1>6. ASSUME U # {}, long = {} PROVE Fits
  <2>1. \A i \in U : wants[i] <= Total(wants, U) /\ Total(wants, U) \in Nat
    BY <1>1, <1>0, SumOfSome
  <2>2. PICK i \in U : \A j \in U : wants[j] <= wants[i]
    <3>1. \A j \in U : wants[j] \in 0..Total(wants, U)
      BY <2>1
    <3> QED
      BY <1>6, <2>1, <3>1, MostIn
  <2>3. level = wants[i]
    <3> DEFINE S == {wants[j] : j \in U}
    <3>1. S \subseteq 0..wants[i] /\ wants[i] \in S
      BY <2>2
    <3>2. Max(S) \in S /\ \A y \in S : Max(S) >= y
      <4> HIDE DEF S
      <4> QED
        BY <3>1, MaxOfSome
    <3>3. level = Max(S)
      BY <1>2, <1>6
    <3>4. level \in 0..wants[i] /\ level >= wants[i]
      BY <3>1, <3>2, <3>3
    <3> QED
      BY <3>4
  <2>4. Total(Upto(wants[i]), U) <= budget
    <3>1. i \in short
      BY <1>6
    <3>2. wants[i] <= Share(i)
      BY <3>1
    <3>3. Total(wants, Shorter(i)) + wants[i] * Waiting(i) <= budget
      BY <1>3, <3>2
    <3>4. \A j \in Shorter(i) : wants[j] <= wants[i]
      BY <2>2
    <3>5. wants[i] \in Nat /\ wants[i] <= wants[i]
      BY <1>1
    <3> HIDE DEF Shorter, Upto
    <3>6. Total(Upto(wants[i]), U) = Total(wants, Shorter(i)) + wants[i] * Waiting(i)
      BY <1>4, <3>4, <3>5
    <3> QED
      BY <3>3, <3>6
  <2>5. \A j \in U : Min({wants[j], wants[i]}) = wants[j]
    BY <2>2, MinOfTwo
  <2>6. \A c \in Nat, j \in U : Min({wants[j], c}) <= wants[j]
    BY MinOfTwo
  <2> HIDE DEF Upto
  <2> QED
    BY <1>1, <2>3, <2>4, <2>5, <2>6
<1>7. ASSUME U # {}, long # {} PROVE Fits
  <2> DEFINE i == CHOOSE j \in long : Shorter(j) \subseteq short
  <2>1. i \in long /\ Shorter(i) \subseteq short
    <3>1. PICK j \in long : \A k \in long : wants[j] <= wants[k]
      <4>1. \A k \in long : wants[k] \in Nat
        OBVIOUS
      <4> QED
        BY <1>7, <4>1, LeastIn
    <3>2. Shorter(j) \subseteq short
      BY <3>1
    <3> QED
      BY <3>2
  <2>2. level = Share(i)
    BY <1>2, <1>7, Zenon
  <2> HIDE DEF i
  <2>3. i \in U /\ wants[i] > Share(i)
    <3>1. ~Fullx(i)
      BY <2>1
    <3>2. Share(i) \in Int
      BY <1>3, <2>1
    <3> QED
      BY <1>1, <2>1, <3>1, <3>2
  <2> DEFINE t == Total(wants, Shorter(i))
             n == Waiting(i)
             l == Share(i)
  <2>4. /\ t \in Nat /\ n \in Nat \ {0} /\ n <= Cardinality(U) /\ l \in Int
        /\ budget - (t + l * n) < n
        /\ \A c \in Nat : c <= l <=> t + c * n <= budget
    BY <1>3, <2>3
  <2>5. \A j \in Shorter(i) : wants[j] <= l
    <3> SUFFICES ASSUME NEW k \in Shorter(i) PROVE wants[k] <= l
      OBVIOUS
    <3>1. PICK m \in Shorter(i) : \A j \in Shorter(i) : wants[j] <= wants[m]
      <4>1. \A j \in Shorter(i) : wants[j] \in 0..wants[i]
        BY <1>1, <2>3
      <4>2. wants[i] \in Nat
        BY <1>1, <2>3
      <4> QED
        BY <4>1, <4>2, MostIn
    <3>2. m \in U /\ wants[m] \in Nat /\ wants[m] <= Share(m) /\ \A j \in Shorter(m) : wants[j] <= wants[m]
      BY <2>1, <3>1
    <3>3. Total(wants, Shorter(m)) + wants[m] * Waiting(m) <= budget
      BY <1>3, <3>2
    <3>4. Total(Upto(wants[m]), U) = Total(wants, Shorter(m)) + wants[m] * Waiting(m)
      <4>1. wants[m] <= wants[m]
        BY <3>2
      <4> HIDE DEF Upto, Shorter
      <4> QED
        BY <1>4, <3>2, <4>1
    <3>5. Total(Upto(wants[m]), U) = t + wants[m] * n
      <4>1. wants[m] <= wants[i]
        BY <1>1, <2>3, <3>2
      <4> QED
        BY <1>4, <2>3, <3>1, <3>2, <4>1
    <3>6. wants[m] <= l
      BY <2>4, <3>2, <3>3, <3>4, <3>5
    <3> QED
      BY <1>1, <2>4, <3>1, <3>2, <3>6
  <2>6. l \in Nat
    <3>1. CASE Shorter(i) = {}
      <4>1. t = 0
        BY <3>1, SumOfNone
      <4>2. t + 0 * n <= budget
        BY <2>4, <4>1
      <4>3. 0 <= l
        BY <2>4, <4>2
      <4> QED
        BY <2>4, <4>3
    <3>2. CASE Shorter(i) # {}
      BY <1>1, <2>4, <2>5, <3>2
    <3> QED
      BY <3>1, <3>2
  <2>7. Total(Upto(l), U) = t + l * n
    <3>1. l <= wants[i]
      BY <1>1, <2>3, <2>6
    <3> HIDE DEF Shorter, Upto, l
    <3> QED
      BY <1>4, <2>3, <2>5, <2>6, <3>1
  <2>8. t + l * n <= budget
    BY <2>4, <2>6
  <2>9. budget - (t + l * n) < Cardinality(U)
    <3> DEFINE p == t + l * n
    <3>1. p \in Int /\ budget - p < n
      BY <2>4
    <3>2. Cardinality(U) \in Nat
      BY <1>0, FS_CardinalityType
    <3> HIDE DEF p, n
    <3> QED
      BY <2>4, <3>1, <3>2 DEF p
  <2>10. ASSUME NEW c \in Nat, Total(Upto(c), U) <= budget, NEW j \in U, ~(Min({wants[j], c}) <= Min({wants[j], l}))
         PROVE  FALSE
    <3>1. c > l /\ wants[j] > l
      BY <1>1, <2>6, <2>10, MinOfTwo
    <3>2. ~(t + (l + 1) * n <= budget)
      BY <2>4, <2>6
    <3>3. Total(Upto(l + 1), U) = t + (l + 1) * n
      <4>1. l + 1 \in Nat /\ l + 1 <= wants[i] /\ \A k \in Shorter(i) : wants[k] <= l + 1
        BY <1>1, <2>3, <2>5, <2>6
      <4> QED
        BY <1>4, <2>3, <4>1
    <3>4. Total(Upto(l + 1), U) <= Total(Upto(c), U)
      <4>1. \A k \in U : Upto(l + 1)[k] \in Nat /\ Upto(c)[k] \in Nat /\ Upto(l + 1)[k] <= Upto(c)[k]
        BY <1>1, <2>6, <3>1, MinOfTwo DEF Capped
      <4> HIDE DEF Upto
      <4> QED
        BY <4>1, <1>0, SumBound
    <3>5. Total(Upto(c), U) \in Nat /\ Total(Upto(l + 1), U) \in Nat
      <4>1. \A k \in U : Upto(l + 1)[k] \in Nat /\ Upto(c)[k] \in Nat
        BY <1>1, <2>6, MinOfTwo DEF Capped
      <4> HIDE DEF Upto
      <4> QED
        BY <4>1, <1>0, SumByOne
    <3> HIDE DEF Upto, t, n, l
    <3> QED
      BY <2>10, <3>2, <3>3, <3>4, <3>5
  <2>11. Total(Upto(l), U) <= budget /\ budget - Total(Upto(l), U) < Cardinality(U)
    BY <2>7, <2>8, <2>9
  <2>12. level = l
    BY <2>2
  <2> HIDE DEF Upto, l, t, n
  <2> QED
    BY <2>6, <2>10, <2>11, <2>12
<1>8. Fits
  BY <1>5, <1>6, <1>7
<1>10. \A i \in U : Upto(level)[i] = Min({wants[i], level}) /\ Upto(level)[i] \in 0..wants[i]
  BY <1>1, <1>8, MinOfTwo DEF Capped
<1>11. /\ \A i \in U : Upto(level)[i] \in 0..wants[i]
       /\ Total(Upto(level), U) <= budget
       /\ \/ \A i \in U : Upto(level)[i] = wants[i]
          \/ budget - Total(Upto(level), U) < Cardinality(U)
       /\ \A c \in Nat : Total(Upto(c), U) <= budget =>
              \A i \in U : Min({wants[i], c}) <= Upto(level)[i]
  <2> HIDE DEF Upto
  <2> QED
    BY <1>8, <1>10
<1>12. Upto(level) = [i \in U |-> Min({wants[i], level})] /\ level \in Nat
  BY <1>8 DEF Capped
<1> QED
  BY <1>11, <1>12, <1>w, <1>u

\* restAllowances' parts: the groups' order, whose floors fit, the first whose do not.
Sooner(asks, later, i, j) == IF later[i] = later[j] THEN asks[i] < asks[j] ELSE later[j]
\* Who asks for anything.
Needy(asks) == {i \in DOMAIN asks : asks[i] > 0}
\* Whose floors fit, with those before them and their like.
Whole(asks, later, budget) ==
    {i \in Needy(asks) : Total(Floors(asks), {j \in Needy(asks) : ~Sooner(asks, later, i, j)}) <= budget}
\* The first group whose floors do not all fit.
Group(asks, later, budget) ==
    {i \in Needy(asks) \ Whole(asks, later, budget) :
         \A j \in Needy(asks) \ Whole(asks, later, budget) : ~Sooner(asks, later, j, i)}

\* The order of the groups is one of numbers.
LEMMA Ranks ==
    ASSUME NEW asks, IsFiniteSet(DOMAIN asks), asks \in [DOMAIN asks -> Nat], NEW later \in [DOMAIN asks -> BOOLEAN]
    PROVE  \E n \in Nat : \E rank \in [DOMAIN asks -> 0..n] : \A i, j \in DOMAIN asks :
               /\ Sooner(asks, later, i, j) <=> rank[i] < rank[j]
               /\ rank[i] = rank[j] => asks[i] = asks[j] /\ later[i] = later[j]
<1> DEFINE U == DOMAIN asks
           n == Total(asks, U)
           rank == [i \in U |-> IF later[i] THEN asks[i] + (n + 1) ELSE asks[i]]
<1>1. n \in Nat /\ \A i \in U : asks[i] \in Nat /\ asks[i] <= n
  <2>1. \A i \in U : asks[i] \in Nat
    OBVIOUS
  <2> QED
    BY <2>1, SumOfSome
<1>u. U = DOMAIN asks /\ later \in [U -> BOOLEAN]
  OBVIOUS
<1> HIDE DEF U, n
<1>2. rank \in [U -> 0..(2 * n + 1)]
  BY <1>1, <1>u
<1>3. ASSUME NEW i \in U, NEW j \in U
      PROVE  /\ Sooner(asks, later, i, j) <=> rank[i] < rank[j]
             /\ rank[i] = rank[j] => asks[i] = asks[j] /\ later[i] = later[j]
  <2>1. asks[i] \in 0..n /\ asks[j] \in 0..n
    BY <1>1
  <2>2. CASE later[i] /\ later[j]
    <3>1. rank[i] = asks[i] + (n + 1) /\ rank[j] = asks[j] + (n + 1) /\ later[i] = later[j]
      BY <1>u, <2>2
    <3>2. Sooner(asks, later, i, j) <=> asks[i] < asks[j]
      BY <3>1 DEF Sooner
    <3> HIDE DEF rank
    <3> QED
      BY <1>1, <2>1, <3>1, <3>2
  <2>3. CASE ~later[i] /\ ~later[j]
    <3>1. rank[i] = asks[i] /\ rank[j] = asks[j] /\ later[i] = later[j]
      BY <1>u, <2>3
    <3>2. Sooner(asks, later, i, j) <=> asks[i] < asks[j]
      BY <3>1 DEF Sooner
    <3> HIDE DEF rank
    <3> QED
      BY <1>1, <2>1, <3>1, <3>2
  <2>4. CASE later[i] /\ ~later[j]
    <3>1. rank[i] = asks[i] + (n + 1) /\ rank[j] = asks[j] /\ later[i] # later[j]
      BY <1>u, <2>4
    <3>2. ~Sooner(asks, later, i, j)
      BY <2>4, <3>1 DEF Sooner
    <3> HIDE DEF rank
    <3> QED
      BY <1>1, <2>1, <3>1, <3>2
  <2>5. CASE ~later[i] /\ later[j]
    <3>1. rank[i] = asks[i] /\ rank[j] = asks[j] + (n + 1) /\ later[i] # later[j]
      BY <1>u, <2>5
    <3>2. Sooner(asks, later, i, j)
      BY <2>5, <3>1 DEF Sooner
    <3> HIDE DEF rank
    <3> QED
      BY <1>1, <2>1, <3>1, <3>2
  <2> QED
    BY <1>u, <2>2, <2>3, <2>4, <2>5
<1>4. 2 * n + 1 \in Nat
  BY <1>1
<1> HIDE DEF rank
<1> QED
  BY <1>2, <1>3, <1>4, <1>u, Zenon

\* A floor is the shorter of the ask and an excerpt.
LEMMA FloorsOf ==
    ASSUME NEW asks, asks \in [DOMAIN asks -> Nat]
    PROVE  /\ DOMAIN Floors(asks) = DOMAIN asks
           /\ \A i \in DOMAIN asks : /\ Floors(asks)[i] \in Nat /\ Floors(asks)[i] <= asks[i] /\ Floors(asks)[i] <= Excerpt
                                     /\ Floors(asks)[i] = Min({asks[i], Excerpt})
                                     /\ Floors(asks)[i] = IF asks[i] <= Excerpt THEN asks[i] ELSE Excerpt
                                     /\ asks[i] > 0 => Floors(asks)[i] > 0
<1>1. Excerpt \in Nat \ {0}
  BY BudgetAssumption
<1>2. ASSUME NEW i \in DOMAIN asks PROVE Min({asks[i], Excerpt}) = IF asks[i] <= Excerpt THEN asks[i] ELSE Excerpt
  BY <1>1, MinOfTwo
<1> QED
  BY <1>1, <1>2 DEF Floors

\* The whole groups come before the one that is split, which all ask alike and do not all fit.
LEMMA RestOrder ==
    ASSUME NEW asks, IsFiniteSet(DOMAIN asks), asks \in [DOMAIN asks -> Nat], NEW later \in [DOMAIN asks -> BOOLEAN],
           NEW budget \in Nat,
           NEW whole, whole = Whole(asks, later, budget), NEW group, group = Group(asks, later, budget)
    PROVE  /\ whole \subseteq Needy(asks) /\ group \subseteq Needy(asks) \ whole
           /\ Total(Floors(asks), whole) \in 0..budget
           /\ group = {} => whole = Needy(asks)
           /\ \A i \in whole \cup group : \A j \in Needy(asks) : Sooner(asks, later, j, i) => j \in whole
           /\ \A i, j \in group : asks[i] = asks[j] /\ later[i] = later[j]
           /\ \A i \in group : Cardinality(group) * Floors(asks)[i] > budget - Total(Floors(asks), whole)
<1> DEFINE U == DOMAIN asks
           needy == Needy(asks)
           fl == Floors(asks)
<1>0. PICK n \in Nat : \E rank \in [U -> 0..n] : \A i, j \in U :
               /\ Sooner(asks, later, i, j) <=> rank[i] < rank[j]
               /\ rank[i] = rank[j] => asks[i] = asks[j] /\ later[i] = later[j]
  BY Ranks
<1>1. PICK rank \in [U -> 0..n] : \A i, j \in U :
               /\ Sooner(asks, later, i, j) <=> rank[i] < rank[j]
               /\ rank[i] = rank[j] => asks[i] = asks[j] /\ later[i] = later[j]
  BY <1>0
<1>2. needy \subseteq U /\ IsFiniteSet(U) /\ IsFiniteSet(needy) /\ asks \in [U -> Nat]
  BY FS_Subset DEF Needy
<1>3. \A i \in U : fl[i] \in Nat
  BY FloorsOf
<1> DEFINE Upto(i) == {j \in needy : rank[j] <= rank[i]}
<1>4. ASSUME NEW i \in needy PROVE {j \in needy : ~Sooner(asks, later, i, j)} = Upto(i)
  <2>1. \A j \in needy : ~Sooner(asks, later, i, j) <=> rank[j] <= rank[i]
    <3> SUFFICES ASSUME NEW j \in needy PROVE ~Sooner(asks, later, i, j) <=> rank[j] <= rank[i]
      OBVIOUS
    <3>1. rank[j] \in 0..n /\ rank[i] \in 0..n /\ (Sooner(asks, later, i, j) <=> rank[i] < rank[j])
      BY <1>1, <1>2
    <3> QED
      BY <3>1
  <2> QED
    BY <2>1
<1>5. \A i \in needy : Total(fl, Upto(i)) \in Nat /\ Upto(i) \in SUBSET needy
  <2>1. \A S \in SUBSET U : Total(fl, S) \in Nat
    BY <1>2, <1>3, SumOfSome
  <2> QED
    BY <1>2, <2>1
<1>6. whole = {i \in needy : Total(fl, Upto(i)) <= budget}
  BY <1>4 DEF Whole
<1>7. group = {i \in needy \ whole : \A j \in needy \ whole : rank[i] <= rank[j]}
  <2>1. \A i, j \in needy : ~Sooner(asks, later, j, i) <=> rank[i] <= rank[j]
    <3> SUFFICES ASSUME NEW i \in needy, NEW j \in needy PROVE ~Sooner(asks, later, j, i) <=> rank[i] <= rank[j]
      OBVIOUS
    <3>1. rank[j] \in 0..n /\ rank[i] \in 0..n /\ (Sooner(asks, later, j, i) <=> rank[j] < rank[i])
      BY <1>1, <1>2
    <3> QED
      BY <3>1
  <2> QED
    BY <2>1 DEF Group
<1>t. \A i \in needy : rank[i] \in 0..n
  BY <1>1, <1>2
<1> HIDE DEF U, needy, fl
\* Who precedes one whose floor fits, fits.
<1>8. ASSUME NEW i \in whole, NEW j \in needy, rank[j] <= rank[i] PROVE j \in whole
  <2>1. Upto(j) \subseteq Upto(i)
    BY <1>6, <1>8, <1>t
  <2>2. \A S \in SUBSET Upto(i) : Total(fl, S) <= Total(fl, Upto(i))
    <3>1. IsFiniteSet(Upto(i)) /\ \A k \in Upto(i) : fl[k] \in Nat
      BY <1>2, <1>3, FS_Subset
    <3> QED
      BY <3>1, SumOfSome
  <2>3. Total(fl, Upto(j)) <= Total(fl, Upto(i)) /\ Total(fl, Upto(i)) <= budget
    BY <1>6, <2>1, <2>2
  <2> HIDE DEF Upto
  <2> QED
    BY <1>5, <1>6, <2>3
<1>9. Total(fl, whole) \in 0..budget
  <2>1. CASE whole = {}
    BY <2>1, SumOfNone
  <2>2. CASE whole # {}
    <3>1. PICK i \in whole : \A j \in whole : rank[j] <= rank[i]
      BY <1>6, <1>t, <2>2, MostIn
    <3>2. whole = Upto(i)
      BY <1>6, <1>8, <3>1
    <3>3. i \in needy /\ Total(fl, Upto(i)) <= budget
      BY <1>6
    <3> HIDE DEF Upto
    <3> QED
      BY <1>5, <3>2, <3>3
  <2> QED
    BY <2>1, <2>2
<1>10. group = {} => whole = needy
  <2> SUFFICES ASSUME whole # needy PROVE group # {}
    OBVIOUS
  <2>1. needy \ whole # {}
    BY <1>6
  <2>2. PICK i \in needy \ whole : \A j \in needy \ whole : rank[i] <= rank[j]
    <3>1. \A i \in needy \ whole : rank[i] \in Nat
      BY <1>t
    <3> QED
      BY <2>1, <3>1, LeastIn
  <2> QED
    BY <1>7, <2>2
<1>11. \A i \in whole \cup group : \A j \in needy : rank[j] < rank[i] => j \in whole
  <2> SUFFICES ASSUME NEW i \in whole \cup group, NEW j \in needy, rank[j] < rank[i], j \notin whole PROVE FALSE
    OBVIOUS
  <2>1. i \in needy
    BY <1>6, <1>7
  <2>2. CASE i \in whole
    BY <1>8, <1>t, <2>1, <2>2
  <2>3. CASE i \in group
    BY <1>7, <1>t, <2>1, <2>3
  <2> QED
    BY <2>2, <2>3
<1>12. \A i, j \in group : rank[i] = rank[j]
  <2> SUFFICES ASSUME NEW i \in group, NEW j \in group PROVE rank[i] = rank[j]
    OBVIOUS
  <2>1. rank[i] <= rank[j] /\ rank[j] <= rank[i] /\ rank[i] \in 0..n /\ rank[j] \in 0..n
    BY <1>7, <1>t
  <2> QED
    BY <2>1
<1>13. \A i, j \in group : asks[i] = asks[j] /\ later[i] = later[j]
  BY <1>1, <1>2, <1>7, <1>12
<1>14. ASSUME NEW i \in group PROVE Cardinality(group) * fl[i] > budget - Total(fl, whole)
  <2>1. Upto(i) = whole \cup group /\ whole \cap group = {}
    <3>1. \A j \in group : rank[j] <= rank[i] /\ j \in needy
      BY <1>7
    <3>2. \A j \in whole : rank[j] <= rank[i] /\ j \in needy
      <4> SUFFICES ASSUME NEW j \in whole, ~(rank[j] <= rank[i]) PROVE FALSE
        BY <1>6
      <4>1. i \in needy /\ i \notin whole /\ j \in needy
        BY <1>6, <1>7
      <4>2. rank[i] <= rank[j]
        BY <1>t, <4>1
      <4> QED
        BY <1>8, <4>1, <4>2
    <3>3. \A j \in needy : rank[j] <= rank[i] => j \in whole \cup group
      <4> SUFFICES ASSUME NEW j \in needy, rank[j] <= rank[i], j \notin whole PROVE j \in group
        OBVIOUS
      <4>1. \A k \in needy \ whole : rank[i] <= rank[k] /\ rank[k] \in 0..n
        BY <1>7, <1>t
      <4>2. rank[j] \in 0..n /\ rank[i] \in 0..n
        BY <1>7, <1>t
      <4>3. \A k \in needy \ whole : rank[j] <= rank[k]
        BY <4>1, <4>2
      <4> QED
        BY <1>7, <4>3
    <3>4. whole \cap group = {}
      BY <1>7
    <3> QED
      BY <3>1, <3>2, <3>3, <3>4
  <2>2. ~(Total(fl, Upto(i)) <= budget) /\ i \in needy
    BY <1>6, <1>7
  <2> DEFINE all == Upto(i)
  <2>3. all \subseteq U /\ IsFiniteSet(all) /\ (\A k \in all : fl[k] \in Nat) /\ IsFiniteSet(group) /\ group \subseteq all
    BY <1>2, <1>3, <2>1, FS_Subset
  <2> HIDE DEF all
  <2>4. whole \subseteq all /\ all \ whole = group
    BY <2>1 DEF all
  <2>5. Total(fl, all) = Total(fl, whole) + Total(fl, group)
    <3>1. \A S \in SUBSET all : Total(fl, all) = Total(fl, S) + Total(fl, all \ S)
      BY <2>3, SumOfParts
    <3> QED
      BY <2>4, <3>1
  <2>6. fl[i] \in Nat /\ \A k \in group : fl[k] = fl[i]
    <3>1. i \in U /\ \A k \in group : k \in U /\ asks[k] = asks[i]
      BY <1>2, <1>7, <1>13
    <3>2. \A k \in U : fl[k] = IF asks[k] <= Excerpt THEN asks[k] ELSE Excerpt
      BY FloorsOf DEF fl, U
    <3> QED
      BY <1>3, <3>1, <3>2
  <2>7. Total(fl, group) = fl[i] * Cardinality(group)
    BY <2>3, <2>6, SumOfAlike
  <2>8. Cardinality(group) \in Nat
    BY <2>3, FS_CardinalityType
  <2> DEFINE p == Cardinality(group) * fl[i]
  <2>9. p \in Nat /\ p = Total(fl, group)
    BY <2>6, <2>7, <2>8
  <2>10. ~(Total(fl, whole) + p <= budget) /\ Total(fl, whole) \in 0..budget
    BY <1>9, <2>2, <2>5, <2>9 DEF all
  <2> HIDE DEF p
  <2>11. p > budget - Total(fl, whole)
    BY <2>9, <2>10
  <2> QED
    BY <2>11 DEF p
<1>15. \A i \in whole \cup group : \A j \in needy : Sooner(asks, later, j, i) => j \in whole
  <2>1. whole \cup group \subseteq U
    BY <1>2, <1>6, <1>7
  <2> QED
    BY <1>1, <1>2, <1>11, <2>1
<1>16. whole \subseteq needy /\ group \subseteq needy \ whole
  BY <1>6, <1>7
<1> QED
  BY <1>9, <1>10, <1>13, <1>14, <1>15, <1>16 DEF needy, fl

\* An allowance for everyone: nothing for whom it leaves out.
Spread(f, U) == [i \in U |-> IF i \in DOMAIN f THEN f[i] ELSE 0]

\* Spreading an allowance gives no more.
LEMMA SpreadSums ==
    ASSUME NEW U, IsFiniteSet(U), NEW T \in SUBSET U, NEW t \in [T -> Nat]
    PROVE  Total(Spread(t, U), U) = Total(t, T)
<1> DEFINE r == Spread(t, U)
<1>1. /\ \A i \in T : r[i] = t[i] /\ t[i] \in Nat
      /\ \A i \in U \ T : r[i] = 0
      /\ \A i \in U : r[i] \in Nat
  BY DEF Spread
<1> HIDE DEF r
<1>2. IsFiniteSet(T) /\ IsFiniteSet(U \ T)
  BY FS_Subset
<1>3. Total(t, T) = Total(r, T)
  BY <1>1, <1>2, SumSame
<1>4. Total(r, U \ T) = 0 * Cardinality(U \ T)
  BY <1>1, <1>2, SumOfAlike
<1>5. Total(r, U) = Total(r, T) + Total(r, U \ T)
  BY <1>1, SumOfParts
<1>6. Cardinality(U \ T) \in Nat /\ Total(t, T) \in Nat
  <2>1. \A i \in T : t[i] \in Nat
    OBVIOUS
  <2> QED
    BY <1>2, <2>1, FS_CardinalityType, SumByOne
<1> QED
  BY <1>3, <1>4, <1>5, <1>6 DEF r

\* What restAllowances gives.
Rationed(r, asks, later, budget) ==
    /\ r \in [DOMAIN asks -> Nat]
    /\ \A i \in DOMAIN asks : r[i] <= asks[i]
    /\ Total(r, DOMAIN asks) <= budget
    /\ (\E i \in DOMAIN asks : r[i] < asks[i]) =>
           \/ budget - Total(r, DOMAIN asks) < Excerpt
           \/ budget - Total(r, DOMAIN asks) < Cardinality(DOMAIN asks)
    /\ \A i, j \in DOMAIN asks : ~later[i] /\ later[j] /\ asks[i] <= Excerpt /\ r[i] < asks[i] => r[j] = 0
    /\ \A i, j \in DOMAIN asks : later[i] = later[j] /\ asks[i] < asks[j] => r[i] = asks[i] \/ r[i] >= r[j]
    /\ \A i \in DOMAIN asks : r[i] > 0 /\ r[i] < asks[i] => r[i] >= MinEqualShare
    /\ budget >= 1 /\ budget >= MinEqualShare /\ (\E i \in DOMAIN asks : asks[i] > 0 /\ ~later[i]) =>
           \E i \in DOMAIN asks : ~later[i] /\ r[i] > 0

\* What MinEqualShare is.
MinEqualShareFact == MinEqualShare \in Nat /\ MinEqualShare <= Excerpt
\* The least share worth having is no more than an excerpt.
LEMMA MinEqualShareIs == MinEqualShareFact
<1>1. Excerpt \in Nat \ {0}
  BY BudgetAssumption
<1> QED
  BY <1>1 DEF MinEqualShare, MinEqualShareFact

\* What suffices for that: some nodes take, all the whole and perhaps some of the group.
Takes(t, T, whole, group, asks, budget) ==
    /\ whole \subseteq T /\ T \subseteq whole \cup group /\ t \in [T -> Nat]
    /\ \A i \in T : t[i] <= asks[i]
    /\ Total(t, T) <= budget
    /\ \/ \A i \in Needy(asks) : i \in T /\ t[i] = asks[i]
       \/ budget - Total(t, T) < Excerpt
       \/ budget - Total(t, T) < Cardinality(DOMAIN asks)
    /\ \A i \in whole : t[i] >= Floors(asks)[i]
    /\ \A i \in whole : \A j \in T : asks[i] < asks[j] => t[i] = asks[i] \/ t[i] >= t[j]
    /\ \A i \in T \ whole : t[i] >= Floors(asks)[i] \/ t[i] >= MinEqualShare
    /\ whole = {} /\ group # {} /\ budget >= 1 /\ budget >= MinEqualShare => \E i \in T : t[i] > 0

\* Who takes that much, is given what restAllowances must give.
LEMMA RationedIf ==
    ASSUME NEW asks, IsFiniteSet(DOMAIN asks), asks \in [DOMAIN asks -> Nat], NEW later \in [DOMAIN asks -> BOOLEAN],
           NEW budget \in Nat,
           NEW whole, whole = Whole(asks, later, budget), NEW group, group = Group(asks, later, budget),
           NEW T, NEW t, Takes(t, T, whole, group, asks, budget)
    PROVE  Rationed(Spread(t, DOMAIN asks), asks, later, budget)
<1>0. /\ whole \subseteq T /\ T \subseteq whole \cup group /\ t \in [T -> Nat]
      /\ \A i \in T : t[i] <= asks[i]
      /\ Total(t, T) <= budget
      /\ \/ \A i \in Needy(asks) : i \in T /\ t[i] = asks[i]
         \/ budget - Total(t, T) < Excerpt
         \/ budget - Total(t, T) < Cardinality(DOMAIN asks)
      /\ \A i \in whole : t[i] >= Floors(asks)[i]
      /\ \A i \in whole : \A j \in T : asks[i] < asks[j] => t[i] = asks[i] \/ t[i] >= t[j]
      /\ \A i \in T \ whole : t[i] >= Floors(asks)[i] \/ t[i] >= MinEqualShare
      /\ whole = {} /\ group # {} /\ budget >= 1 /\ budget >= MinEqualShare => \E i \in T : t[i] > 0
  BY DEF Takes
<1> USE <1>0
<1> DEFINE U == DOMAIN asks
           r == Spread(t, U)
           fl == Floors(asks)
           needy == Needy(asks)
<1>1. /\ whole \subseteq needy /\ group \subseteq needy \ whole
      /\ group = {} => whole = needy
      /\ \A i \in whole \cup group : \A j \in needy : Sooner(asks, later, j, i) => j \in whole
      /\ \A i, j \in group : asks[i] = asks[j] /\ later[i] = later[j]
  BY RestOrder
<1>2. Total(r, U) = Total(t, T) /\ T \subseteq needy /\ needy \subseteq U /\ (\A i \in U : i \in needy <=> asks[i] > 0)
  <2>1. T \subseteq needy /\ needy \subseteq U /\ \A i \in U : i \in needy <=> asks[i] > 0
    BY <1>1 DEF Needy
  <2> QED
    BY <2>1, SpreadSums
<1>3. /\ r \in [U -> Nat]
      /\ \A i \in T : r[i] = t[i]
      /\ \A i \in U \ T : r[i] = 0
  <2>1. T \subseteq U /\ DOMAIN t = T /\ (\A i \in T : t[i] \in Nat) /\ U = DOMAIN asks
    BY <1>2
  <2> HIDE DEF U
  <2> QED
    BY <2>1 DEF Spread
<1>4. \A i \in U : asks[i] \in Nat /\ r[i] \in Nat /\ r[i] <= asks[i] /\ later[i] \in BOOLEAN
  BY <1>2, <1>3
<1>5. /\ \A i \in U : fl[i] \in Nat /\ fl[i] = IF asks[i] <= Excerpt THEN asks[i] ELSE Excerpt
      /\ Excerpt \in Nat \ {0} /\ MinEqualShare \in Nat /\ MinEqualShare <= Excerpt
  BY FloorsOf, BudgetAssumption, MinEqualShareIs DEF MinEqualShareFact
<1>6. \A i \in whole \cup group : \A j \in needy :
          (~later[j] /\ later[i]) \/ (later[i] = later[j] /\ asks[j] < asks[i]) => j \in whole
  <2> SUFFICES ASSUME NEW i \in whole \cup group, NEW j \in needy,
                      (~later[j] /\ later[i]) \/ (later[i] = later[j] /\ asks[j] < asks[i])
               PROVE  j \in whole
    OBVIOUS
  <2>1. later[i] \in BOOLEAN /\ later[j] \in BOOLEAN
    BY <1>1, <1>2
  <2>2. Sooner(asks, later, j, i)
    BY <2>1 DEF Sooner
  <2> QED
    BY <1>1, <2>2
<1> HIDE DEF U, r, fl, needy
<1>7. (\E i \in U : r[i] < asks[i]) => budget - Total(r, U) < Excerpt \/ budget - Total(r, U) < Cardinality(U)
  <2> SUFFICES ASSUME NEW i \in U, r[i] < asks[i], \A j \in needy : j \in T /\ t[j] = asks[j] PROVE FALSE
    BY <1>2 DEF U, needy
  <2>1. i \in needy
    BY <1>2, <1>4
  <2> QED
    BY <1>2, <1>3, <1>4, <2>1
<1>8. \A i, j \in U : ~later[i] /\ later[j] /\ asks[i] <= Excerpt /\ r[i] < asks[i] => r[j] = 0
  <2> SUFFICES ASSUME NEW i \in U, NEW j \in U, ~later[i], later[j], asks[i] <= Excerpt, r[i] < asks[i], r[j] # 0 PROVE FALSE
    OBVIOUS
  <2>1. i \in needy /\ j \in T
    BY <1>2, <1>3, <1>4
  <2>2. i \in whole
    BY <1>6, <2>1
  <2>3. t[i] >= fl[i] /\ fl[i] = asks[i] /\ r[i] = t[i]
    BY <1>3, <1>5, <2>2 DEF fl
  <2> QED
    BY <1>4, <1>5, <2>3
<1>9. \A i, j \in U : later[i] = later[j] /\ asks[i] < asks[j] => r[i] = asks[i] \/ r[i] >= r[j]
  <2> SUFFICES ASSUME NEW i \in U, NEW j \in U, later[i] = later[j], asks[i] < asks[j], r[i] # asks[i], ~(r[i] >= r[j]) PROVE FALSE
    OBVIOUS
  <2>1. i \in needy /\ j \in T
    <3>1. asks[i] \in Nat /\ r[i] \in Nat /\ r[i] <= asks[i] /\ r[j] \in Nat
      BY <1>4
    <3>2. asks[i] > 0 /\ r[j] # 0
      BY <3>1
    <3> QED
      BY <1>2, <1>3, <3>2
  <2>2. i \in whole
    BY <1>6, <2>1
  <2>3. r[i] = t[i] /\ r[j] = t[j] /\ i \in T
    BY <1>3, <2>1, <2>2
  <2> QED
    BY <2>1, <2>2, <2>3
<1>10. \A i \in U : r[i] > 0 /\ r[i] < asks[i] => r[i] >= MinEqualShare
  <2> SUFFICES ASSUME NEW i \in U, r[i] > 0, r[i] < asks[i] PROVE r[i] >= MinEqualShare
    OBVIOUS
  <2>1. i \in T /\ r[i] = t[i] /\ r[i] \in Nat /\ asks[i] \in Nat
    BY <1>3, <1>4
  <2>2. t[i] >= fl[i] \/ t[i] >= MinEqualShare
    BY <2>1 DEF fl
  <2>3. fl[i] \in Nat /\ fl[i] = IF asks[i] <= Excerpt THEN asks[i] ELSE Excerpt
    BY <1>5
  <2> QED
    BY <1>5, <2>1, <2>2, <2>3
<1>11. ASSUME budget >= 1, budget >= MinEqualShare, NEW i \in U, asks[i] > 0, ~later[i]
       PROVE  \E j \in U : ~later[j] /\ r[j] > 0
  <2>1. i \in needy
    BY <1>2, <1>11
  <2>2. CASE \E j \in whole : ~later[j]
    <3>1. PICK j \in whole : ~later[j]
      BY <2>2
    <3>2. j \in T /\ j \in U /\ r[j] = t[j] /\ t[j] >= fl[j] /\ asks[j] > 0
      BY <1>1, <1>2, <1>3, <3>1 DEF fl
    <3>3. r[j] > 0
      BY <1>4, <1>5, <3>2
    <3> QED
      BY <3>1, <3>2, <3>3
  <2>3. CASE \A j \in whole : later[j]
    <3>1. i \notin whole
      BY <1>11, <2>3
    <3>2. \A j \in whole \cup group : ~later[j]
      BY <1>6, <1>11, <2>1, <3>1
    <3>3. whole = {} /\ group # {}
      BY <1>1, <2>1, <2>3, <3>1, <3>2
    <3>4. PICK j \in T : t[j] > 0
      BY <1>11, <3>3
    <3>5. j \in U /\ r[j] = t[j] /\ ~later[j]
      BY <1>2, <1>3, <3>2
    <3> QED
      BY <3>4, <3>5
  <2> QED
    BY <2>2, <2>3
<1>12. Total(r, U) <= budget
  BY <1>2
<1>13. \A i \in U : r[i] <= asks[i]
  BY <1>4
<1> QED
  BY <1>3, <1>7, <1>8, <1>9, <1>10, <1>11, <1>12, <1>13 DEF Rationed, U, r

\* What some of them ask.
Asked(asks, S) == [i \in S |-> asks[i]]

\* Some of the nodes filled: within what they ask, and no one below its floor if the floors fit.
LEMMA FillsSome ==
    ASSUME NEW asks, IsFiniteSet(DOMAIN asks), asks \in [DOMAIN asks -> Nat], NEW S \in SUBSET (DOMAIN asks), NEW n \in Nat,
           NEW g, g = Filled(Asked(asks, S), n)
    PROVE  /\ g \in [S -> Nat]
           /\ \A i \in S : g[i] <= asks[i]
           /\ Total(g, S) <= n /\ Total(g, S) \in Nat
           /\ (\A i \in S : g[i] = asks[i]) \/ n - Total(g, S) < Cardinality(S)
           /\ Total(Floors(asks), S) <= n => \A i \in S : g[i] >= Floors(asks)[i]
           /\ \A i, j \in S : asks[i] < asks[j] => g[i] = asks[i] \/ g[i] >= g[j]
<1> DEFINE w == Asked(asks, S)
           level == waterLevel(w, n)
<1>1. /\ DOMAIN w = S /\ IsFiniteSet(S) /\ w \in [S -> Nat] /\ S \subseteq DOMAIN asks
      /\ \A i \in S : w[i] = asks[i] /\ asks[i] \in Nat
  BY FS_Subset DEF Asked
<1>2. g = Filled(w, n)
  OBVIOUS
<1> HIDE DEF w
<1>3. /\ level \in Nat
      /\ g = [i \in S |-> Min({w[i], level})]
      /\ \A i \in S : g[i] \in 0..w[i]
      /\ Total(g, S) <= n
      /\ \/ \A i \in S : g[i] = w[i]
         \/ n - Total(g, S) < Cardinality(S)
      /\ \A c \in Nat : Total(Capped(w, S, c), S) <= n => \A i \in S : Min({w[i], c}) <= g[i]
  BY <1>1, <1>2, FilledFits
<1> HIDE DEF level
<1>4. Excerpt \in Nat /\ \A i \in S : Floors(asks)[i] = Min({w[i], Excerpt}) /\ Floors(asks)[i] \in Nat
  BY <1>1, FloorsOf, BudgetAssumption
<1>5. Total(Capped(w, S, Excerpt), S) = Total(Floors(asks), S)
  <2>1. \A i \in S : Capped(w, S, Excerpt)[i] = Floors(asks)[i]
    BY <1>4 DEF Capped
  <2> QED
    BY <1>1, <1>4, <2>1, SumSame
<1>6. Total(Floors(asks), S) <= n => \A i \in S : g[i] >= Floors(asks)[i]
  <2> SUFFICES ASSUME Total(Floors(asks), S) <= n, NEW i \in S PROVE g[i] >= Floors(asks)[i]
    OBVIOUS
  <2>1. Min({w[i], Excerpt}) <= g[i]
    BY <1>3, <1>4, <1>5
  <2>2. g[i] \in Nat
    BY <1>1, <1>3
  <2> QED
    BY <1>4, <2>1, <2>2
<1>7. \A i, j \in S : asks[i] < asks[j] => g[i] = asks[i] \/ g[i] >= g[j]
  <2> SUFFICES ASSUME NEW i \in S, NEW j \in S, asks[i] < asks[j] PROVE g[i] = asks[i] \/ g[i] >= g[j]
    OBVIOUS
  <2>1. /\ g[i] = IF asks[i] <= level THEN asks[i] ELSE level
        /\ g[j] = IF asks[j] <= level THEN asks[j] ELSE level
    BY <1>1, <1>3, MinOfTwo
  <2> QED
    BY <1>1, <1>3, <2>1
<1>8. Total(g, S) \in Nat /\ g \in [S -> Nat] /\ \A i \in S : g[i] <= asks[i]
  <2>1. \A i \in S : g[i] \in Nat /\ g[i] <= asks[i]
    BY <1>1, <1>3
  <2> QED
    BY <1>1, <1>3, <2>1, SumOfSome
<1> QED
  BY <1>1, <1>3, <1>6, <1>7, <1>8

\* The first few by id are that few.
LEMMA FirstFew ==
    ASSUME NEW S, S \subseteq Nat, IsFiniteSet(S), NEW n \in 0..Cardinality(S)
    PROVE  /\ FirstByID(S, n) \subseteq S /\ IsFiniteSet(FirstByID(S, n))
           /\ Cardinality(FirstByID(S, n)) = n
<1> DEFINE B == {s \in SUBSET S : \E k \in 0..Cardinality(s) : Cardinality(FirstByID(s, k)) # k}
<1>0. \A s \in SUBSET S : IsFiniteSet(s) /\ Cardinality(s) \in Nat /\ s \subseteq Nat
  BY FS_Subset, FS_CardinalityType
<1>1. ASSUME B # {} PROVE FALSE
  <2>1. PICK s \in B : \A x \in s : s \ {x} \notin B
    BY <1>1, SmallestSubset
  <2>2. PICK k \in 0..Cardinality(s) : Cardinality(FirstByID(s, k)) # k
    OBVIOUS
  <2>3. \A x \in s : {j \in s : j < x} \in SUBSET s /\ x \notin {j \in s : j < x}
    BY <1>0
  <2>4. \A x \in s : Cardinality({j \in s : j < x}) < Cardinality(s) /\ Cardinality({j \in s : j < x}) \in Nat
    <3> SUFFICES ASSUME NEW x \in s
                 PROVE  Cardinality({j \in s : j < x}) < Cardinality(s) /\ Cardinality({j \in s : j < x}) \in Nat
      OBVIOUS
    <3> DEFINE r == {j \in s : j < x}
    <3>1. r \subseteq s \ {x} /\ IsFiniteSet(s) /\ IsFiniteSet(s \ {x}) /\ s \ {x} \in SUBSET S /\ r \in SUBSET S
      BY <1>0, <2>3
    <3> HIDE DEF r
    <3>2. Cardinality(r) <= Cardinality(s \ {x}) /\ Cardinality(s \ {x}) = Cardinality(s) - 1
      BY <3>1, FS_Subset, FS_RemoveElement
    <3>3. Cardinality(r) \in Nat /\ Cardinality(s) \in Nat
      BY <1>0, <3>1
    <3> QED
      BY <3>2, <3>3 DEF r
  <2>5. k # Cardinality(s)
    <3> SUFFICES ASSUME k = Cardinality(s) PROVE FALSE
      OBVIOUS
    <3>1. FirstByID(s, k) = s
      BY <2>4 DEF FirstByID
    <3> QED
      BY <2>2, <3>1
  <2>6. s # {}
    <3> SUFFICES ASSUME s = {} PROVE FALSE
      OBVIOUS
    <3>1. Cardinality(s) = 0
      BY FS_EmptySet
    <3> QED
      BY <2>2, <2>5, <3>1
  <2>7. PICK m \in s : \A j \in s : j <= m
    <3> DEFINE id == [j \in s |-> j]
    <3>1. Total(id, s) \in Nat /\ \A j \in s : id[j] <= Total(id, s)
      <4>1. IsFiniteSet(s) /\ \A j \in s : id[j] \in Nat
        BY <1>0
      <4> HIDE DEF id
      <4> QED
        BY <4>1, SumOfSome
    <3>2. \A j \in s : id[j] \in 0..Total(id, s)
      BY <1>0, <3>1
    <3> HIDE DEF id
    <3>3. PICK m \in s : \A j \in s : id[j] <= id[m]
      BY <2>6, <3>1, <3>2, MostIn
    <3> QED
      BY <3>3 DEF id
  <2>8. s \ {m} \in SUBSET S /\ Cardinality(s \ {m}) = Cardinality(s) - 1
    <3>1. IsFiniteSet(s)
      BY <1>0
    <3> QED
      BY <3>1, FS_RemoveElement
  <2>9. {j \in s : j < m} = s \ {m} /\ \A x \in s \ {m} : {j \in s : j < x} = {j \in s \ {m} : j < x}
    <3>1. \A j \in s : j \in Nat /\ m \in Nat /\ j <= m
      BY <1>0, <2>7
    <3>2. {j \in s : j < m} = s \ {m}
      <4>1. \A j \in s : j < m <=> j # m
        BY <3>1
      <4> QED
        BY <4>1, Zenon
    <3>3. ASSUME NEW x \in s \ {m} PROVE {j \in s : j < x} = {j \in s \ {m} : j < x}
      <4>1. ~(m < x)
        BY <3>1
      <4> QED
        BY <4>1
    <3> QED
      BY <3>2, <3>3
  <2>10. FirstByID(s, k) = FirstByID(s \ {m}, k)
    <3>1. k <= Cardinality(s) - 1
      BY <1>0, <2>2, <2>5
    <3>2. ~(Cardinality({j \in s : j < m}) < k)
      BY <1>0, <2>2, <2>8, <2>9, <3>1
    <3>3. \A x \in s : x # m => Cardinality({j \in s : j < x}) = Cardinality({j \in s \ {m} : j < x})
      BY <2>9
    <3> QED
      BY <3>2, <3>3 DEF FirstByID
  <2>11. k \in 0..Cardinality(s \ {m})
    BY <1>0, <2>2, <2>5, <2>8
  <2>12. s \ {m} \notin B
    BY <2>1
  <2>13. Cardinality(FirstByID(s \ {m}, k)) = k
    BY <2>8, <2>11, <2>12
  <2> QED
    BY <2>2, <2>10, <2>13
<1>2. FirstByID(S, n) \in SUBSET S
  BY DEF FirstByID
<1> QED
  BY <1>0, <1>1, <1>2

\* A group's budget, split evenly: all of it, no share above the next one.
LEMMA SplitEvenly ==
    ASSUME NEW S, S \subseteq Nat, IsFiniteSet(S), S # {}, NEW n \in Nat
    PROVE  /\ shareEqually(S, n) \in [S -> Nat]
           /\ Total(shareEqually(S, n), S) = n
           /\ \A i \in S : shareEqually(S, n)[i] >= n \div Cardinality(S)
           /\ \A c \in Nat : Cardinality(S) * c > n => \A i \in S : shareEqually(S, n)[i] <= c
<1> DEFINE c == Cardinality(S)
           extra == FirstByID(S, n % c)
           more == [i \in S |-> IF i \in extra THEN 1 ELSE 0]
<1>1. c \in Nat /\ c > 0
  BY FS_CardinalityType, FS_EmptySet
<1>2. PICK q \in Int, r \in 0..(c - 1) : /\ q = n \div c /\ r = n % c /\ c * q = n - r
                                         /\ \A b \in Int : n >= c * b <=> b <= q
                                         /\ q \in Nat
  <2>1. PICK q \in Int, r \in 0..(c - 1) :
               /\ q = n \div c /\ r = n % c
               /\ c * q = n - r
               /\ \A b \in Int : c * b <= n => b <= q
               /\ \A b \in Int : b <= q => c * b <= n
               /\ n >= 0 => q \in Nat
    <3>1. c \in Nat /\ c > 0 /\ n \in Int
      BY <1>1
    <3> HIDE DEF c
    <3> QED
      BY <3>1, Shared
  <2>2. \A b \in Int : n >= c * b <=> c * b <= n
    BY <1>1
  <2> QED
    BY <2>1, <2>2
<1>3. extra \subseteq S /\ IsFiniteSet(extra) /\ Cardinality(extra) = r
  <2>1. extra = FirstByID(S, r) /\ r \in 0..Cardinality(S)
    BY <1>1, <1>2
  <2> HIDE DEF extra
  <2> QED
    BY <2>1, FirstFew
<1>4. shareEqually(S, n) = [i \in S |-> q + (IF i \in extra THEN 1 ELSE 0)]
  BY <1>2, Zenon DEF shareEqually
<1> HIDE DEF c, extra
<1>5. \A i \in S : shareEqually(S, n)[i] = q + more[i] /\ more[i] \in 0..1 /\ shareEqually(S, n)[i] \in Nat
  BY <1>2, <1>4
<1>6. Total(more, S) = r
  <2>1. Total(more, S) = Total(more, extra) + Total(more, S \ extra)
    <3>1. \A i \in S : more[i] \in Nat
      BY <1>5
    <3> HIDE DEF more
    <3> QED
      BY <1>3, <3>1, SumOfParts
  <2>2. Total(more, extra) = 1 * Cardinality(extra)
    <3>1. \A i \in extra : more[i] = 1
      BY <1>3
    <3> HIDE DEF more
    <3> QED
      BY <1>3, <3>1, SumOfAlike
  <2>3. Total(more, S \ extra) = 0 * Cardinality(S \ extra)
    <3>1. \A i \in S \ extra : more[i] = 0
      BY <1>3
    <3>2. IsFiniteSet(S \ extra)
      BY FS_Subset
    <3> HIDE DEF more
    <3> QED
      BY <3>1, <3>2, SumOfAlike
  <2>4. Cardinality(S \ extra) \in Nat
    BY FS_Subset, FS_CardinalityType
  <2> QED
    BY <1>2, <1>3, <2>1, <2>2, <2>3, <2>4
<1>7. Total(shareEqually(S, n), S) = n
  <2> DEFINE even == [i \in S |-> q]
  <2>1. Total(even, S) = q * c
    <3>1. \A i \in S : even[i] = q
      OBVIOUS
    <3> HIDE DEF even
    <3> QED
      BY <1>2, <3>1, SumOfAlike DEF c
  <2>2. Total(shareEqually(S, n), S) = Total(even, S) + Total(more, S)
    <3>1. \A i \in S : even[i] \in Nat /\ more[i] \in Nat /\ shareEqually(S, n)[i] = even[i] + more[i]
      BY <1>2, <1>5
    <3> HIDE DEF even, more
    <3> QED
      BY <3>1, SumOfBoth
  <2>3. q * c = n - r
    BY <1>1, <1>2
  <2> QED
    BY <1>2, <1>6, <2>1, <2>2, <2>3
<1>8. ASSUME NEW b \in Nat, c * b > n, NEW i \in S PROVE shareEqually(S, n)[i] <= b
  <2>1. ~(b <= q)
    <3>1. c * b \in Nat
      BY <1>1
    <3> QED
      BY <1>2, <1>8, <3>1
  <2> QED
    BY <1>2, <1>5, <2>1
<1>9. \A i \in S : shareEqually(S, n)[i] >= n \div c
  BY <1>2, <1>5
<1>10. shareEqually(S, n) \in [S -> Nat]
  BY <1>2, <1>4
<1> QED
  BY <1>7, <1>8, <1>9, <1>10 DEF c

\* Whatever is asked: what fits is given, in order, and no one is given too little.
LEMMA RestRations ==
    ASSUME NEW asks, IsFiniteSet(DOMAIN asks), DOMAIN asks \subseteq Nat, asks \in [DOMAIN asks -> Nat],
           NEW later \in [DOMAIN asks -> BOOLEAN], NEW budget \in Nat
    PROVE  Rationed(restAllowances(asks, later, budget), asks, later, budget)
<1> DEFINE U == DOMAIN asks
           whole == Whole(asks, later, budget)
           group == Group(asks, later, budget)
           fl == Floors(asks)
           owed == Total(fl, whole)
           left == budget - owed
           share == left \div Cardinality(group)
           floor == fl[CHOOSE i \in group : TRUE]
           some == whole \cup FirstByID(group, left \div floor)
           taking == Filled(Asked(asks, some), budget)
           first == CHOOSE i \in group : i \in FirstByID(group, 1)
           over == Min({asks[first], budget - AllOf(taking)})
           even == Both(Filled(Asked(asks, whole), budget - left), shareEqually(group, left))
           cut == Both(taking, [i \in {first} |-> over])
           rest == restAllowances(asks, later, budget)
<1>1. rest = IF group = {} THEN Spread(Filled(Asked(asks, whole), budget), U)
             ELSE IF share >= MinEqualShare THEN Spread(even, U)
             ELSE IF left \div floor = 0 /\ over >= MinEqualShare THEN Spread(cut, U)
             ELSE Spread(taking, U)
  BY DEF restAllowances, Whole, Group, Needy, Sooner, Spread, Asked
<1>2. /\ whole \subseteq Needy(asks) /\ group \subseteq Needy(asks) \ whole
      /\ owed \in 0..budget
      /\ group = {} => whole = Needy(asks)
      /\ \A i \in whole \cup group : \A j \in Needy(asks) : Sooner(asks, later, j, i) => j \in whole
      /\ \A i, j \in group : asks[i] = asks[j] /\ later[i] = later[j]
      /\ \A i \in group : Cardinality(group) * fl[i] > left
  BY RestOrder
<1>3. \A T, t : Takes(t, T, whole, group, asks, budget) => Rationed(Spread(t, U), asks, later, budget)
  BY RationedIf
<1>4. \A S \in SUBSET U : \A n \in Nat :
          LET g == Filled(Asked(asks, S), n)
          IN /\ g \in [S -> Nat]
             /\ \A i \in S : g[i] <= asks[i]
             /\ Total(g, S) <= n /\ Total(g, S) \in Nat
             /\ (\A i \in S : g[i] = asks[i]) \/ n - Total(g, S) < Cardinality(S)
             /\ Total(fl, S) <= n => \A i \in S : g[i] >= fl[i]
             /\ \A i, j \in S : asks[i] < asks[j] => g[i] = asks[i] \/ g[i] >= g[j]
  BY FillsSome
<1>5. /\ \A i \in U : /\ asks[i] \in Nat /\ fl[i] \in Nat /\ fl[i] <= asks[i] /\ fl[i] <= Excerpt
                      /\ fl[i] = IF asks[i] <= Excerpt THEN asks[i] ELSE Excerpt
                      /\ asks[i] > 0 => fl[i] > 0
      /\ Excerpt \in Nat \ {0} /\ MinEqualShare \in Nat /\ MinEqualShare <= Excerpt
  BY FloorsOf, BudgetAssumption, MinEqualShareIs DEF MinEqualShareFact
<1>6. /\ IsFiniteSet(U) /\ IsFiniteSet(whole) /\ IsFiniteSet(group) /\ whole \subseteq U /\ group \subseteq U /\ group \subseteq Nat
      /\ Cardinality(whole) <= Cardinality(U)
      /\ Cardinality(whole) \in Nat /\ Cardinality(U) \in Nat /\ Cardinality(group) \in Nat
      /\ whole \cap group = {}
  <2>1. whole \subseteq U /\ group \subseteq U /\ whole \cap group = {}
    BY <1>2 DEF Needy
  <2> QED
    BY <2>1, FS_Subset, FS_CardinalityType
<1>7. Needy(asks) \subseteq U /\ \A i \in Needy(asks) : asks[i] > 0
  BY DEF Needy
<1> HIDE DEF U, whole, group, fl, rest
\* All fit.
<1>8. ASSUME group = {} PROVE Rationed(rest, asks, later, budget)
  <2> DEFINE g == Filled(Asked(asks, whole), budget)
  <2>1. /\ g \in [whole -> Nat]
        /\ \A i \in whole : g[i] <= asks[i]
        /\ Total(g, whole) <= budget /\ Total(g, whole) \in Nat
        /\ (\A i \in whole : g[i] = asks[i]) \/ budget - Total(g, whole) < Cardinality(whole)
        /\ \A i \in whole : g[i] >= fl[i]
        /\ \A i, j \in whole : asks[i] < asks[j] => g[i] = asks[i] \/ g[i] >= g[j]
    <3>1. whole \in SUBSET U /\ owed <= budget
      BY <1>2, <1>6
    <3> QED
      BY <1>4, <3>1
  <2>2. rest = Spread(g, U)
    BY <1>1, <1>8
  <2> HIDE DEF g
  <2>3. (\A i \in Needy(asks) : i \in whole /\ g[i] = asks[i]) \/ budget - Total(g, whole) < Cardinality(U)
    BY <1>2, <1>6, <1>8, <2>1
  <2>4. Takes(g, whole, whole, group, asks, budget)
    BY <1>8, <2>1, <2>3 DEF Takes, fl, U
  <2> QED
    BY <1>3, <2>2, <2>4
\* What the floors leave is split evenly.
<1>9. ASSUME group # {}, share >= MinEqualShare PROVE Rationed(rest, asks, later, budget)
  <2> DEFINE g == Filled(Asked(asks, whole), budget - left)
             h == shareEqually(group, left)
  <2>1. budget - left = owed /\ left \in Nat /\ owed \in Nat
    BY <1>2
  <2>2. /\ g \in [whole -> Nat]
        /\ \A i \in whole : g[i] <= asks[i]
        /\ Total(g, whole) <= owed /\ Total(g, whole) \in Nat
        /\ \A i \in whole : g[i] >= fl[i]
    <3>1. whole \in SUBSET U /\ owed <= owed
      BY <1>6, <2>1
    <3> QED
      BY <1>4, <2>1, <3>1
  <2> HIDE DEF g
  <2>3. Total(fl, whole) <= Total(g, whole)
    <3>1. \A i \in whole : fl[i] \in Nat /\ g[i] \in Nat /\ fl[i] <= g[i]
      BY <1>5, <1>6, <2>2
    <3> QED
      BY <1>6, <3>1, SumBound
  <2>4. Total(g, whole) = owed
    BY <2>1, <2>2, <2>3
  \* A floor more for one would be one too many.
  <2>5. \A i \in whole : g[i] = fl[i]
    <3> SUFFICES ASSUME NEW i \in whole, g[i] # fl[i] PROVE FALSE
      OBVIOUS
    <3>1. /\ Total(g, whole) = g[i] + Total(g, whole \ {i})
          /\ Total(fl, whole) = fl[i] + Total(fl, whole \ {i})
          /\ Total(g, whole \ {i}) \in Nat /\ Total(fl, whole \ {i}) \in Nat
      <4>1. (\A j \in whole : fl[j] \in Nat) /\ \A j \in whole : g[j] \in Nat
        BY <1>5, <1>6, <2>2
      <4>2. whole \in SUBSET whole /\ whole \ {i} \in SUBSET whole
        OBVIOUS
      <4>3. /\ \A s \in SUBSET whole : Total(fl, s) \in Nat
            /\ \A s \in SUBSET whole : \A x \in s : Total(fl, s) = fl[x] + Total(fl, s \ {x})
        BY <1>6, <4>1, SumByOne
      <4>4. /\ \A s \in SUBSET whole : Total(g, s) \in Nat
            /\ \A s \in SUBSET whole : \A x \in s : Total(g, s) = g[x] + Total(g, s \ {x})
        BY <1>6, <4>1, SumByOne
      <4> QED
        BY <4>2, <4>3, <4>4
    <3>2. Total(fl, whole \ {i}) <= Total(g, whole \ {i})
      <4>1. IsFiniteSet(whole \ {i}) /\ \A j \in whole \ {i} : fl[j] \in Nat /\ g[j] \in Nat /\ fl[j] <= g[j]
        BY <1>5, <1>6, <2>2, FS_Subset
      <4> QED
        BY <4>1, SumBound
    <3>3. g[i] \in Nat /\ fl[i] \in Nat /\ g[i] > fl[i]
      BY <1>5, <1>6, <2>2
    <3> DEFINE a == Total(g, whole \ {i})
               b == Total(fl, whole \ {i})
    <3>4. /\ a \in Nat /\ b \in Nat /\ b <= a
          /\ g[i] + a = fl[i] + b
      BY <2>4, <3>1, <3>2
    <3> HIDE DEF a, b
    <3> QED
      BY <3>3, <3>4
  <2>6. /\ h \in [group -> Nat]
        /\ Total(h, group) = left
        /\ \A i \in group : h[i] >= MinEqualShare
        /\ \A i \in group : h[i] <= fl[i]
    <3>1. /\ h \in [group -> Nat]
          /\ Total(h, group) = left
          /\ \A i \in group : h[i] >= share
          /\ \A c \in Nat : Cardinality(group) * c > left => \A i \in group : h[i] <= c
      BY <1>6, <1>9, <2>1, SplitEvenly
    <3>2. \A i \in group : h[i] <= fl[i]
      BY <1>2, <1>5, <1>6, <3>1
    <3>3. share \in Int
      <4>1. left \in Int /\ Cardinality(group) \in Nat /\ Cardinality(group) > 0
        BY <1>6, <1>9, <2>1, FS_EmptySet
      <4>2. \E q \in Int : q = left \div Cardinality(group)
        BY <4>1, Shared
      <4> QED
        BY <4>2
    <3> HIDE DEF h, share
    <3>4. \A i \in group : h[i] >= MinEqualShare
      BY <1>5, <1>9, <3>1, <3>3
    <3> QED
      BY <3>1, <3>2, <3>4
  <2> HIDE DEF h
  <2> DEFINE T == whole \cup group
             t == Both(g, h)
  <2>7. /\ t \in [T -> Nat]
        /\ \A i \in whole : t[i] = fl[i]
        /\ \A i \in group : t[i] = h[i]
    <3>1. DOMAIN g = whole /\ DOMAIN h = group
      BY <2>2, <2>6
    <3>2. t = [i \in T |-> IF i \in whole THEN g[i] ELSE h[i]]
      BY <3>1 DEF Both
    <3> HIDE DEF t
    <3> QED
      BY <1>6, <2>2, <2>5, <2>6, <3>2
  <2>8. rest = Spread(t, U)
    BY <1>1, <1>9 DEF g, h
  <2> HIDE DEF t
  <2>9. Total(t, T) = budget
    <3>1. T \ whole = group /\ whole \in SUBSET T /\ IsFiniteSet(T) /\ \A i \in T : t[i] \in Nat
      BY <1>6, <2>7, FS_Union
    <3>2. Total(t, T) = Total(t, whole) + Total(t, group)
      <4>1. \A S \in SUBSET T : Total(t, T) = Total(t, S) + Total(t, T \ S)
        BY <3>1, SumOfParts
      <4> QED
        BY <3>1, <4>1
    <3>3. Total(t, whole) = owed
      <4>1. \A i \in whole : fl[i] \in Nat /\ t[i] = fl[i]
        BY <1>5, <1>6, <2>7
      <4> QED
        BY <1>6, <4>1, SumSame
    <3>4. Total(t, group) = left
      <4>1. \A i \in group : h[i] \in Nat /\ t[i] = h[i]
        BY <2>6, <2>7
      <4>2. Total(h, group) = Total(t, group)
        BY <1>6, <4>1, SumSame
      <4> QED
        BY <2>6, <4>2
    <3> QED
      BY <2>1, <3>2, <3>3, <3>4
  <2>10. \A i \in T : t[i] \in Nat /\ t[i] <= fl[i] /\ fl[i] <= asks[i] /\ fl[i] \in Nat /\ asks[i] \in Nat /\ i \in U
    <3>1. \A i \in T : i \in U
      BY <1>6
    <3> QED
      BY <1>5, <2>6, <2>7, <3>1
  <2>11. \A i \in whole : \A j \in T : asks[i] < asks[j] => t[i] = asks[i] \/ t[i] >= t[j]
    <3> SUFFICES ASSUME NEW i \in whole, NEW j \in T, asks[i] < asks[j], t[i] # asks[i] PROVE t[i] >= t[j]
      OBVIOUS
    <3>1. i \in U /\ j \in U /\ t[i] = fl[i] /\ t[j] <= fl[j] /\ t[j] \in Nat
      BY <2>7, <2>10
    <3>2. t[i] = Excerpt /\ fl[j] <= Excerpt
      BY <1>5, <3>1
    <3> QED
      BY <1>5, <3>1, <3>2
  <2>12. \A i \in group : t[i] >= MinEqualShare
    BY <2>6, <2>7
  <2>13. whole = {} /\ budget >= 1 => \E i \in T : t[i] > 0
    <3> SUFFICES ASSUME budget >= 1, \A i \in T : ~(t[i] > 0) PROVE FALSE
      OBVIOUS
    <3>1. \A i \in T : t[i] = 0
      BY <2>10
    <3>2. Total(t, T) = 0 * Cardinality(T)
      BY <1>6, <3>1, FS_Union, SumOfAlike
    <3>3. Cardinality(T) \in Nat
      BY <1>6, FS_Union, FS_CardinalityType
    <3> QED
      BY <2>9, <3>2, <3>3
  <2>14. \A i \in whole : t[i] >= fl[i]
    BY <2>7, <2>10
  <2>15. \A i \in T : t[i] <= asks[i]
    BY <2>10
  <2>16. T \ whole = group /\ whole \subseteq T
    BY <1>6
  <2>17. Total(t, T) <= budget /\ budget - Total(t, T) < Excerpt
    BY <1>5, <2>9
  <2> HIDE DEF T
  <2>18. Takes(t, T, whole, group, asks, budget)
    BY <2>7, <2>11, <2>12, <2>13, <2>14, <2>15, <2>16, <2>17 DEF Takes, fl, T
  <2> QED
    BY <1>3, <2>8, <2>18
\* What they leave is too little for that: whole floors for the first of them.
<1>10. ASSUME group # {}
       PROVE  /\ first \in group /\ floor \in Nat \ {0} /\ floor <= Excerpt
              /\ \A i \in group : fl[i] = floor /\ floor <= asks[i]
              /\ left \div floor \in Nat /\ left - floor * (left \div floor) < floor
              /\ whole \subseteq some /\ some \subseteq whole \cup group /\ some \subseteq U /\ IsFiniteSet(some)
              /\ left \div floor = 0 => some = whole
              /\ left \div floor > 0 => \E i \in some : i \in group
              /\ Total(fl, some) = owed + floor * (left \div floor)
              /\ Total(fl, some) <= budget
  <2>0. left \in Nat /\ owed \in Nat /\ left = budget - owed
    BY <1>2
  <2> HIDE DEF left, owed
  <2>1. floor \in Nat \ {0} /\ floor <= Excerpt /\ \A i \in group : fl[i] = floor /\ floor <= asks[i]
    <3> DEFINE c == CHOOSE i \in group : TRUE
    <3>1. c \in group
      BY <1>10
    <3>2. floor = fl[c]
      OBVIOUS
    <3> HIDE DEF c, floor
    <3>3. c \in U /\ asks[c] > 0 /\ \A i \in group : asks[i] = asks[c] /\ i \in U
      BY <1>2, <1>6, <1>7, <3>1
    <3>4. \A i \in group : fl[i] = floor /\ fl[i] <= asks[i]
      BY <1>5, <3>2, <3>3
    <3> QED
      BY <1>5, <3>2, <3>3, <3>4
  <2> HIDE DEF floor
  <2>2. PICK n \in Nat : n = left \div floor /\ floor * n <= left /\ left - floor * n < floor
    <3>1. PICK q \in Int, r \in 0..(floor - 1) :
               /\ q = left \div floor /\ r = left % floor
               /\ floor * q = left - r
               /\ floor * q <= left
               /\ left - floor * q < floor
               /\ \A b \in Int : floor * b <= left => b <= q
               /\ \A b \in Int : b <= q => floor * b <= left
               /\ left >= 0 => q \in Nat
      <4>1. floor \in Nat /\ floor > 0 /\ left \in Int
        BY <2>0, <2>1
      <4> QED
        BY <4>1, Shared
    <3> QED
      BY <2>0, <3>1
  <2>3. n < Cardinality(group)
    <3>1. PICK i \in group : TRUE
      BY <1>10
    <3>2. Cardinality(group) * floor > left
      BY <1>2, <2>1, <3>1
    <3> DEFINE m == Cardinality(group)
    <3>3. m \in Nat /\ m * floor > left
      BY <1>6, <3>2
    <3> HIDE DEF m
    <3>4. CASE n >= m
      <4>1. floor * n >= floor * m /\ floor * m = m * floor /\ floor * n \in Nat /\ m * floor \in Nat
        BY <2>1, <2>2, <3>3, <3>4
      <4> QED
        BY <2>0, <2>2, <3>3, <4>1
    <3> QED
      BY <3>3, <3>4 DEF m
  <2> DEFINE few == FirstByID(group, n)
  <2>4. few \subseteq group /\ IsFiniteSet(few) /\ Cardinality(few) = n
    <3>1. n \in 0..Cardinality(group)
      BY <1>6, <2>2, <2>3
    <3> QED
      BY <1>6, <3>1, FirstFew
  <2>5. some = whole \cup few
    BY <2>2
  <2> HIDE DEF few, some
  <2>6. first \in group
    <3>1. 1 \in 0..Cardinality(group)
      BY <1>6, <2>2, <2>3
    <3>2. Cardinality(FirstByID(group, 1)) = 1 /\ FirstByID(group, 1) \subseteq group
      BY <1>6, <3>1, FirstFew
    <3>3. FirstByID(group, 1) # {}
      BY <3>2, FS_EmptySet
    <3>4. PICK i \in group : i \in FirstByID(group, 1)
      BY <3>2, <3>3
    <3> QED
      BY <3>4
  <2>7. IsFiniteSet(some) /\ some \subseteq U /\ some \ whole = few /\ whole \subseteq some /\ some \subseteq whole \cup group
    <3>1. some \subseteq U /\ some \ whole = few /\ whole \subseteq some /\ some \subseteq whole \cup group
      BY <1>6, <2>4, <2>5
    <3> QED
      BY <1>6, <3>1, FS_Subset
  <2>8. Total(fl, some) = owed + floor * n
    <3>1. Total(fl, few) = floor * n
      <4>1. \A i \in few : fl[i] = floor
        BY <2>1, <2>4
      <4> QED
        BY <2>1, <2>4, <4>1, SumOfAlike
    <3>2. \A S \in SUBSET some : Total(fl, some) = Total(fl, S) + Total(fl, some \ S)
      <4>1. \A i \in some : fl[i] \in Nat
        BY <1>5, <2>7
      <4> QED
        BY <2>7, <4>1, SumOfParts
    <3> QED
      BY <2>7, <3>1, <3>2 DEF owed
  <2>9. n = 0 => some = whole
    <3>1. n = 0 => few = {}
      BY <2>4, FS_EmptySet
    <3> QED
      BY <2>5, <3>1
  <2>10. n > 0 => \E i \in some : i \in group
    <3> SUFFICES ASSUME n > 0 PROVE \E i \in some : i \in group
      OBVIOUS
    <3>1. few # {}
      BY <2>4, FS_EmptySet
    <3> QED
      BY <2>4, <2>5, <3>1
  <2>11. Total(fl, some) <= budget
    <3> DEFINE p == floor * n
    <3>1. p \in Nat /\ p <= left /\ Total(fl, some) = owed + p
      BY <2>1, <2>2, <2>8
    <3> HIDE DEF p
    <3> QED
      BY <2>0, <3>1
  <2> QED
    BY <2>1, <2>2, <2>6, <2>7, <2>8, <2>9, <2>10, <2>11
<1>11. ASSUME group # {}
       PROVE  /\ taking \in [some -> Nat]
              /\ \A i \in some : taking[i] <= asks[i] /\ taking[i] >= fl[i]
              /\ Total(taking, some) <= budget /\ Total(taking, some) \in Nat
              /\ budget - Total(taking, some) < floor
              /\ \A i, j \in some : asks[i] < asks[j] => taking[i] = asks[i] \/ taking[i] >= taking[j]
  <2> HIDE DEF some, floor
  <2>1. /\ taking \in [some -> Nat]
        /\ \A i \in some : taking[i] <= asks[i]
        /\ Total(taking, some) <= budget /\ Total(taking, some) \in Nat
        /\ \A i \in some : taking[i] >= fl[i]
        /\ \A i, j \in some : asks[i] < asks[j] => taking[i] = asks[i] \/ taking[i] >= taking[j]
    <3>1. some \in SUBSET U /\ Total(fl, some) <= budget
      BY <1>10, <1>11
    <3> QED
      BY <1>4, <3>1
  <2> HIDE DEF taking
  <2>2. Total(fl, some) <= Total(taking, some)
    <3>1. IsFiniteSet(some) /\ \A i \in some : fl[i] \in Nat /\ taking[i] \in Nat /\ fl[i] <= taking[i]
      BY <1>5, <1>10, <1>11, <2>1
    <3> QED
      BY <3>1, SumBound
  <2>3. budget - Total(taking, some) < floor
    <3> DEFINE p == floor * (left \div floor)
               a == Total(taking, some)
    <3>1. floor \in Nat /\ left \div floor \in Nat /\ owed \in 0..budget
      BY <1>2, <1>10, <1>11
    <3>2. p \in Nat /\ left - p < floor /\ owed + p <= a /\ a \in Nat /\ left = budget - owed
      BY <1>10, <1>11, <2>1, <2>2, <3>1
    <3> HIDE DEF p, a, left, owed
    <3>3. budget - a < floor
      BY <3>1, <3>2
    <3> QED
      BY <3>3 DEF a
  <2> QED
    BY <2>1, <2>3
\* What is left of the budget then is less than a floor of the group.
<1>12. ASSUME group # {}
       PROVE  over = budget - Total(taking, some) /\ over \in Nat /\ over < floor
  <2> DEFINE w == budget - Total(taking, some)
  <2>1. w \in Nat /\ w < floor
    BY <1>11, <1>12
  <2>2. first \in group /\ floor <= asks[first] /\ floor \in Nat /\ asks[first] \in Nat
    BY <1>5, <1>6, <1>10, <1>12
  <2>3. over = Min({asks[first], w})
    <3>1. DOMAIN taking = some
      BY <1>11, <1>12
    <3> QED
      BY <3>1 DEF AllOf
  <2> HIDE DEF w, over, first, floor
  <2>4. over = w
    BY <2>1, <2>2, <2>3, MinOfTwo
  <2> QED
    BY <2>1, <2>4 DEF w
<1>13. \A i \in whole : i \in U
  BY <1>6
<1> HIDE DEF some, taking, over, first, left, floor, owed, share
<1>14. ASSUME group # {}, rest = Spread(taking, U), ~(left \div floor = 0 /\ over >= MinEqualShare)
       PROVE  Rationed(rest, asks, later, budget)
  <2>1. whole = {} /\ budget >= 1 /\ budget >= MinEqualShare => \E i \in some : taking[i] > 0
    <3> SUFFICES ASSUME whole = {}, budget >= 1, budget >= MinEqualShare PROVE \E i \in some : taking[i] > 0
      OBVIOUS
    <3>1. left \div floor # 0
      <4> SUFFICES ASSUME left \div floor = 0 PROVE FALSE
        OBVIOUS
      <4>1. some = {}
        BY <1>10, <1>14
      <4>2. Total(taking, some) = 0
        BY <4>1, SumOfNone
      <4>3. over = budget
        BY <1>12, <1>14, <4>2
      <4> QED
        BY <1>14, <4>3
    <3>2. PICK i \in some : i \in group
      BY <1>10, <1>14, <3>1
    <3>3. fl[i] = floor /\ floor \in Nat \ {0} /\ taking[i] >= fl[i] /\ taking[i] \in Nat
      BY <1>10, <1>11, <1>14, <3>2
    <3>4. taking[i] > 0
      BY <3>3
    <3> QED
      BY <3>4
  <2>2. budget - Total(taking, some) < Excerpt
    <3> DEFINE a == Total(taking, some)
    <3>1. a \in Nat /\ budget - a < floor /\ floor \in Nat /\ floor <= Excerpt
      BY <1>10, <1>11, <1>14
    <3> HIDE DEF a
    <3> QED
      BY <1>5, <3>1 DEF a
  <2>3. Takes(taking, some, whole, group, asks, budget)
    <3>1. whole \subseteq some /\ some \subseteq whole \cup group
      BY <1>10, <1>14
    <3>2. /\ taking \in [some -> Nat]
          /\ \A i \in some : taking[i] <= asks[i] /\ taking[i] >= fl[i]
          /\ Total(taking, some) <= budget
          /\ \A i, j \in some : asks[i] < asks[j] => taking[i] = asks[i] \/ taking[i] >= taking[j]
      BY <1>11, <1>14
    <3> QED
      BY <2>1, <2>2, <3>1, <3>2 DEF Takes, fl
  <2> QED
    BY <1>3, <1>14, <2>3
<1>15. ASSUME group # {}, rest = Spread(cut, U), left \div floor = 0, over >= MinEqualShare
       PROVE  Rationed(rest, asks, later, budget)
  <2> DEFINE T == whole \cup {first}
  <2>1. some = whole /\ first \in group /\ first \notin whole /\ first \in U
    BY <1>6, <1>10, <1>15
  <2>2. /\ taking \in [whole -> Nat]
        /\ \A i \in whole : taking[i] <= asks[i] /\ taking[i] >= fl[i]
        /\ Total(taking, whole) <= budget /\ Total(taking, whole) \in Nat
        /\ \A i, j \in whole : asks[i] < asks[j] => taking[i] = asks[i] \/ taking[i] >= taking[j]
    BY <1>11, <1>15, <2>1
  <2>3. over \in Nat /\ over < floor /\ over = budget - Total(taking, whole) /\ floor \in Nat /\ floor <= Excerpt /\ floor <= asks[first]
    BY <1>10, <1>12, <1>15, <2>1
  <2>4. /\ cut \in [T -> Nat]
        /\ \A i \in whole : cut[i] = taking[i]
        /\ cut[first] = over
    <3>1. cut = [i \in T |-> IF i \in whole THEN taking[i] ELSE over]
      <4>1. DOMAIN taking = whole
        BY <2>2
      <4> QED
        BY <2>1, <4>1 DEF Both
    <3> HIDE DEF cut
    <3> QED
      BY <2>1, <2>2, <2>3, <3>1
  <2> HIDE DEF cut
  <2>5. Total(cut, T) = budget
    <3>1. IsFiniteSet(T) /\ T \ whole = {first} /\ whole \in SUBSET T /\ \A i \in T : cut[i] \in Nat
      <4>1. IsFiniteSet(whole) /\ IsFiniteSet({first})
        BY <1>6, FS_Singleton
      <4>2. IsFiniteSet(T)
        BY <4>1, FS_Union
      <4>3. T \ whole = {first}
        BY <2>1
      <4>4. \A i \in T : cut[i] \in Nat
        BY <2>4
      <4> QED
        BY <4>2, <4>3, <4>4
    <3>2. Total(cut, T) = Total(cut, whole) + Total(cut, {first})
      <4>1. \A S \in SUBSET T : Total(cut, T) = Total(cut, S) + Total(cut, T \ S)
        BY <3>1, SumOfParts
      <4> QED
        BY <3>1, <4>1
    <3>3. Total(cut, {first}) = over
      <4>1. IsFiniteSet({first}) /\ Cardinality({first}) = 1 /\ \A i \in {first} : cut[i] = over
        BY <2>4, FS_Singleton
      <4>2. Total(cut, {first}) = over * Cardinality({first})
        BY <2>3, <4>1, SumOfAlike
      <4> QED
        BY <2>3, <4>1, <4>2
    <3>4. Total(taking, whole) = Total(cut, whole)
      <4>1. \A i \in whole : taking[i] \in Nat /\ cut[i] = taking[i]
        BY <2>2, <2>4
      <4> QED
        BY <1>6, <4>1, SumSame
    <3> QED
      BY <2>2, <2>3, <3>2, <3>3, <3>4
  <2>6. \A i \in T : cut[i] <= asks[i]
    <3>1. cut[first] <= asks[first]
      BY <1>5, <2>1, <2>3, <2>4
    <3> QED
      BY <2>2, <2>4, <3>1
  <2>7. \A i \in whole : \A j \in T : asks[i] < asks[j] => cut[i] = asks[i] \/ cut[i] >= cut[j]
    <3> SUFFICES ASSUME NEW i \in whole, NEW j \in T, asks[i] < asks[j] PROVE cut[i] = asks[i] \/ cut[i] >= cut[j]
      OBVIOUS
    <3>1. CASE j \in whole
      BY <2>2, <2>4, <3>1
    <3>2. CASE j = first
      <4>1. cut[i] \in Nat /\ cut[i] >= fl[i] /\ cut[i] <= asks[i] /\ cut[j] = over
        BY <2>2, <2>4, <3>2
      <4>2. i \in U /\ asks[i] \in Nat /\ fl[i] = IF asks[i] <= Excerpt THEN asks[i] ELSE Excerpt
        BY <1>5, <1>13
      <4> QED
        BY <1>5, <2>3, <4>1, <4>2
    <3> QED
      BY <3>1, <3>2
  <2>8. whole = {} /\ budget >= 1 => \E i \in T : cut[i] > 0
    <3> SUFFICES ASSUME whole = {}, budget >= 1 PROVE cut[first] > 0
      OBVIOUS
    <3>1. Total(taking, whole) = 0
      BY SumOfNone
    <3> QED
      BY <2>3, <2>4, <3>1
  <2>9. Takes(cut, T, whole, group, asks, budget)
    <3>1. whole \subseteq T /\ T \subseteq whole \cup group /\ T \ whole = {first}
      BY <2>1
    <3>2. Total(cut, T) <= budget /\ budget - Total(cut, T) < Excerpt
      BY <1>5, <2>5
    <3>3. \A i \in whole : cut[i] >= fl[i]
      BY <2>2, <2>4
    <3>4. \A i \in T \ whole : cut[i] >= MinEqualShare
      BY <1>15, <2>4, <3>1
    <3> HIDE DEF T
    <3> QED
      BY <2>4, <2>6, <2>7, <2>8, <3>1, <3>2, <3>3, <3>4 DEF Takes, fl
  <2> QED
    BY <1>3, <1>15, <2>9
<1> QED
  BY <1>1, <1>8, <1>9, <1>14, <1>15 DEF rest

\* The greater of two numbers.
LEMMA MaxOfTwo ==
    ASSUME NEW a \in Nat, NEW b \in Nat
    PROVE  Max({a, b}) = IF a >= b THEN a ELSE b
<1>1. {a, b} \subseteq 0..(a + b) /\ {a, b} # {} /\ a + b \in Nat
  OBVIOUS
<1>2. Max({a, b}) \in {a, b} /\ \A y \in {a, b} : Max({a, b}) >= y
  BY <1>1, MaxOfSome
<1> QED
  BY <1>2

\* What priorityShares gives.
PrioritySplit(f, artifact, sinks, share) ==
    /\ f \in [DOMAIN artifact -> Nat]
    /\ \A i \in DOMAIN artifact : f[i] <= artifact[i]
    /\ \A i \in DOMAIN artifact \ sinks : f[i] = 0
    /\ Total(f, DOMAIN artifact) <= share
    /\ \A i, j \in sinks : artifact[i] < artifact[j] => f[i] = artifact[i] \/ f[i] >= f[j]
    /\ \/ Total(f, sinks) >= Total(Floors(artifact), sinks)
       \/ Total(f, sinks) >= share - Cardinality(sinks)

\* The sinks' first share: within it, the shorter first, and a floor for each of them or
\* all of it but for what does not split evenly.
LEMMA PriorityRations ==
    ASSUME NEW artifact, IsFiniteSet(DOMAIN artifact), artifact \in [DOMAIN artifact -> Nat],
           NEW sinks \in SUBSET (DOMAIN artifact), \A i \in sinks : artifact[i] > 0, NEW share \in Nat,
           NEW f, f = priorityShares(artifact, sinks, share)
    PROVE  PrioritySplit(f, artifact, sinks, share)
<1> DEFINE U == DOMAIN artifact
           asks == Asked(artifact, sinks)
           low == waterLevel(asks, share)
           level == Max({low, Excerpt})
           want == [i \in sinks |-> Min({artifact[i], level})]
           kept == {i \in sinks : Total(want, {j \in sinks : artifact[j] <= artifact[i]}) <= share}
           group == {i \in sinks \ kept : \A j \in sinks \ kept : artifact[i] <= artifact[j]}
           each == (share - Total(want, kept)) \div Cardinality(group)
<1>1. f = [i \in U |-> IF i \in kept THEN want[i] ELSE IF i \in group THEN each ELSE 0]
  BY Zenon DEF priorityShares, Asked
<1>2. /\ IsFiniteSet(U) /\ IsFiniteSet(sinks) /\ sinks \subseteq U /\ \A i \in U : artifact[i] \in Nat
      /\ DOMAIN asks = sinks /\ asks \in [sinks -> Nat] /\ \A i \in sinks : asks[i] = artifact[i]
      /\ Excerpt \in Nat \ {0} /\ Needy(asks) = sinks
  BY FS_Subset, BudgetAssumption DEF Asked, Needy
<1>3. \A i \in U : Floors(artifact)[i] = IF artifact[i] <= Excerpt THEN artifact[i] ELSE Excerpt
  BY FloorsOf
<1> HIDE DEF U, asks
<1>4. /\ low \in Nat
      /\ Filled(asks, share) = [i \in sinks |-> Min({asks[i], low})]
      /\ Total(Filled(asks, share), sinks) <= share
  <2>1. /\ waterLevel(asks, share) \in Nat
        /\ Filled(asks, share) = [i \in DOMAIN asks |-> Min({asks[i], waterLevel(asks, share)})]
        /\ Total(Filled(asks, share), DOMAIN asks) <= share
    BY <1>2, FilledFits
  <2> QED
    BY <1>2, <2>1
<1> HIDE DEF low
<1>5. level = (IF low >= Excerpt THEN low ELSE Excerpt) /\ level \in Nat
  BY <1>2, <1>4, MaxOfTwo
<1> HIDE DEF level
<1>6. \A i \in sinks : want[i] \in Nat /\ want[i] = IF artifact[i] <= level THEN artifact[i] ELSE level
  BY <1>2, <1>5, MinOfTwo
<1> HIDE DEF want
\* What the sinks get is all there is.
<1>7. ASSUME f \in [U -> Nat], \A i \in U \ sinks : f[i] = 0 PROVE Total(f, U) = Total(f, sinks)
  <2>1. IsFiniteSet(U \ sinks) /\ sinks \in SUBSET U /\ \A i \in U : f[i] \in Nat
    BY <1>2, <1>7, FS_Subset
  <2>2. Total(f, U) = Total(f, sinks) + Total(f, U \ sinks)
    <3>1. \A S \in SUBSET U : Total(f, U) = Total(f, S) + Total(f, U \ S)
      BY <1>2, <2>1, SumOfParts
    <3> QED
      BY <2>1, <3>1
  <2>3. Total(f, U \ sinks) = 0 * Cardinality(U \ sinks)
    BY <1>7, <2>1, SumOfAlike
  <2>4. Cardinality(U \ sinks) \in Nat /\ Total(f, sinks) \in Nat
    <3>1. \A S \in SUBSET U : Total(f, S) \in Nat
      BY <1>2, <2>1, SumByOne
    <3> QED
      BY <2>1, <3>1, FS_CardinalityType
  <2> QED
    BY <2>2, <2>3, <2>4
\* The level they share is at least a floor: all are filled up to it.
<1>8. ASSUME low >= Excerpt
      PROVE  /\ f \in [U -> Nat]
             /\ \A i \in U : f[i] <= artifact[i]
             /\ \A i \in U \ sinks : f[i] = 0
             /\ Total(f, U) <= share
             /\ \A i, j \in sinks : artifact[i] < artifact[j] => f[i] = artifact[i] \/ f[i] >= f[j]
             /\ Total(f, sinks) >= Total(Floors(artifact), sinks)
  <2>1. level = low
    BY <1>5, <1>8
  <2>2. Total(want, sinks) <= share
    <3>1. \A i \in sinks : Filled(asks, share)[i] = want[i]
      BY <1>2, <1>4, <2>1 DEF want
    <3>2. Total(want, sinks) = Total(Filled(asks, share), sinks)
      BY <1>2, <1>6, <3>1, SumSame
    <3> QED
      BY <1>4, <3>2
  <2>3. kept = sinks
    <3>1. \A S \in SUBSET sinks : Total(want, S) \in Nat /\ Total(want, S) <= Total(want, sinks)
      BY <1>2, <1>6, SumOfSome
    <3>2. Total(want, sinks) \in Nat
      BY <3>1
    <3>3. \A S \in SUBSET sinks : Total(want, S) <= share
      BY <2>2, <3>1, <3>2
    <3>4. \A i \in sinks : {j \in sinks : artifact[j] <= artifact[i]} \in SUBSET sinks
      OBVIOUS
    <3> QED
      BY <3>3, <3>4
  <2> HIDE DEF kept, group, each
  <2>4. /\ f \in [U -> Nat] /\ \A i \in sinks : f[i] = want[i]
        /\ \A i \in U \ sinks : f[i] = 0
    <3>1. group = {}
      BY <2>3 DEF group
    <3>2. f = [i \in U |-> IF i \in sinks THEN want[i] ELSE 0]
      BY <1>1, <2>3, <3>1
    <3> QED
      BY <1>2, <1>6, <3>2
  <2>5. Total(f, sinks) = Total(want, sinks)
    BY <1>2, <1>6, <2>4, SumSame
  <2>6. Total(f, U) <= share
    BY <1>7, <2>2, <2>4, <2>5
  <2>7. Total(Floors(artifact), sinks) <= Total(f, sinks)
    <3>1. \A i \in sinks : Floors(artifact)[i] \in Nat /\ f[i] \in Nat /\ Floors(artifact)[i] <= f[i]
      BY <1>2, <1>3, <1>4, <1>6, <1>8, <2>1, <2>4
    <3> QED
      BY <1>2, <3>1, SumBound
  <2>8. \A i \in U : f[i] <= artifact[i]
    BY <1>2, <1>4, <1>6, <2>1, <2>4
  <2>9. \A i, j \in sinks : artifact[i] < artifact[j] => f[i] = artifact[i] \/ f[i] >= f[j]
    BY <1>2, <1>4, <1>6, <2>1, <2>4
  <2>10. Total(Floors(artifact), sinks) \in Nat /\ Total(f, sinks) \in Nat
    <3>1. \A i \in sinks : Floors(artifact)[i] \in Nat
      BY <1>2, <1>3
    <3>2. \A i \in sinks : f[i] \in Nat
      BY <1>6, <2>4
    <3> QED
      BY <1>2, <3>1, <3>2, SumOfSome
  <2> QED
    BY <2>4, <2>6, <2>7, <2>8, <2>9, <2>10
\* It is less: floors for the shortest, an even split for the first that do not fit.
<1>9. ASSUME ~(low >= Excerpt)
      PROVE  /\ f \in [U -> Nat]
             /\ \A i \in U : f[i] <= artifact[i]
             /\ \A i \in U \ sinks : f[i] = 0
             /\ Total(f, U) <= share
             /\ \A i, j \in sinks : artifact[i] < artifact[j] => f[i] = artifact[i] \/ f[i] >= f[j]
             /\ \/ Total(f, sinks) >= Total(Floors(artifact), sinks)
                \/ Total(f, sinks) >= share - Cardinality(sinks)
  <2> DEFINE no == [i \in sinks |-> FALSE]
             fl == Floors(asks)
  <2>1. level = Excerpt
    BY <1>5, <1>9
  <2>2. fl = want
    BY <1>2, <2>1 DEF Floors, want
  <2>3. \A i, j \in sinks : Sooner(asks, no, i, j) <=> artifact[i] < artifact[j]
    <3> SUFFICES ASSUME NEW i \in sinks, NEW j \in sinks PROVE Sooner(asks, no, i, j) <=> artifact[i] < artifact[j]
      OBVIOUS
    <3>1. no[i] = no[j]
      OBVIOUS
    <3>2. Sooner(asks, no, i, j) <=> asks[i] < asks[j]
      BY <3>1 DEF Sooner
    <3> QED
      BY <1>2, <3>2
  <2>4. no \in [sinks -> BOOLEAN]
    OBVIOUS
  <2> HIDE DEF no, fl
  <2>5. kept = Whole(asks, no, share)
    <3>1. \A i \in sinks : {j \in sinks : artifact[j] <= artifact[i]} = {j \in sinks : ~Sooner(asks, no, i, j)}
      <4> SUFFICES ASSUME NEW i \in sinks
                   PROVE  {j \in sinks : artifact[j] <= artifact[i]} = {j \in sinks : ~Sooner(asks, no, i, j)}
        OBVIOUS
      <4>1. \A j \in sinks : artifact[j] <= artifact[i] <=> ~Sooner(asks, no, i, j)
        BY <1>2, <2>3
      <4> QED
        BY <4>1
    <3>2. Whole(asks, no, share) = {i \in sinks : Total(want, {j \in sinks : ~Sooner(asks, no, i, j)}) <= share}
      BY <1>2, <2>2 DEF Whole, fl
    <3> QED
      BY <3>1, <3>2
  <2> HIDE DEF kept
  <2>6. group = Group(asks, no, share)
    <3>1. \A i, j \in sinks : artifact[i] <= artifact[j] <=> ~Sooner(asks, no, j, i)
      BY <1>2, <2>3
    <3> QED
      BY <1>2, <2>5, <3>1 DEF Group
  <2> HIDE DEF group
  <2>7. /\ kept \subseteq sinks /\ group \subseteq sinks \ kept
        /\ Total(want, kept) \in 0..share
        /\ group = {} => kept = sinks
        /\ \A i \in kept \cup group : \A j \in sinks : Sooner(asks, no, j, i) => j \in kept
        /\ \A i, j \in group : asks[i] = asks[j] /\ no[i] = no[j]
        /\ \A i \in group : Cardinality(group) * want[i] > share - Total(want, kept)
    BY <1>2, <2>2, <2>4, <2>5, <2>6, RestOrder DEF fl
  <2>8. IsFiniteSet(kept) /\ IsFiniteSet(group) /\ Cardinality(group) \in Nat /\ Cardinality(sinks) \in Nat
        /\ Cardinality(group) <= Cardinality(sinks) /\ (group # {} => Cardinality(group) > 0)
    <3>1. IsFiniteSet(sinks) /\ Cardinality(sinks) \in Nat
      BY <1>2, FS_CardinalityType
    <3>2. kept \in SUBSET sinks /\ group \in SUBSET sinks
      BY <2>7
    <3>3. IsFiniteSet(kept) /\ IsFiniteSet(group) /\ Cardinality(group) <= Cardinality(sinks)
      BY <3>1, <3>2, FS_Subset
    <3>4. Cardinality(group) \in Nat
      BY <3>3, FS_CardinalityType
    <3>5. Cardinality(group) = 0 <=> group = {}
      BY <3>3, FS_EmptySet
    <3> QED
      BY <3>1, <3>3, <3>4, <3>5
  <2> DEFINE left == share - Total(want, kept)
             n == Cardinality(group)
  <2>9. group # {} => /\ each \in Nat /\ n * each <= left /\ left - n * each < n
                      /\ \A i \in group : each <= want[i]
    <3> SUFFICES ASSUME group # {}
                 PROVE  /\ each \in Nat /\ n * each <= left /\ left - n * each < n
                        /\ \A i \in group : each <= want[i]
      OBVIOUS
    <3>1. left \in Nat /\ n \in Nat /\ n > 0 /\ each = left \div n
      BY <2>7, <2>8
    <3>2. \A i \in group : want[i] \in Nat /\ n * want[i] > left
      BY <1>6, <2>7
    <3> HIDE DEF left, n, each
    <3>3. PICK q \in Int : /\ q = left \div n
                           /\ n * q <= left
                           /\ left - n * q < n
                           /\ \A b \in Int : b <= q => n * b <= left
                           /\ left >= 0 => q \in Nat
      BY <3>1, Shared
    <3>4. each = q /\ q \in Nat
      BY <3>1, <3>3
    <3>5. \A i \in group : q <= want[i]
      <4> SUFFICES ASSUME NEW i \in group, ~(q <= want[i]) PROVE FALSE
        OBVIOUS
      <4>1. want[i] <= q
        BY <3>2, <3>4
      <4>2. n * want[i] <= left /\ n * want[i] > left /\ n * want[i] \in Nat
        BY <3>1, <3>2, <3>3, <4>1
      <4> QED
        BY <3>1, <4>2
    <3> QED
      BY <3>3, <3>4, <3>5
  <2> HIDE DEF each
  <2>10. /\ f \in [U -> Nat]
         /\ \A i \in kept : f[i] = want[i]
         /\ \A i \in group : f[i] = each
         /\ \A i \in U : i \notin kept \cup group => f[i] = 0
    <3>1. (\A i \in kept : want[i] \in Nat) /\ (\A i \in group : each \in Nat) /\ group \cap kept = {} /\ kept \subseteq U /\ group \subseteq U
      BY <1>2, <1>6, <2>7, <2>9
    <3> QED
      BY <1>1, <3>1
  <2>11. Total(f, sinks) = Total(want, kept) + n * each \/ (group = {} /\ Total(f, sinks) = Total(want, sinks) /\ kept = sinks)
    <3>1. CASE group = {}
      <4>1. kept = sinks
        BY <2>7, <3>1
      <4>2. \A i \in sinks : want[i] \in Nat /\ f[i] = want[i]
        BY <1>6, <2>10, <4>1
      <4> QED
        BY <1>2, <3>1, <4>1, <4>2, SumSame
    <3>2. CASE group # {}
      <4> DEFINE T == kept \cup group
      <4>1. IsFiniteSet(T) /\ T \subseteq sinks /\ T \ kept = group /\ kept \in SUBSET T /\ T \in SUBSET sinks /\ IsFiniteSet(sinks \ T)
        BY <1>2, <2>7, <2>8, FS_Union, FS_Subset
      <4>2. \A i \in sinks : f[i] \in Nat
        BY <1>2, <2>10
      <4>3. \A i \in sinks \ T : f[i] = 0
        BY <1>2, <2>10
      <4> HIDE DEF T
      <4>4. Total(f, sinks) = Total(f, T) + Total(f, sinks \ T)
        <5>1. \A S \in SUBSET sinks : Total(f, sinks) = Total(f, S) + Total(f, sinks \ S)
          BY <1>2, <4>2, SumOfParts
        <5> QED
          BY <4>1, <5>1
      <4>5. Total(f, T) = Total(f, kept) + Total(f, group)
        <5>1. \A S \in SUBSET T : Total(f, T) = Total(f, S) + Total(f, T \ S)
          <6>1. \A i \in T : f[i] \in Nat
            BY <4>1, <4>2
          <6> QED
            BY <4>1, <6>1, SumOfParts
        <5> QED
          BY <4>1, <5>1
      <4>6. Total(f, sinks \ T) = 0 * Cardinality(sinks \ T) /\ Cardinality(sinks \ T) \in Nat
        BY <4>1, <4>3, SumOfAlike, FS_CardinalityType
      <4>7. Total(want, kept) = Total(f, kept)
        <5>1. \A i \in kept : want[i] \in Nat /\ f[i] = want[i]
          BY <1>6, <2>7, <2>10
        <5> QED
          BY <2>8, <5>1, SumSame
      <4>8. Total(f, group) = each * Cardinality(group)
        BY <2>8, <2>9, <2>10, <3>2, SumOfAlike
      <4>9. each * Cardinality(group) = n * each /\ n * each \in Nat
        BY <2>8, <2>9, <3>2
      <4>10. Total(want, kept) \in Nat
        BY <2>7
      <4> HIDE DEF n
      <4> QED
        BY <4>4, <4>5, <4>6, <4>7, <4>8, <4>9, <4>10
    <3> QED
      BY <3>1, <3>2
  <2> HIDE DEF n
  <2>12. Total(f, sinks) <= share
    <3>1. CASE group = {}
      <4>1. kept = sinks
        BY <2>7, <3>1
      <4>2. \A i \in sinks : want[i] \in Nat /\ f[i] = want[i]
        BY <1>6, <2>10, <4>1
      <4>3. Total(want, sinks) = Total(f, sinks)
        BY <1>2, <4>2, SumSame
      <4> QED
        BY <2>7, <4>1, <4>3
    <3>2. CASE group # {}
      <4> DEFINE p == n * each
      <4>1. p \in Nat /\ p <= left /\ Total(f, sinks) = Total(want, kept) + p
        BY <2>8, <2>9, <2>11, <3>2 DEF n
      <4> HIDE DEF p
      <4> QED
        BY <2>7, <4>1
    <3> QED
      BY <3>1, <3>2
  <2>13. Total(f, U) <= share
    <3>1. \A i \in U \ sinks : f[i] = 0
      BY <2>7, <2>10
    <3> QED
      BY <1>7, <2>10, <2>12, <3>1
  <2>14. \/ Total(f, sinks) >= Total(Floors(artifact), sinks)
         \/ Total(f, sinks) >= share - Cardinality(sinks)
    <3>1. CASE group = {}
      <4>1. kept = sinks
        BY <2>7, <3>1
      <4>2. \A i \in sinks : f[i] \in Nat /\ Floors(artifact)[i] = f[i]
        BY <1>2, <1>3, <1>6, <2>1, <2>10, <4>1
      <4>3. Total(f, sinks) = Total(Floors(artifact), sinks) /\ Total(f, sinks) \in Nat
        BY <1>2, <4>2, SumSame, SumOfSome
      <4> QED
        BY <4>3
    <3>2. CASE group # {}
      <4> DEFINE p == n * each
                 m == Cardinality(sinks)
      <4>1. p \in Nat /\ left - p < n /\ Total(f, sinks) = Total(want, kept) + p /\ n \in Nat /\ m \in Nat /\ n <= m
        BY <2>8, <2>9, <2>11, <3>2 DEF n
      <4> HIDE DEF p, m
      <4>2. Total(f, sinks) >= share - m
        BY <2>7, <4>1
      <4> QED
        BY <4>2 DEF m
    <3> QED
      BY <3>1, <3>2
  <2>15. \A i \in U : f[i] \in Nat /\ f[i] <= artifact[i]
    <3> SUFFICES ASSUME NEW i \in U PROVE f[i] \in Nat /\ f[i] <= artifact[i]
      OBVIOUS
    <3>1. i \in sinks => want[i] \in Nat /\ want[i] <= artifact[i]
      BY <1>2, <1>6, <2>1
    <3>2. f[i] \in Nat /\ artifact[i] \in Nat
      BY <1>2, <2>10
    <3>3. CASE i \in kept
      BY <2>7, <2>10, <3>1, <3>2, <3>3
    <3>4. CASE i \in group
      <4>1. f[i] = each /\ each <= want[i] /\ i \in sinks /\ each \in Nat
        BY <2>7, <2>9, <2>10, <3>4
      <4> QED
        BY <3>1, <3>2, <4>1
    <3>5. CASE i \notin kept \cup group
      BY <2>10, <3>2, <3>5
    <3> QED
      BY <3>3, <3>4, <3>5
  <2>16. \A i, j \in sinks : artifact[i] < artifact[j] => f[i] = artifact[i] \/ f[i] >= f[j]
    <3> SUFFICES ASSUME NEW i \in sinks, NEW j \in sinks, artifact[i] < artifact[j], f[i] # artifact[i], ~(f[i] >= f[j]) PROVE FALSE
      OBVIOUS
    <3>1. i \in U /\ j \in U /\ f[i] \in Nat /\ f[j] \in Nat /\ f[j] # 0
      BY <1>2, <2>15
    <3>2. j \in kept \cup group
      BY <2>10, <3>1
    <3>3. i \in kept
      BY <2>3, <2>7, <3>2
    <3>4. f[i] = Excerpt
      BY <1>2, <1>6, <2>1, <2>10, <3>1, <3>3
    <3>5. want[j] <= Excerpt /\ want[j] \in Nat
      BY <1>2, <1>6, <2>1, <3>1
    <3>6. f[j] <= want[j]
      <4>1. CASE j \in kept
        BY <2>10, <3>5, <4>1
      <4>2. CASE j \in group
        BY <2>9, <2>10, <4>2
      <4> QED
        BY <3>2, <4>1, <4>2
    <3> QED
      BY <1>2, <3>1, <3>4, <3>5, <3>6
  <2>17. \A i \in U \ sinks : f[i] = 0
    BY <2>7, <2>10
  <2> QED
    BY <2>10, <2>13, <2>14, <2>15, <2>16, <2>17
<1> QED
  BY <1>8, <1>9 DEF U, PrioritySplit

\* A half is at most what remains.
LEMMA HalfIs ==
    ASSUME NEW n \in Nat
    PROVE  Half(n) \in Nat /\ Half(n) <= n /\ n - Half(n) >= Half(n) /\ \A m \in Nat : 2 * m <= n => Half(n) >= m
BY DEF Half

\* What sinkFirstAllowances gives, ends being the sinks.
SinkFirst(a, artifact, sink, ends, budget) ==
    /\ a \in [DOMAIN artifact -> Nat]
    /\ \A i \in DOMAIN artifact : a[i] <= artifact[i]
    /\ Total(a, DOMAIN artifact) <= budget
    /\ (\E i \in DOMAIN artifact : a[i] < artifact[i]) =>
           \/ budget - Total(a, DOMAIN artifact) < Excerpt
           \/ budget - Total(a, DOMAIN artifact) < Cardinality(DOMAIN artifact)
    /\ \A i, j \in DOMAIN artifact :
           sink[i] = sink[j] /\ artifact[i] < artifact[j] => a[i] = artifact[i] \/ a[i] >= a[j]
    /\ \A i \in DOMAIN artifact : ~sink[i] /\ a[i] > 0 /\ a[i] < artifact[i] => a[i] >= MinEqualShare
    /\ \/ Total(a, ends) >= Total(Floors(artifact), ends)
       \/ Total(a, ends) >= Half(budget) - Cardinality(ends)
    /\ budget >= Excerpt /\ (\E i \in DOMAIN artifact : ~sink[i] /\ artifact[i] > 0) =>
           \E i \in DOMAIN artifact : ~sink[i] /\ a[i] > 0

\* The artifacts' allowances, the sinks' first share and the rest together.
LEMMA ArtifactsRationed ==
    ASSUME NEW artifact, IsFiniteSet(DOMAIN artifact), DOMAIN artifact \subseteq Nat, artifact \in [DOMAIN artifact -> Nat],
           NEW sink \in [DOMAIN artifact -> BOOLEAN], NEW budget \in Nat,
           NEW a, a = sinkFirstAllowances(artifact, sink, budget),
           NEW ends, ends = {i \in DOMAIN artifact : sink[i]}
    PROVE  SinkFirst(a, artifact, sink, ends, budget)
<1> DEFINE U == DOMAIN artifact
           sinks == {i \in U : sink[i] /\ artifact[i] > 0}
           first == IF sinks = {} THEN NothingFor(U) ELSE priorityShares(artifact, sinks, Half(budget))
           asks == [i \in U |-> artifact[i] - first[i]]
           left == budget - AllOf(first)
           rest == restAllowances(asks, sink, left)
<1>1. a = [i \in U |-> first[i] + rest[i]]
  BY Zenon DEF sinkFirstAllowances
<1>2. /\ IsFiniteSet(U) /\ U \subseteq Nat /\ sinks \in SUBSET U /\ ends \in SUBSET U /\ sinks \subseteq ends
      /\ \A i \in U : artifact[i] \in Nat /\ sink[i] \in BOOLEAN /\ (i \in ends <=> sink[i]) /\ (i \in sinks <=> sink[i] /\ artifact[i] > 0)
      /\ Half(budget) \in Nat /\ Half(budget) <= budget /\ budget - Half(budget) >= Half(budget)
      /\ Excerpt \in Nat \ {0} /\ U = DOMAIN artifact
      /\ \A i \in U : Floors(artifact)[i] = IF artifact[i] <= Excerpt THEN artifact[i] ELSE Excerpt
  <2>1. Half(budget) \in Nat /\ Half(budget) <= budget /\ budget - Half(budget) >= Half(budget)
    BY HalfIs
  <2>2. \A i \in U : Floors(artifact)[i] = IF artifact[i] <= Excerpt THEN artifact[i] ELSE Excerpt
    BY FloorsOf
  <2> QED
    BY <2>1, <2>2, BudgetAssumption
<1>3. /\ first \in [U -> Nat]
      /\ \A i \in U : first[i] <= artifact[i]
      /\ \A i \in U \ sinks : first[i] = 0
      /\ Total(first, U) <= Half(budget)
      /\ \A i, j \in sinks : artifact[i] < artifact[j] => first[i] = artifact[i] \/ first[i] >= first[j]
      /\ \/ Total(first, sinks) >= Total(Floors(artifact), sinks)
         \/ Total(first, sinks) >= Half(budget) - Cardinality(sinks)
  <2>1. CASE sinks = {}
    <3>1. first = [i \in U |-> 0]
      BY <2>1 DEF NothingFor
    <3>2. Total(first, U) = 0 * Cardinality(U) /\ Cardinality(U) \in Nat
      <4>1. \A i \in U : first[i] = 0
        BY <3>1
      <4> HIDE DEF first, U
      <4> QED
        BY <1>2, <4>1, SumOfAlike, FS_CardinalityType
    <3>3. Total(first, sinks) = 0 /\ Total(Floors(artifact), sinks) = 0
      BY <2>1, SumOfNone
    <3> HIDE DEF first, U, sinks
    <3> QED
      BY <1>2, <2>1, <3>1, <3>2, <3>3
  <2>2. CASE sinks # {}
    <3>1. first = priorityShares(artifact, sinks, Half(budget))
      BY <2>2
    <3>2. \A i \in sinks : artifact[i] > 0
      OBVIOUS
    <3>3. IsFiniteSet(DOMAIN artifact) /\ sinks \in SUBSET (DOMAIN artifact) /\ Half(budget) \in Nat
      BY <1>2
    <3> HIDE DEF first, sinks
    <3>4. PrioritySplit(first, artifact, sinks, Half(budget))
      BY <3>1, <3>2, <3>3, PriorityRations
    <3> QED
      BY <3>4, Zenon DEF PrioritySplit
  <2> QED
    BY <2>1, <2>2
<1> HIDE DEF U, sinks, first
<1>4. AllOf(first) = Total(first, U) /\ Total(first, U) \in Nat /\ left \in Nat /\ left >= budget - Half(budget)
  <2>1. AllOf(first) = Total(first, U)
    BY <1>3 DEF AllOf
  <2>2. Total(first, U) \in Nat
    <3>1. \A i \in U : first[i] \in Nat
      BY <1>3
    <3> QED
      BY <1>2, <3>1, SumOfSome
  <2> QED
    BY <1>2, <1>3, <2>1, <2>2
<1>5. /\ DOMAIN asks = U /\ asks \in [U -> Nat] /\ sink \in [U -> BOOLEAN]
      /\ \A i \in U : asks[i] = artifact[i] - first[i] /\ asks[i] \in Nat /\ first[i] \in Nat
  <2>1. \A i \in U : artifact[i] - first[i] \in Nat
    BY <1>2, <1>3
  <2> QED
    BY <1>2, <1>3, <2>1 DEF U
<1> HIDE DEF asks, left
<1>6. Rationed(rest, asks, sink, left)
  BY <1>2, <1>4, <1>5, RestRations
<1> HIDE DEF rest
<1>7. /\ rest \in [U -> Nat]
      /\ \A i \in U : rest[i] <= asks[i]
      /\ Total(rest, U) <= left
      /\ (\E i \in U : rest[i] < asks[i]) => left - Total(rest, U) < Excerpt \/ left - Total(rest, U) < Cardinality(U)
      /\ \A i, j \in U : sink[i] = sink[j] /\ asks[i] < asks[j] => rest[i] = asks[i] \/ rest[i] >= rest[j]
      /\ \A i \in U : rest[i] > 0 /\ rest[i] < asks[i] => rest[i] >= MinEqualShare
      /\ left >= 1 /\ left >= MinEqualShare /\ (\E i \in U : asks[i] > 0 /\ ~sink[i]) => \E i \in U : ~sink[i] /\ rest[i] > 0
  BY <1>5, <1>6 DEF Rationed
<1>8. \A i \in U : /\ a[i] = first[i] + rest[i] /\ rest[i] \in Nat /\ a[i] \in Nat
                   /\ a[i] <= artifact[i] /\ (a[i] < artifact[i] <=> rest[i] < asks[i])
                   /\ ~sink[i] => first[i] = 0 /\ asks[i] = artifact[i]
  <2> SUFFICES ASSUME NEW i \in U
               PROVE  /\ a[i] = first[i] + rest[i] /\ rest[i] \in Nat /\ a[i] \in Nat
                      /\ a[i] <= artifact[i] /\ (a[i] < artifact[i] <=> rest[i] < asks[i])
                      /\ ~sink[i] => first[i] = 0 /\ asks[i] = artifact[i]
    OBVIOUS
  <2>1. a[i] = first[i] + rest[i] /\ rest[i] \in Nat /\ first[i] \in Nat /\ artifact[i] \in Nat /\ asks[i] = artifact[i] - first[i]
        /\ rest[i] <= asks[i]
    BY <1>1, <1>2, <1>5, <1>7
  <2>2. ~sink[i] => first[i] = 0
    BY <1>2, <1>3
  <2> QED
    BY <2>1, <2>2
<1>9. a \in [U -> Nat]
  <2>1. \A i \in U : first[i] + rest[i] \in Nat
    BY <1>5, <1>8
  <2> QED
    BY <1>1, <2>1
<1>10. Total(a, U) = Total(first, U) + Total(rest, U) /\ Total(rest, U) \in Nat
  <2>1. \A i \in U : first[i] \in Nat /\ rest[i] \in Nat /\ a[i] = first[i] + rest[i]
    BY <1>5, <1>8
  <2> QED
    BY <1>2, <2>1, SumOfBoth, SumOfSome
<1>11. budget - Total(a, U) = left - Total(rest, U) /\ Total(a, U) <= budget
  BY <1>4, <1>7, <1>10 DEF left
<1>12. (\E i \in U : a[i] < artifact[i]) => budget - Total(a, U) < Excerpt \/ budget - Total(a, U) < Cardinality(U)
  BY <1>7, <1>8, <1>11
<1>13. ASSUME NEW i \in U, NEW j \in U, sink[i] = sink[j], artifact[i] < artifact[j] PROVE a[i] = artifact[i] \/ a[i] >= a[j]
  <2>1. /\ artifact[i] \in Nat /\ artifact[j] \in Nat /\ first[i] \in Nat /\ first[j] \in Nat /\ rest[i] \in Nat /\ rest[j] \in Nat
        /\ asks[i] = artifact[i] - first[i] /\ asks[j] = artifact[j] - first[j] /\ asks[i] \in Nat
        /\ a[i] = first[i] + rest[i] /\ a[j] = first[j] + rest[j] /\ rest[i] <= asks[i] /\ a[i] <= artifact[i] /\ a[i] \in Nat
    BY <1>2, <1>5, <1>7, <1>8
  <2>2. first[i] = artifact[i] \/ first[i] >= first[j] \/ artifact[i] = 0
    <3>1. CASE sink[i]
      <4>1. sink[j]
        BY <1>13, <3>1, Zenon
      <4>2. artifact[j] > 0 /\ (artifact[i] # 0 => artifact[i] > 0)
        BY <1>13, <2>1
      <4>3. j \in sinks /\ (artifact[i] # 0 => i \in sinks)
        BY <1>2, <1>13, <3>1, <4>1, <4>2, Zenon
      <4> QED
        BY <1>3, <1>13, <4>3
    <3>2. CASE ~sink[i]
      <4>1. ~sink[j]
        BY <1>13, <3>2
      <4>2. first[i] = 0 /\ first[j] = 0
        BY <1>8, <3>2, <4>1
      <4> QED
        BY <4>2
    <3> QED
      BY <3>1, <3>2
  <2>3. CASE first[i] = artifact[i] \/ artifact[i] = 0
    BY <2>1, <2>3
  <2>4. CASE first[i] >= first[j]
    <3>1. asks[i] < asks[j]
      BY <1>13, <2>1, <2>4
    <3>2. rest[i] = asks[i] \/ rest[i] >= rest[j]
      BY <1>7, <1>13, <3>1
    <3> QED
      BY <2>1, <2>4, <3>2
  <2> QED
    BY <2>2, <2>3, <2>4
<1>14. ASSUME NEW i \in U, ~sink[i], a[i] > 0, a[i] < artifact[i] PROVE a[i] >= MinEqualShare
  <2>1. first[i] = 0 /\ rest[i] \in Nat /\ a[i] = first[i] + rest[i] /\ rest[i] < asks[i]
    BY <1>8, <1>14
  <2> QED
    BY <1>7, <1>14, <2>1
\* The sinks, and the ends of the run that have no artifact.
<1>15. \/ Total(a, ends) >= Total(Floors(artifact), ends)
       \/ Total(a, ends) >= Half(budget) - Cardinality(ends)
  <2> DEFINE fl == Floors(artifact)
  <2>1. /\ IsFiniteSet(ends) /\ IsFiniteSet(sinks) /\ IsFiniteSet(ends \ sinks) /\ sinks \in SUBSET ends
        /\ Cardinality(sinks) <= Cardinality(ends) /\ Cardinality(sinks) \in Nat /\ Cardinality(ends) \in Nat
        /\ Cardinality(ends \ sinks) \in Nat
    <3>1. IsFiniteSet(ends) /\ sinks \subseteq ends
      BY <1>2, FS_Subset
    <3> QED
      BY <3>1, FS_Subset, FS_CardinalityType
  <2>2. \A i \in ends : fl[i] \in Nat /\ first[i] \in Nat /\ a[i] \in Nat /\ first[i] <= a[i]
    BY <1>2, <1>5, <1>8
  <2>3. \A i \in ends \ sinks : fl[i] = 0 /\ first[i] = 0
    <3> SUFFICES ASSUME NEW i \in ends \ sinks PROVE fl[i] = 0 /\ first[i] = 0
      OBVIOUS
    <3>1. i \in U /\ artifact[i] = 0
      BY <1>2
    <3> QED
      BY <1>2, <1>3, <3>1
  <2> HIDE DEF fl
  <2>4. Total(fl, ends) = Total(fl, sinks)
    <3>1. \A S \in SUBSET ends : Total(fl, ends) = Total(fl, S) + Total(fl, ends \ S)
      BY <2>1, <2>2, SumOfParts
    <3>2. Total(fl, ends \ sinks) = 0 * Cardinality(ends \ sinks)
      BY <2>1, <2>3, SumOfAlike
    <3>3. \A S \in SUBSET ends : Total(fl, S) \in Nat
      BY <2>1, <2>2, SumByOne
    <3>4. Total(fl, ends) = Total(fl, sinks) + Total(fl, ends \ sinks)
      BY <2>1, <3>1, Zenon
    <3>5. Total(fl, ends \ sinks) = 0
      BY <2>1, <3>2
    <3>6. Total(fl, sinks) \in Nat
      BY <2>1, <3>3
    <3> QED
      BY <3>4, <3>5, <3>6
  <2>5. Total(first, sinks) <= Total(a, ends) /\ Total(first, sinks) \in Nat /\ Total(a, ends) \in Nat /\ Total(fl, sinks) \in Nat
    <3>1. \A S \in SUBSET ends : Total(first, S) \in Nat /\ Total(first, S) <= Total(first, ends)
      BY <2>1, <2>2, SumOfSome
    <3>2. Total(first, ends) <= Total(a, ends)
      BY <2>1, <2>2, SumBound
    <3>3. Total(a, ends) \in Nat
      BY <2>1, <2>2, SumOfSome
    <3>4. \A S \in SUBSET ends : Total(fl, S) \in Nat
      BY <2>1, <2>2, SumByOne
    <3>5. Total(first, ends) \in Nat
      BY <3>1
    <3> QED
      BY <2>1, <3>1, <3>2, <3>3, <3>4, <3>5
  <2>6. Total(first, sinks) >= Total(fl, sinks) \/ Total(first, sinks) >= Half(budget) - Cardinality(sinks)
    BY <1>3 DEF fl
  <2>7. Total(a, ends) >= Total(fl, ends) \/ Total(a, ends) >= Half(budget) - Cardinality(ends)
    BY <1>2, <2>1, <2>4, <2>5, <2>6
  <2> QED
    BY <2>7 DEF fl
<1>16. ASSUME budget >= Excerpt, NEW i \in U, ~sink[i], artifact[i] > 0 PROVE \E j \in U : ~sink[j] /\ a[j] > 0
  <2>1. left >= 1 /\ left >= MinEqualShare
    BY <1>2, <1>4, <1>16 DEF Half, MinEqualShare
  <2>2. asks[i] > 0
    BY <1>8, <1>16
  <2>3. PICK j \in U : ~sink[j] /\ rest[j] > 0
    BY <1>7, <1>16, <2>1, <2>2
  <2>4. a[j] > 0
    BY <1>5, <1>8, <2>3
  <2> QED
    BY <2>3, <2>4
<1>17. \A i \in U : a[i] <= artifact[i]
  BY <1>8
<1> QED
  BY <1>9, <1>11, <1>12, <1>13, <1>14, <1>15, <1>16, <1>17 DEF U, SinkFirst

\* The least of three, when it is the last.
LEMMA MinOfThree ==
    ASSUME NEW a \in Int, NEW b \in Int, NEW c \in Int, c <= a, c <= b
    PROVE  Min({a, b, c}) = c
<1>1. \E m \in {a, b, c} : \A y \in {a, b, c} : m <= y
  OBVIOUS
<1>2. Min({a, b, c}) \in {a, b, c} /\ \A y \in {a, b, c} : Min({a, b, c}) <= y
  BY <1>1, Zenon DEF Min
<1> QED
  BY <1>2

\* The tails get no more than half of the material.
LEMMA TailsHaveHalf ==
    ASSUME NEW artifact, IsFiniteSet(DOMAIN artifact), artifact \in [DOMAIN artifact -> Nat], NEW sink
    PROVE  verifyTailBudget(artifact, sink) \in Nat /\ verifyTailBudget(artifact, sink) <= Half(Material)
<1> DEFINE U == DOMAIN artifact
           ends == {i \in U : sink[i]}
           owed == Total(Floors(artifact), ends)
           due == Min({owed, Half(Material)})
<1>1. Material \in Nat
  BY BudgetAssumption
<1>2. Half(Material) \in Nat /\ Half(Material) <= Material /\ Material - Half(Material) >= Half(Material)
  BY <1>1, HalfIs
<1>3. owed \in Nat
  <2>1. \A i \in U : Floors(artifact)[i] \in Nat
    BY FloorsOf
  <2>2. \A S \in SUBSET U : Total(Floors(artifact), S) \in Nat
    BY <2>1, SumOfSome
  <2> QED
    BY <2>2
<1> HIDE DEF owed
<1>4. due \in Nat /\ due <= Half(Material)
  BY <1>2, <1>3, MinOfTwo
<1>5. verifyTailBudget(artifact, sink) = Min({Half(Material), Material - due})
  BY DEF verifyTailBudget, owed
<1> HIDE DEF due
<1>6. Min({Half(Material), Material - due}) = IF Half(Material) <= Material - due THEN Half(Material) ELSE Material - due
  <2>1. Half(Material) \in Int /\ Material - due \in Int
    BY <1>1, <1>2, <1>4
  <2> QED
    BY <2>1, MinOfTwo
<1> QED
  BY <1>1, <1>2, <1>4, <1>5, <1>6

\* What assessMaterial gives the nodes of a cycle.
LEMMA MaterialGiven ==
    ASSUME NEW c \in Cycles, NEW tail, tail = [i \in DOMAIN c |-> c[i].tail],
           NEW artifact, artifact = [i \in DOMAIN c |-> c[i].artifact],
           NEW sink, sink = [i \in DOMAIN c |-> c[i].sink]
    PROVE  /\ DOMAIN assessMaterial(c).tail = DOMAIN c /\ assessMaterial(c).tail \in [DOMAIN c -> Nat]
           /\ \A i \in DOMAIN c : assessMaterial(c).tail[i] <= Min({tail[i], Excerpt})
           /\ Total(assessMaterial(c).tail, DOMAIN c) <= Half(Material)
           /\ \A i, j \in DOMAIN c : c[i].failing /\ ~c[j].failing /\ assessMaterial(c).tail[i] < Min({tail[i], Excerpt})
                                     => assessMaterial(c).tail[j] = 0
           /\ assessMaterial(c).artifact = sinkFirstAllowances(artifact, sink, Material - Total(assessMaterial(c).tail, DOMAIN c))
<1> DEFINE U == DOMAIN c
           failing == [i \in U |-> c[i].failing]
           later == [i \in U |-> ~failing[i]]
           share == verifyTailBudget(artifact, sink)
           asks == Floors(tail)
           allowed == restAllowances(asks, later, share)
           tails == [i \in U |-> writeVerificationBlock(c[i].tail, allowed[i])]
<1>1. /\ IsFiniteSet(U) /\ U \subseteq Nat /\ U = DOMAIN c
      /\ \A i \in U : /\ c[i].artifact \in Nat /\ c[i].tail \in Nat
                      /\ c[i].sink \in BOOLEAN /\ c[i].failing \in BOOLEAN
  BY CycleAssumption
<1>2. /\ artifact \in [U -> Nat] /\ tail \in [U -> Nat] /\ sink \in [U -> BOOLEAN] /\ later \in [U -> BOOLEAN]
      /\ DOMAIN artifact = U /\ DOMAIN tail = U /\ \A i \in U : tail[i] = c[i].tail /\ tail[i] \in Nat
  BY <1>1
<1>3. share \in Nat /\ share <= Half(Material)
  BY <1>1, <1>2, TailsHaveHalf
<1>4. Excerpt \in Nat \ {0} /\ Material \in Nat
  BY BudgetAssumption
<1>5. /\ DOMAIN asks = U /\ asks \in [U -> Nat]
      /\ \A i \in U : /\ asks[i] = Min({tail[i], Excerpt}) /\ asks[i] \in Nat /\ asks[i] <= Excerpt /\ asks[i] <= tail[i]
  <2>1. \A i \in U : asks[i] = Min({tail[i], Excerpt})
    BY <1>2 DEF Floors
  <2>2. \A i \in U : Min({tail[i], Excerpt}) = IF tail[i] <= Excerpt THEN tail[i] ELSE Excerpt
    BY <1>2, <1>4, MinOfTwo
  <2>3. ASSUME NEW i \in U PROVE asks[i] \in Nat /\ asks[i] <= Excerpt /\ asks[i] <= tail[i]
    <3>1. asks[i] = IF tail[i] <= Excerpt THEN tail[i] ELSE Excerpt
      BY <2>1, <2>2
    <3>2. tail[i] \in Nat
      BY <1>2
    <3> HIDE DEF asks
    <3> QED
      BY <3>1, <3>2, <1>4
  <2>4. DOMAIN asks = U
    BY <1>2 DEF Floors
  <2>5. asks = [i \in U |-> asks[i]]
    BY <1>2 DEF Floors
  <2> HIDE DEF asks
  <2> QED
    BY <2>1, <2>3, <2>4, <2>5
<1>6. /\ assessMaterial(c).tail = tails
      /\ assessMaterial(c).artifact = sinkFirstAllowances(artifact, sink, Material - AllOf(tails))
  <2>1. allowed = tailAllowances(tail, failing, share)
    BY <1>2 DEF tailAllowances
  <2> HIDE DEF allowed, share, failing
  <2>2. failing = [i \in DOMAIN c |-> c[i].failing] /\ share = verifyTailBudget(artifact, sink)
    BY DEF failing, share
  <2> QED
    BY <2>1, <2>2, Zenon DEF assessMaterial
<1>u. U = DOMAIN c
  OBVIOUS
<1>7. later = [i \in U |-> ~c[i].failing]
  OBVIOUS
<1> HIDE DEF U, asks, share, later
<1>8. Rationed(allowed, asks, later, share)
  BY <1>1, <1>2, <1>3, <1>5, RestRations
<1> HIDE DEF allowed
<1>9. /\ allowed \in [U -> Nat]
      /\ \A i \in U : allowed[i] <= asks[i]
      /\ Total(allowed, U) <= share
      /\ \A i, j \in U : ~later[i] /\ later[j] /\ asks[i] <= Excerpt /\ allowed[i] < asks[i] => allowed[j] = 0
  BY <1>5, <1>8 DEF Rationed
<1>10. tails \in [U -> Nat] /\ DOMAIN tails = U /\ \A i \in U : tails[i] = allowed[i]
  <2>1. ASSUME NEW i \in U PROVE writeVerificationBlock(c[i].tail, allowed[i]) = allowed[i]
    <3>1. tail[i] = c[i].tail /\ tail[i] \in Nat /\ allowed[i] \in Nat /\ allowed[i] <= Excerpt /\ allowed[i] <= tail[i]
      <4>1. tail[i] = c[i].tail /\ tail[i] \in Nat
        BY <1>2
      <4>2. allowed[i] \in Nat /\ allowed[i] <= asks[i]
        BY <1>9
      <4>3. asks[i] \in Nat /\ asks[i] <= Excerpt /\ asks[i] <= tail[i]
        BY <1>5
      <4> QED
        BY <4>1, <4>2, <4>3, <1>4
    <3> QED
      BY <3>1, <1>4, MinOfThree DEF writeVerificationBlock
  <2> QED
    BY <2>1, <1>9
<1> HIDE DEF tails
<1>11. Total(tails, U) = Total(allowed, U)
  <2>1. \A i \in U : allowed[i] \in Nat /\ tails[i] = allowed[i]
    BY <1>9, <1>10
  <2> QED
    BY <2>1, <1>1, SumSame
<1>12. Total(allowed, U) \in Nat
  <2>1. \A i \in U : allowed[i] \in Nat
    BY <1>9
  <2> QED
    BY <2>1, <1>1, SumOfSome
<1>13. AllOf(tails) = Total(tails, U)
  BY <1>10 DEF AllOf
<1>h. Half(Material) \in Nat
  BY <1>4, HalfIs
<1>14. Total(tails, U) <= Half(Material)
  BY <1>3, <1>9, <1>11, <1>12, <1>h
<1>15. \A i \in U : tails[i] <= Min({tail[i], Excerpt})
  BY <1>5, <1>9, <1>10
<1>16. ASSUME NEW i \in U, NEW j \in U, c[i].failing, ~c[j].failing, tails[i] < Min({tail[i], Excerpt})
       PROVE  tails[j] = 0
  <2>1. ~later[i] /\ later[j]
    BY <1>7, <1>16
  <2>2. asks[i] <= Excerpt /\ allowed[i] < asks[i]
    BY <1>5, <1>10, <1>16
  <2> QED
    BY <2>1, <2>2, <1>9, <1>10
<1> QED
  BY <1>6, <1>10, <1>13, <1>14, <1>15, <1>16, <1>u

\* The assessor's properties, of what it is given.
LEMMA AssessorsShare ==
    ASSUME assessed \in Cycles, NEW gives, gives = assessMaterial(assessed)
    PROVE  Spends(gives) /\ FailingFirst(gives) /\ ShorterFirst(gives) /\ NeverTooThin(gives) /\ BothShown(gives)
<1> DEFINE U == DOMAIN assessed
           tail == [i \in U |-> assessed[i].tail]
           artifact == [i \in U |-> assessed[i].artifact]
           sink == [i \in U |-> assessed[i].sink]
           budget == Material - Total(gives.tail, U)
           ends == {i \in U : sink[i]}
           a == gives.artifact
<1>1. /\ IsFiniteSet(U) /\ U \subseteq Nat /\ U = DOMAIN assessed
      /\ \A i \in U : /\ assessed[i].artifact \in Nat /\ assessed[i].tail \in Nat
                      /\ assessed[i].sink \in BOOLEAN /\ assessed[i].failing \in BOOLEAN
  BY CycleAssumption
<1>2. Excerpt \in Nat \ {0} /\ Material \in Nat /\ 2 * Excerpt <= Material
  BY BudgetAssumption
<1>3. Half(Material) \in Nat /\ Half(Material) <= Material /\ Material - Half(Material) >= Half(Material) /\ Half(Material) >= Excerpt
  BY <1>2, HalfIs
<1>4. /\ DOMAIN gives.tail = U /\ gives.tail \in [U -> Nat]
      /\ \A i \in U : gives.tail[i] <= Min({tail[i], Excerpt})
      /\ Total(gives.tail, U) <= Half(Material)
      /\ \A i, j \in U : assessed[i].failing /\ ~assessed[j].failing /\ gives.tail[i] < Min({tail[i], Excerpt})
                                     => gives.tail[j] = 0
      /\ a = sinkFirstAllowances(artifact, sink, budget)
  BY MaterialGiven, ZenonT(60)
<1>5. /\ \A i \in U : tail[i] = assessed[i].tail /\ artifact[i] = assessed[i].artifact /\ sink[i] = assessed[i].sink
      /\ artifact \in [U -> Nat] /\ sink \in [U -> BOOLEAN] /\ DOMAIN artifact = U
  BY <1>1
<1>6. Total(gives.tail, U) \in Nat
  <2>1. \A i \in U : gives.tail[i] \in Nat
    BY <1>4
  <2> QED
    BY <1>1, <2>1, SumOfSome
<1>7. budget \in Nat /\ budget >= Excerpt
  BY <1>2, <1>3, <1>4, <1>6
<1>d. U = DOMAIN assessed /\ budget = Material - Total(gives.tail, U)
  OBVIOUS
<1>e. ends = {i \in DOMAIN assessed : assessed[i].sink}
  BY <1>5
<1>f. ends = {i \in DOMAIN artifact : sink[i]}
  BY <1>5
<1> HIDE DEF artifact, sink, tail, budget, U, ends
<1>8. /\ a \in [U -> Nat]
      /\ \A i \in U : a[i] <= artifact[i]
      /\ Total(a, U) <= budget
      /\ (\E i \in U : a[i] < artifact[i]) => budget - Total(a, U) < Excerpt \/ budget - Total(a, U) < Cardinality(U)
      /\ \A i, j \in U : sink[i] = sink[j] /\ artifact[i] < artifact[j] => a[i] = artifact[i] \/ a[i] >= a[j]
      /\ \A i \in U : ~sink[i] /\ a[i] > 0 /\ a[i] < artifact[i] => a[i] >= MinEqualShare
      /\ \/ Total(a, ends) >= Total(Floors(artifact), ends)
         \/ Total(a, ends) >= Half(budget) - Cardinality(ends)
      /\ budget >= Excerpt /\ (\E i \in U : ~sink[i] /\ artifact[i] > 0) => \E i \in U : ~sink[i] /\ a[i] > 0
  <2> HIDE DEF a
  <2>1. DOMAIN artifact = U /\ IsFiniteSet(DOMAIN artifact) /\ DOMAIN artifact \subseteq Nat
        /\ artifact \in [DOMAIN artifact -> Nat] /\ sink \in [DOMAIN artifact -> BOOLEAN]
        /\ a = sinkFirstAllowances(artifact, sink, budget)
    BY <1>1, <1>4, <1>5 DEF a
  <2>2. SinkFirst(a, artifact, sink, ends, budget)
    BY <1>7, <1>f, <2>1, ArtifactsRationed
  <2> QED
    BY <2>1, <2>2, Zenon DEF SinkFirst
<1>9. DOMAIN a = U /\ AllOf(a) = Total(a, U) /\ AllOf(gives.tail) = Total(gives.tail, U)
  BY <1>4, <1>8 DEF AllOf
<1>10. Total(a, U) \in Nat /\ Cardinality(U) \in Nat /\ Cardinality(ends) \in Nat /\ Total(a, ends) \in Nat
       /\ Total(Floors(artifact), ends) \in Nat /\ IsFiniteSet(ends) /\ ends \in SUBSET U
  <2>1. ends \in SUBSET U
    BY <1>e, <1>d
  <2>2. \A i \in U : a[i] \in Nat
    BY <1>8
  <2>3. Total(a, U) \in Nat /\ \A S \in SUBSET U : Total(a, S) \in Nat
    BY <1>1, <2>2, SumOfSome
  <2>4. \A i \in U : Floors(artifact)[i] \in Nat
    BY <1>5, FloorsOf
  <2>5. \A S \in SUBSET U : Total(Floors(artifact), S) \in Nat
    BY <1>1, <2>4, SumOfSome
  <2>6. IsFiniteSet(ends)
    BY <1>1, <2>1, FS_Subset
  <2> QED
    BY <1>1, <2>1, <2>3, <2>5, <2>6, FS_CardinalityType
<1>11. Spends(gives)
  <2> DEFINE used == AllOf(gives.tail) + AllOf(a)
             most == Max({Excerpt, Cardinality(U)})
  <2>1. used \in Nat /\ used <= Material /\ Material - used = budget - Total(a, U)
    BY <1>2, <1>6, <1>8, <1>9, <1>10, <1>d
  <2>2. \A i \in U : a[i] <= assessed[i].artifact /\ gives.tail[i] <= Min({assessed[i].tail, Excerpt})
    BY <1>4, <1>5, <1>8
  <2>3. most = IF Excerpt >= Cardinality(U) THEN Excerpt ELSE Cardinality(U)
    BY <1>2, <1>10, MaxOfTwo
  <2> HIDE DEF used, most
  <2>4. ASSUME NEW i \in U, a[i] < assessed[i].artifact PROVE Material - used < most
    <3>1. budget - Total(a, U) < Excerpt \/ budget - Total(a, U) < Cardinality(U)
      BY <1>5, <1>8, <2>4
    <3> QED
      BY <1>2, <1>7, <1>10, <2>1, <2>3, <3>1
  <2> QED
    BY <2>1, <2>2, <2>4, <1>d, Zenon DEF Spends, used, most
<1>12. FailingFirst(gives)
  BY <1>4, <1>5, <1>d DEF FailingFirst
<1>13. ShorterFirst(gives)
  <2> SUFFICES ASSUME NEW i \in U, NEW j \in U, assessed[i].sink = assessed[j].sink, assessed[i].artifact < assessed[j].artifact
               PROVE  a[i] >= Min({assessed[i].artifact, a[j]})
    BY <1>d, Zenon DEF ShorterFirst
  <2>1. sink[i] = sink[j] /\ artifact[i] < artifact[j]
    <3>1. artifact[i] < artifact[j]
      BY <1>5
    <3>2. sink[i] = sink[j]
      BY <1>5, Zenon
    <3> QED
      BY <3>1, <3>2
  <2>2. a[i] = artifact[i] \/ a[i] >= a[j]
    BY <1>8, <2>1, Zenon
  <2>3. a[i] \in Nat /\ a[j] \in Nat /\ artifact[i] \in Nat /\ artifact[i] = assessed[i].artifact
    BY <1>5, <1>8
  <2>4. Min({artifact[i], a[j]}) = IF artifact[i] <= a[j] THEN artifact[i] ELSE a[j]
    BY <2>3, MinOfTwo
  <2> HIDE DEF a
  <2> QED
    BY <2>2, <2>3, <2>4
<1>14. NeverTooThin(gives)
  <2> SUFFICES ASSUME NEW i \in U, ~assessed[i].sink, a[i] \in 1..(assessed[i].artifact - 1)
               PROVE  a[i] >= MinEqualShare
    BY <1>d, Zenon DEF NeverTooThin
  <2>1. ~sink[i]
    BY <1>5, Zenon
  <2>2. artifact[i] \in Nat /\ artifact[i] = assessed[i].artifact
    BY <1>5
  <2>3. a[i] > 0 /\ a[i] < artifact[i]
    BY <2>2
  <2> QED
    BY <1>8, <2>1, <2>3, Zenon
<1>15. BothShown(gives)
  <2> DEFINE owed == [i \in ends |-> Min({assessed[i].artifact, Excerpt})]
             floors == Total(Floors(artifact), ends)
             half == Half(budget) - Cardinality(ends)
             works == {i \in U \ ends : assessed[i].artifact > 0}
  <2>1. Total(owed, ends) = floors
    <3>1. \A i \in ends : Floors(artifact)[i] \in Nat /\ owed[i] = Floors(artifact)[i]
      <4> SUFFICES ASSUME NEW i \in ends PROVE Floors(artifact)[i] \in Nat /\ owed[i] = Floors(artifact)[i]
        OBVIOUS
      <4>1. i \in U
        BY <1>10
      <4>2. Floors(artifact)[i] = Min({artifact[i], Excerpt}) /\ artifact[i] = assessed[i].artifact
        BY <1>5, <4>1 DEF Floors
      <4>3. Floors(artifact)[i] \in Nat
        BY <1>5, <4>1, FloorsOf
      <4> QED
        BY <4>2, <4>3
    <3> HIDE DEF owed
    <3> QED
      BY <1>10, <3>1, SumSame
  <2>2. half \in Int
    <3>1. Half(budget) \in Nat
      BY <1>7, HalfIs
    <3> QED
      BY <3>1, <1>10
  <2>3. Total(a, ends) >= Min({floors, half})
    <3>1. Min({floors, half}) = IF floors <= half THEN floors ELSE half
      BY <1>10, <2>2, MinOfTwo
    <3>2. Total(a, ends) >= floors \/ Total(a, ends) >= half
      BY <1>8
    <3> HIDE DEF half, floors
    <3>3. floors \in Int /\ Total(a, ends) \in Int
      BY <1>10 DEF floors
    <3> QED
      BY <2>2, <3>1, <3>2, <3>3
  <2>4. works # {} => \E i \in works : a[i] > 0
    <3> SUFFICES ASSUME NEW i \in works PROVE \E j \in works : a[j] > 0
      OBVIOUS
    <3>1. i \in U /\ ~sink[i] /\ artifact[i] > 0
      BY <1>5, <1>e, <1>d
    <3>2. PICK j \in U : ~sink[j] /\ a[j] > 0
      BY <1>7, <1>8, <3>1
    <3>3. j \notin ends
      BY <1>5, <1>e, <1>d, <3>2
    <3>4. assessed[j].artifact > 0
      <4>1. a[j] <= artifact[j] /\ artifact[j] = assessed[j].artifact /\ a[j] \in Nat /\ artifact[j] \in Nat
        BY <1>5, <1>8
      <4> QED
        BY <3>2, <4>1
    <3> QED
      BY <3>2, <3>3, <3>4
  <2>5. half = Half(Material - AllOf(gives.tail)) - Cardinality(ends)
    BY <1>9, <1>d
  <2>6. ends = {i \in DOMAIN assessed : assessed[i].sink}
    BY <1>e
  <2> HIDE DEF half, floors
  <2> QED
    BY <2>1, <2>3, <2>4, <2>5, <2>6, <1>d, Zenon DEF BothShown
<1> QED
  BY <1>11, <1>12, <1>13, <1>14, <1>15

\* A list of refusals, as a reply that met any makes one.
Issues == {issues \in Lists : issues # <<>>}

\* FoldLeft's recursion over the positions, the last one first, is well-founded.
SizesFrom(issues, g, s) == IF s = {} THEN 0 ELSE LET x == Max(s) IN g[s \ {x}] + issues[x].size
\* It is, for a list of any length.
LEMMA SizesDefined ==
    ASSUME NEW issues
    PROVE  \A n \in Nat : \E g : g = [s \in SUBSET (1..n) |-> SizesFrom(issues, g, s)]
<1> DEFINE P(n) == \E g : g = [s \in SUBSET (1..n) |-> SizesFrom(issues, g, s)]
           T == {n \in Nat : ~P(n)}
<1>1. P(0)
  <2> DEFINE h == [s \in SUBSET (1..0) |-> 0]
  <2>1. \A s \in SUBSET (1..0) : s = {}
    OBVIOUS
  <2>2. h = [s \in SUBSET (1..0) |-> SizesFrom(issues, h, s)]
    BY <2>1 DEF SizesFrom
  <2> QED
    BY <2>2, Zenon
<1>2. ASSUME NEW n \in Nat, P(n)
      PROVE  P(n + 1)
  <2>1. PICK g : g = [s \in SUBSET (1..n) |-> SizesFrom(issues, g, s)]
    BY <1>2
  <2> DEFINE h == [s \in SUBSET (1..(n + 1)) |-> IF n + 1 \in s THEN g[s \ {n + 1}] + issues[n + 1].size ELSE g[s]]
  <2>2. ASSUME NEW s \in SUBSET (1..(n + 1))
        PROVE  h[s] = SizesFrom(issues, h, s)
    <3>1. CASE n + 1 \in s
      <4>1. Max(s) = n + 1
        <5>1. s \subseteq 0..(n + 1) /\ s # {} /\ n + 1 \in Nat /\ \A y \in s : y \in Nat /\ y <= n + 1
          BY <3>1
        <5>2. Max(s) \in s /\ Max(s) >= n + 1
          BY <3>1, <5>1, MaxOfSome
        <5>3. \A y \in s : y >= n + 1 => y = n + 1
          BY <5>1
        <5> QED
          BY <5>2, <5>3
      <4>2. h[s] = g[s \ {n + 1}] + issues[n + 1].size
        BY <3>1
      <4>3. h[s \ {n + 1}] = g[s \ {n + 1}]
        OBVIOUS
      <4>4. s # {}
        BY <3>1
      <4> HIDE DEF h
      <4> QED
        BY <4>1, <4>2, <4>3, <4>4 DEF SizesFrom
    <3>2. CASE n + 1 \notin s
      <4>1. s \in SUBSET (1..n)
        BY <3>2
      <4>2. h[s] = g[s]
        BY <3>2
      <4>3. g[s] = SizesFrom(issues, g, s)
        BY <2>1, <4>1, Zenon
      <4>4. s # {} => h[s \ {Max(s)}] = g[s \ {Max(s)}]
        BY <3>2
      <4> HIDE DEF h
      <4> QED
        BY <4>2, <4>3, <4>4 DEF SizesFrom
    <3> QED
      BY <3>1, <3>2
  <2>3. h = [s \in SUBSET (1..(n + 1)) |-> h[s]]
    OBVIOUS
  <2> HIDE DEF h
  <2>4. h = [s \in SUBSET (1..(n + 1)) |-> SizesFrom(issues, h, s)]
    BY <2>2, <2>3
  <2> QED
    BY <2>4, Zenon
<1> HIDE DEF P
<1>3. ASSUME T # {}
      PROVE  FALSE
  <2>1. PICK t \in T : \A u \in T : t <= u
    BY <1>3, LeastOfSome
  <2>2. t # 0
    BY <1>1
  <2>3. t - 1 \in Nat /\ t - 1 \notin T
    BY <2>1, <2>2
  <2>4. P(t - 1)
    BY <2>3
  <2>5. P((t - 1) + 1) /\ (t - 1) + 1 = t
    BY <1>2, <2>3, <2>4
  <2> QED
    BY <2>5
<1>4. \A n \in Nat : P(n)
  BY <1>3
<1> QED
  BY <1>4 DEF P

\* A list of refusals has a length: none for none, its own for one.
LEMMA JoinedAdds ==
    ASSUME NEW A, NEW issues \in Seq(A), \A i \in DOMAIN issues : issues[i].size \in Nat
    PROVE  /\ Joined(issues) \in Nat
           /\ Len(issues) = 0 => Joined(issues) = 0
           /\ Len(issues) = 1 => Joined(issues) = issues[1].size
<1> DEFINE c == Len(issues)
           iter == CHOOSE g : g = [s \in SUBSET (1..c) |-> SizesFrom(issues, g, s)]
           T == {n \in 0..c : iter[1..n] \notin Nat}
<1>1. c \in Nat /\ DOMAIN issues = 1..c
  OBVIOUS
<1>2. iter = [s \in SUBSET (1..c) |-> SizesFrom(issues, iter, s)]
  <2>1. \E g : g = [s \in SUBSET (1..c) |-> SizesFrom(issues, g, s)]
    BY <1>1, SizesDefined
  <2> QED
    BY <2>1, Zenon
<1>3. FoldLeft(LAMBDA n, issue : n + issue.size, 0, issues) = iter[1..c]
  BY <1>1, Zenon DEF FoldLeft, MapThenFoldSet, SizesFrom
<1> HIDE DEF iter, c
<1>4. iter[1..0] = 0
  <2>1. 1..0 = {} /\ {} \in SUBSET (1..c)
    OBVIOUS
  <2> QED
    BY <1>2, <2>1 DEF SizesFrom
<1>5. ASSUME NEW n \in 1..c
      PROVE  iter[1..n] = iter[1..(n - 1)] + issues[n].size
  <2>1. 1..n \in SUBSET (1..c) /\ 1..n # {} /\ (1..n) \ {n} = 1..(n - 1) /\ n \in Nat /\ 1..n \subseteq 0..n /\ n \in 1..n
    BY <1>1
  <2>2. Max(1..n) \in 1..n /\ Max(1..n) >= n
    BY <2>1, MaxOfSome
  <2>3. Max(1..n) = n
    BY <2>1, <2>2
  <2>4. iter[1..n] = SizesFrom(issues, iter, 1..n)
    BY <1>2, <2>1, Zenon
  <2> QED
    BY <2>1, <2>3, <2>4, Zenon DEF SizesFrom
<1>6. iter[1..c] \in Nat
  <2>1. CASE T # {}
    <3>1. PICK t \in T : \A u \in T : t <= u
      <4>1. T \subseteq Nat
        BY <1>1
      <4> QED
        BY <2>1, <4>1, LeastOfSome
    <3>2. t # 0
      BY <1>4
    <3>3. t \in 1..c /\ t - 1 \in 0..c /\ t - 1 \notin T
      BY <1>1, <3>1, <3>2
    <3>4. iter[1..(t - 1)] \in Nat
      BY <3>3
    <3>5. issues[t].size \in Nat
      BY <1>1, <3>3
    <3>6. iter[1..t] \in Nat
      BY <1>5, <3>3, <3>4, <3>5
    <3> QED
      BY <3>6
  <2> QED
    BY <2>1, <1>1
<1>7. Joined(issues) = iter[1..c] + (IF issues = <<>> THEN 0 ELSE c - 1)
  BY <1>3, Zenon DEF Joined, c
<1>8. issues = <<>> <=> c = 0
  BY <1>1 DEF c
<1>9. Joined(issues) \in Nat /\ (c = 0 => Joined(issues) = 0)
  BY <1>1, <1>4, <1>6, <1>7, <1>8
<1>10. c = 1 => Joined(issues) = issues[1].size
  <2> SUFFICES ASSUME c = 1 PROVE Joined(issues) = issues[1].size
    OBVIOUS
  <2>1. iter[1..1] = 0 + issues[1].size
    BY <1>4, <1>5
  <2> QED
    BY <2>1, <1>1, <1>7, <1>8
<1> QED
  BY <1>9, <1>10 DEF c

\* The note is always shorter than the limit: what a reply met cannot crowd out every refusal.
LEMMA NoteFits ==
    ASSUME NEW A, NEW dropped \in Seq(A)
    PROVE  omittedRefusalNote(dropped) \in Nat /\ omittedRefusalNote(dropped) < PromptLimit
<1> DEFINE S == {dropped[i].class : i \in DOMAIN dropped}
           c == Cardinality(S)
           m == Min({c, MaxClasses})
<1>1. DOMAIN dropped = 1..Len(dropped) /\ Len(dropped) \in Nat
  OBVIOUS
<1>2. IsFiniteSet(1..Len(dropped))
  BY <1>1, FS_Interval
<1>3. IsFiniteSet(S)
  <2> DEFINE f == [i \in 1..Len(dropped) |-> dropped[i].class]
  <2>1. f \in Surjection(1..Len(dropped), S)
    BY <1>1 DEF Surjection
  <2> QED BY <2>1, <1>2, FS_Surjection
<1>4. c \in Nat
  BY <1>3, FS_CardinalityType
<1>5. {PromptLimit, NoteSize, ClassSize, MaxClasses} \subseteq Nat /\ NoteSize + MaxClasses * ClassSize < PromptLimit
  BY BudgetAssumption
<1> HIDE DEF c
<1>6. m \in Nat /\ m <= MaxClasses
  BY <1>4, <1>5, MinOfTwo
<1> HIDE DEF m
<1>7. ClassSize * m <= MaxClasses * ClassSize /\ ClassSize * m \in Nat
  BY <1>5, <1>6
<1>8. omittedRefusalNote(dropped) = IF dropped = <<>> THEN 0 ELSE NoteSize + ClassSize * m
  BY DEF omittedRefusalNote, m, c
<1> QED
  BY <1>5, <1>7, <1>8

\* What issuesForPrompt makes of any list of refusals.
LEMMA RefusalsHanded ==
    ASSUME NEW issues \in Issues, NEW gives, gives = issuesForPrompt(issues)
    PROVE  /\ gives.whole + (IF gives.cut > 0 THEN 1 ELSE 0) + gives.told = Len(issues)
           /\ gives.whole > 0 \/ gives.cut > 0
           /\ Joined(Leading(issues, gives.whole)) + gives.cut
                  + omittedRefusalNote(Omitted(issues, Len(issues) - gives.told)) <= PromptLimit
           /\ gives.cut > 0 => issues[1].size + omittedRefusalNote(Tail(issues)) > PromptLimit
           /\ gives \in [whole : 0..Len(issues), told : 0..Len(issues), cut : 0..PromptLimit]
<1> DEFINE c == Len(issues)
           S == {n \in 0..c : \A m \in 1..n : Rendering(issues, m) <= PromptLimit}
           kept == Max(S)
           room == PromptLimit - omittedRefusalNote(Tail(issues))
<1> DEFINE A == Range(issues)
<1>1. issues \in Seq(A) /\ c \in Nat \ {0} /\ issues[1].size \in Nat \ {0} /\ issues # <<>>
  BY RefusalAssumption DEF Issues
<1>s. \A i \in 1..c : issues[i].size \in Nat
  BY RefusalAssumption DEF Issues
<1> HIDE DEF A
<1>2. PromptLimit \in Nat \ {0}
  BY BudgetAssumption
<1>3. /\ Leading(issues, c) = issues /\ Omitted(issues, c) = <<>> /\ Leading(issues, 0) = <<>>
      /\ Leading(issues, 1) = <<issues[1]>> /\ Omitted(issues, 1) = Tail(issues)
      /\ Tail(issues) \in Seq(A) /\ (c = 1 => issues = <<issues[1]>>)
  <2>1. Leading(issues, c) = issues
    BY <1>1, SubSeqFull DEF Leading
  <2>2. Omitted(issues, c) = <<>> /\ Leading(issues, 0) = <<>>
    BY <1>1, SubSeqEmpty DEF Omitted, Leading
  <2>3. Leading(issues, 1) = <<issues[1]>>
    <3> DEFINE one == SubSeq(issues, 1, 1)
    <3>1. one \in Seq(A) /\ Len(one) = 1 /\ one[1] = issues[1]
      BY <1>1
    <3>2. Leading(issues, 1) = one
      BY DEF Leading
    <3> HIDE DEF one, c
    <3>3. one = <<one[1]>>
      BY <3>1
    <3> QED
      BY <3>1, <3>2, <3>3
  <2>4. Omitted(issues, 1) = Tail(issues)
    BY <1>1, TailIsSubSeq DEF Omitted
  <2>5. Tail(issues) \in Seq(A)
    BY <1>1
  <2>6. c = 1 => issues = <<issues[1]>>
    BY <2>1, <2>3
  <2> QED
    BY <2>1, <2>2, <2>3, <2>4, <2>5, <2>6
<1>4. omittedRefusalNote(<<>>) = 0
  BY DEF omittedRefusalNote
<1>5. Joined(<<>>) = 0 /\ Joined(<<issues[1]>>) = issues[1].size
  <2>1. <<>> \in Seq(A) /\ <<issues[1]>> \in Seq(A)
    BY <1>1
  <2>2. Len(<<>>) = 0 /\ Len(<<issues[1]>>) = 1 /\ DOMAIN <<>> = {} /\ DOMAIN <<issues[1]>> = {1} /\ <<issues[1]>>[1] = issues[1]
    OBVIOUS
  <2>3. Joined(<<>>) = 0
    BY <2>1, <2>2, JoinedAdds
  <2>4. Joined(<<issues[1]>>) = issues[1].size
    BY <2>1, <2>2, <1>1, JoinedAdds
  <2> QED
    BY <2>3, <2>4
\* Whatever is kept has a length.
<1>j. \A n \in 0..c : Joined(Leading(issues, n)) \in Nat /\ omittedRefusalNote(Omitted(issues, n)) \in Nat
  <2> SUFFICES ASSUME NEW n \in 0..c
               PROVE  Joined(Leading(issues, n)) \in Nat /\ omittedRefusalNote(Omitted(issues, n)) \in Nat
    OBVIOUS
  <2>1. Leading(issues, n) \in Seq(A) /\ \A i \in DOMAIN Leading(issues, n) : Leading(issues, n)[i].size \in Nat
    <3>1. SubSeq(issues, 1, n) \in Seq(A) /\ Len(SubSeq(issues, 1, n)) = n /\ \A i \in 1..n : SubSeq(issues, 1, n)[i] = issues[i]
      BY <1>1
    <3> QED
      BY <3>1, <1>1, <1>s DEF Leading
  <2>2. Omitted(issues, n) \in Seq(A)
    BY <1>1 DEF Omitted
  <2> QED
    BY <2>1, <2>2, JoinedAdds, NoteFits
<1>6. room \in Nat \ {0} /\ omittedRefusalNote(Tail(issues)) \in Nat
  <2>2. omittedRefusalNote(Tail(issues)) \in Nat /\ omittedRefusalNote(Tail(issues)) < PromptLimit
    BY <1>3, NoteFits
  <2> QED
    BY <1>2, <2>2
<1>7. kept \in S /\ \A n \in S : kept >= n
  <2>1. 0 \in S
    BY <1>1
  <2> QED
    BY <1>1, <2>1, MaxOfSome
<1>8. kept \in 0..c /\ (kept > 0 => Rendering(issues, kept) <= PromptLimit)
  BY <1>7, <1>1
\* If none is kept, not even the first fits beside its note.
<1>9. kept = 0 => issues[1].size + omittedRefusalNote(Tail(issues)) > PromptLimit
  <2>1. Rendering(issues, 1) = issues[1].size + omittedRefusalNote(Tail(issues))
    BY <1>3, <1>5 DEF Rendering
  <2>2. CASE Rendering(issues, 1) <= PromptLimit
    <3>1. 1 \in S
      BY <2>2, <1>1
    <3> HIDE DEF S
    <3> QED
      BY <3>1, <1>7, <1>8
  <2> QED
    BY <2>1, <2>2, <1>1, <1>2, <1>6
<1> HIDE DEF c, kept, S, room
<1>10. issuesForPrompt(issues) =
         IF Joined(issues) <= PromptLimit THEN [whole |-> c, cut |-> 0, told |-> 0]
         ELSE IF kept > 0 THEN [whole |-> kept, cut |-> 0, told |-> c - kept]
         ELSE IF c > 1 /\ room > 0
         THEN [whole |-> 0, cut |-> Min({issues[1].size, room}), told |-> c - 1]
         ELSE [whole |-> 0, cut |-> PromptLimit, told |-> 0]
  BY DEF issuesForPrompt, c, kept, S, room
<1>c. c = Len(issues) /\ room = PromptLimit - omittedRefusalNote(Tail(issues))
  BY DEF c, room
<1>11. CASE Joined(issues) <= PromptLimit
  <2>1. gives.whole = c /\ gives.cut = 0 /\ gives.told = 0
    BY <1>10, <1>11
  <2>2. Joined(Leading(issues, gives.whole)) = Joined(issues) /\ omittedRefusalNote(Omitted(issues, c - 0)) = 0
    BY <2>1, <1>1, <1>3, <1>4
  <2>3. gives = [whole |-> c, cut |-> 0, told |-> 0]
    BY <1>10, <1>11
  <2>4. gives \in [whole : 0..c, told : 0..c, cut : 0..PromptLimit]
    BY <2>3, <1>1, <1>2
  <2> QED
    BY <2>1, <2>2, <2>4, <1>1, <1>3, <1>j, <1>c, <1>11
<1>12. CASE ~(Joined(issues) <= PromptLimit) /\ kept > 0
  <2>1. gives.whole = kept /\ gives.cut = 0 /\ gives.told = c - kept
    BY <1>10, <1>12
  <2>2. c - (c - kept) = kept
    BY <1>1, <1>8
  <2>3. Joined(Leading(issues, kept)) + omittedRefusalNote(Omitted(issues, kept)) <= PromptLimit
    BY <1>8, <1>12 DEF Rendering
  <2>4. gives = [whole |-> kept, cut |-> 0, told |-> c - kept]
    BY <1>10, <1>12
  <2>5. gives \in [whole : 0..c, told : 0..c, cut : 0..PromptLimit]
    BY <2>4, <1>1, <1>2, <1>8
  <2> QED
    BY <2>1, <2>2, <2>3, <2>5, <1>1, <1>2, <1>8, <1>j, <1>c, <1>12
<1>13. CASE ~(Joined(issues) <= PromptLimit) /\ kept = 0 /\ c > 1
  <2> DEFINE cut == Min({issues[1].size, room})
  <2>1. gives.whole = 0 /\ gives.cut = cut /\ gives.told = c - 1
    BY <1>6, <1>10, <1>13
  <2>2. cut \in Nat \ {0} /\ cut <= room
    BY <1>1, <1>6, MinOfTwo
  <2> HIDE DEF cut
  <2>3. c - (c - 1) = 1 /\ 0 + 1 + (c - 1) = c
    BY <1>1
  <2>4. Joined(Leading(issues, 0)) + cut + omittedRefusalNote(Omitted(issues, 1)) <= PromptLimit
    <3>1. Joined(Leading(issues, 0)) = 0 /\ omittedRefusalNote(Omitted(issues, 1)) = omittedRefusalNote(Tail(issues))
      BY <1>3, <1>5
    <3>2. 0 + cut + omittedRefusalNote(Tail(issues)) <= PromptLimit
      BY <2>2, <1>2, <1>6, <1>c
    <3> QED
      BY <3>1, <3>2
  <2>5. gives.cut > 0
    BY <2>1, <2>2
  <2>6. gives = [whole |-> 0, cut |-> cut, told |-> c - 1]
    BY <1>6, <1>10, <1>13 DEF cut
  <2>7. gives \in [whole : 0..c, told : 0..c, cut : 0..PromptLimit]
    BY <2>2, <2>6, <1>1, <1>2, <1>6, <1>c
  <2> QED
    BY <2>1, <2>3, <2>4, <2>5, <2>7, <1>9, <1>c, <1>13
<1>14. CASE ~(Joined(issues) <= PromptLimit) /\ kept = 0 /\ c = 1
  <2>1. gives.whole = 0 /\ gives.cut = PromptLimit /\ gives.told = 0
    BY <1>10, <1>14
  <2>2. omittedRefusalNote(Omitted(issues, c - 0)) = 0
    BY <1>1, <1>3, <1>4
  <2>3. gives = [whole |-> 0, cut |-> PromptLimit, told |-> 0]
    BY <1>10, <1>14
  <2>4. gives \in [whole : 0..c, told : 0..c, cut : 0..PromptLimit]
    BY <2>3, <1>1, <1>2
  <2> QED
    BY <2>1, <2>2, <2>4, <1>1, <1>2, <1>3, <1>5, <1>9, <1>c, <1>14
<1> QED
  BY <1>1, <1>8, <1>11, <1>12, <1>13, <1>14


\* What was asked, of what.
PromptInv ==
    /\ shown.asked = "nobody" => shown = NotShown
    /\ shown.asked = "assessor" => assessed \in Cycles /\ shown.gives = assessMaterial(assessed)
    /\ shown.asked = "planner" => refusals \in Issues /\ shown.gives = issuesForPrompt(refusals)
    /\ shown.asked \in {"nobody", "assessor", "planner"}
    /\ assessed = <<>> \/ assessed \in Cycles
    /\ refusals = <<>> \/ refusals \in Lists

\* Always: each of the two calls is shown what its rules give.
LEMMA PromptsMade == BudgetsSpec => []PromptInv
<1>1. BudgetsInit => PromptInv
  BY DEF BudgetsInit, PromptInv, NotShown
<1>2. PromptInv /\ [BudgetsNext]_budgetVars => PromptInv'
  <2> SUFFICES ASSUME PromptInv, [BudgetsNext]_budgetVars PROVE PromptInv'
    OBVIOUS
  <2>1. CASE AskAssessor
    <3>1. assessed # <<>>
      BY <2>1 DEF AskAssessor
    <3> QED
      BY <2>1, <3>1 DEF AskAssessor, PromptInv
  <2>2. CASE AskPlannerAgain
    BY <2>2 DEF AskPlannerAgain, PromptInv, Issues
  <2>3. CASE UNCHANGED budgetVars
    BY <2>3 DEF PromptInv, budgetVars
  <2> QED
    BY <2>1, <2>2, <2>3 DEF BudgetsNext
<1> QED
  BY <1>1, <1>2, PTL DEF BudgetsSpec

\* What the assessor is given, node by node, fits its material.
LEMMA AssessorsTypes ==
    ASSUME assessed \in Cycles, NEW gives, gives = assessMaterial(assessed)
    PROVE  gives \in [tail : [DOMAIN assessed -> 0..Material], artifact : [DOMAIN assessed -> 0..Material]]
<1> DEFINE U == DOMAIN assessed
           artifact == [i \in U |-> assessed[i].artifact]
           sink == [i \in U |-> assessed[i].sink]
           budget == Material - Total(gives.tail, U)
           a == gives.artifact
<1>1. /\ IsFiniteSet(U) /\ U \subseteq Nat /\ Material \in Nat
      /\ \A i \in U : assessed[i].artifact \in Nat /\ assessed[i].sink \in BOOLEAN
  BY CycleAssumption, BudgetAssumption
<1>2. /\ gives.tail \in [U -> Nat] /\ Total(gives.tail, U) <= Half(Material)
      /\ a = sinkFirstAllowances(artifact, sink, budget)
  BY MaterialGiven, Zenon
<1>3. Total(gives.tail, U) \in Nat /\ \A i \in U : gives.tail[i] \in Nat /\ gives.tail[i] <= Total(gives.tail, U)
  <2>1. \A i \in U : gives.tail[i] \in Nat
    BY <1>2
  <2> QED
    BY <1>1, <2>1, SumOfSome
<1>4. Half(Material) \in Nat /\ Half(Material) <= Material
  BY <1>1, HalfIs
<1>5. budget \in Nat /\ budget <= Material
  BY <1>1, <1>2, <1>3, <1>4
<1>6. artifact \in [U -> Nat] /\ sink \in [U -> BOOLEAN] /\ DOMAIN artifact = U
  BY <1>1
<1> HIDE DEF artifact, sink, budget, U, a
<1>7. a \in [U -> Nat] /\ Total(a, U) <= budget
  <2>1. DOMAIN artifact = U /\ IsFiniteSet(DOMAIN artifact) /\ DOMAIN artifact \subseteq Nat
        /\ artifact \in [DOMAIN artifact -> Nat] /\ sink \in [DOMAIN artifact -> BOOLEAN]
    BY <1>1, <1>6
  <2>2. \A ends : ends = {i \in DOMAIN artifact : sink[i]} => SinkFirst(a, artifact, sink, ends, budget)
    BY <1>2, <1>5, <2>1, ArtifactsRationed
  <2>3. SinkFirst(a, artifact, sink, {i \in DOMAIN artifact : sink[i]}, budget)
    BY <2>2
  <2> QED
    BY <2>1, <2>3 DEF SinkFirst
<1>8. Total(a, U) \in Nat /\ \A i \in U : a[i] \in Nat /\ a[i] <= Total(a, U)
  <2>1. \A i \in U : a[i] \in Nat
    BY <1>7
  <2> QED
    BY <1>1, <2>1, SumOfSome
<1>9. a \in [U -> 0..Material]
  <2>1. \A i \in U : a[i] \in 0..Material
    BY <1>1, <1>5, <1>7, <1>8
  <2> QED
    BY <1>7, <2>1
<1>10. gives.tail \in [U -> 0..Material]
  <2>1. \A i \in U : gives.tail[i] \in 0..Material
    BY <1>1, <1>2, <1>3, <1>4
  <2> QED
    BY <1>2, <2>1
<1>11. gives = [tail |-> gives.tail, artifact |-> a]
  BY DEF assessMaterial, a
<1>12. gives \in [tail : [U -> 0..Material], artifact : [U -> 0..Material]]
  <2> HIDE DEF a
  <2> DEFINE t == gives.tail
             M == 0..Material
  <2>1. gives = [tail |-> t, artifact |-> a] /\ t \in [U -> M] /\ a \in [U -> M]
    BY <1>9, <1>10, <1>11
  <2> HIDE DEF t, M
  <2>2. gives \in [tail : [U -> M], artifact : [U -> M]]
    BY <2>1
  <2> QED
    BY <2>2 DEF M
<1> QED
  BY <1>12 DEF U

\* No call is ever shown more than its prompt holds, whatever the cycle's nodes wrote and
\* whatever a reply met (assessMaterial, issuesForPrompt).
THEOREM BudgetsTypes == BudgetsSpec => []BudgetsTypeOK
<1>1. PromptInv => BudgetsTypeOK
  <2> SUFFICES ASSUME PromptInv PROVE BudgetsTypeOK
    OBVIOUS
  <2>1. CASE shown.asked = "nobody"
    BY <2>1 DEF PromptInv, BudgetsTypeOK
  <2>2. CASE shown.asked = "assessor"
    <3>1. shown.gives \in [tail : [DOMAIN assessed -> 0..Material], artifact : [DOMAIN assessed -> 0..Material]]
      BY <2>2, AssessorsTypes DEF PromptInv
    <3> QED
      BY <2>2, <3>1 DEF BudgetsTypeOK
  <2>3. CASE shown.asked = "planner"
    <3>1. shown.gives \in [whole : 0..Len(refusals), told : 0..Len(refusals), cut : 0..PromptLimit]
      BY <2>3, RefusalsHanded DEF PromptInv
    <3> QED
      BY <2>3, <3>1 DEF BudgetsTypeOK
  <2> QED
    BY <2>1, <2>2, <2>3 DEF PromptInv
<1> QED
  BY <1>1, PromptsMade, PTL

\* However many nodes and refusals, however long: the assessor's prompt stays within its
\* material and leaves none of it while something was cut, a failing check's output goes
\* before a passing one's, short artifacts before long, nothing is too thin to be evidence,
\* and the sinks and the others' work both show; the planner's prompt quotes, cuts or
\* counts each refusal, never only counts the first, stays within the bound, and cuts only
\* what fits nowhere (assessMaterial, issuesForPrompt, omittedRefusalNote).
THEOREM PromptsAreFair == BudgetsSpec => []PromptsFair
<1>1. PromptInv => PromptsFair
  <2> SUFFICES ASSUME PromptInv PROVE PromptsFair
    OBVIOUS
  <2>1. ASSUME shown.asked = "assessor"
        PROVE  /\ Spends(shown.gives) /\ FailingFirst(shown.gives) /\ ShorterFirst(shown.gives)
               /\ NeverTooThin(shown.gives) /\ BothShown(shown.gives)
    <3>1. assessed \in Cycles /\ shown.gives = assessMaterial(assessed)
      BY <2>1 DEF PromptInv
    <3> QED
      BY <3>1, AssessorsShare
  <2>2. ASSUME shown.asked = "planner" PROVE RefusalsTold(shown.gives)
    <3>1. refusals \in Issues /\ shown.gives = issuesForPrompt(refusals)
      BY <2>2 DEF PromptInv
    <3> QED
      BY <3>1, RefusalsHanded DEF RefusalsTold
  <2> QED
    BY <2>1, <2>2 DEF PromptsFair
<1> QED
  BY <1>1, PromptsMade, PTL
=============================================================================
