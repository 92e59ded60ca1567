----------------------------- MODULE SchedulerMC -----------------------------
(***************************************************************************)
(* Small graphs for TLC.  "approval": two gates that join in a build.      *)
(* "loop": a reviewed body with two parallel workers, one of them fed from *)
(* outside it, left by a release.  "siblings": independent branches, which *)
(* race to halt the leg.                                                   *)
(***************************************************************************)
EXTENDS Scheduler

CONSTANTS design, review, docs, signoff, build,
          plan, code, tests, judge, release

NoRetryMax == [n \in Node |-> 0]
NoRetryOn == [n \in Node |-> {}]
JudgeRetryMax == [n \in Node |-> IF n = judge THEN 1 ELSE 0]
JudgeRetryOn == [n \in Node |-> IF n = judge THEN {"verify_failed"} ELSE {}]
NoRerun == [d \in {} |-> Nobody]
NoMax == [d \in {} |-> 1]

\* approval: a gate behind a design and a gate without parents.
ApprovalNode == {design, review, docs, signoff, build}
ApprovalParents == [n \in ApprovalNode |->
    CASE n = review -> {design}
      [] n = build -> {review, docs, signoff} [] OTHER -> {}]
ApprovalRetryMax == [n \in ApprovalNode |-> IF n = design THEN 1 ELSE 0]
ApprovalRetryOn == [n \in ApprovalNode |->
    IF n = design THEN {"timeout", "verify_failed", "run_error"} ELSE {}]

\* The leg a `resume --reject` opens on a run that paused at a gate without
\* parents while the session limit stopped the other roots: it carries the
\* rejection and no record.
RejectedAtRoot(g) ==
    /\ NothingDone
    /\ Parents[g] = {}
    /\ controller = [AutoApprove({}) EXCEPT ![g] = "reject"]
    /\ decisions = [h \in Gates |-> IF h = g THEN "reject" ELSE "none"]
FreshOrRejected == Init \/ \E g \in Gates : RejectedAtRoot(g)
ApprovalSpec == FreshOrRejected /\ [][Next]_vars

\* loop: plan -> code, tests -> judge -> release, judge re-running plan;
\* code also waits for docs, which stays outside the body.
LoopNode == {plan, docs, code, tests, judge, release}
LoopParents == [n \in LoopNode |->
    CASE n = code -> {plan, docs} [] n = tests -> {plan} [] n = judge -> {code, tests}
      [] n = release -> {judge} [] OTHER -> {}]
LoopRerun == [d \in {judge} |-> plan]
LoopMax == [d \in {judge} |-> 2]

\* siblings: a loop code -> judge beside a branch design -> build and docs.
SiblingNode == {design, docs, code, judge, build}
SiblingParents == [n \in SiblingNode |->
    CASE n = build -> {design} [] n = judge -> {code} [] OTHER -> {}]
SiblingRerun == [d \in {judge} |-> code]
SiblingMax == [d \in {judge} |-> 1]
=============================================================================
