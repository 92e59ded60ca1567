----------------------------- MODULE RunResumeMC -----------------------------
(***************************************************************************)
(* Small graphs for runs of several legs.                                  *)
(***************************************************************************)
EXTENDS RunResume

CONSTANTS design, review, docs, build, code, judge

NoRetryMax == [n \in Node |-> 0]
NoRetryOn == [n \in Node |-> {}]
NoRerun == [d \in {} |-> Nobody]
NoMax == [d \in {} |-> 1]

\* A gate between a design and a build that also waits for docs.
ApprovalNode == {design, review, docs, build}
ApprovalParents == [n \in ApprovalNode |->
    CASE n = review -> {design} [] n = build -> {review, docs} [] OTHER -> {}]

\* A loop, code -> judge, with an independent branch that may pause the leg;
\* build waits for the loop and the gate review.
LoopNode == {code, judge, review, build}
LoopParents == [n \in LoopNode |->
    CASE n = judge -> {code} [] n = build -> {judge, review} [] OTHER -> {}]
LoopRerun == [d \in {judge} |-> code]
LoopMax == [d \in {judge} |-> 1]
=============================================================================
