------------------------------- MODULE DagRun -------------------------------
(***************************************************************************)
(* What a leg of a run promises, without goroutines, slots or records: a   *)
(* node runs only on parents that passed, a verdict is final unless its    *)
(* feedback loop is re-opened, a loop re-opens at most max times, and the  *)
(* leg is called passed only when every node passed, and paused only when  *)
(* something is left that a later leg can run.                             *)
(***************************************************************************)
EXTENDS Naturals

CONSTANTS Node, Parents, Declarers, Body, FeedbackMax

VARIABLES status, rounds, result

Status == {"pending", "running", "passed", "failed"}
Ready(n) == status[n] = "pending" /\ \A p \in Parents[n] : status[p] = "passed"

Init ==
    /\ status = [n \in Node |-> "pending"]
    /\ rounds = [n \in Node |-> 0]
    /\ result = "open"

Begin(n) ==
    /\ Ready(n)
    /\ status' = [status EXCEPT ![n] = "running"]
    /\ UNCHANGED <<rounds, result>>

\* "pending" again: the node was put off by a gate or by a session limit.
Settle(n, verdict) ==
    /\ status[n] = "running"
    /\ verdict \in {"passed", "failed", "pending"}
    /\ status' = [status EXCEPT ![n] = verdict]
    /\ UNCHANGED <<rounds, result>>

\* A running declarer sends its settled body round again; when the loop
\* cannot be carried on, the declarer itself ends the round failed.
Reopen(d, verdict) ==
    /\ status[d] = "running"
    /\ \A n \in Body[d] \ {d} : status[n] = "passed"
    /\ rounds[d] < FeedbackMax[d]
    /\ verdict \in {"pending", "failed"}
    /\ status' = [n \in Node |-> IF n = d THEN verdict
                                 ELSE IF n \in Body[d] THEN "pending" ELSE status[n]]
    /\ rounds' = [n \in Node |-> IF n \in Body[d] THEN rounds[d] + 1 ELSE rounds[n]]
    /\ UNCHANGED result

Conclude(how) ==
    /\ result = "open"
    /\ \A n \in Node : status[n] # "running"
    /\ how = "passed" => \A n \in Node : status[n] = "passed"
    /\ how = "paused" => \E n \in Node : Ready(n)
    /\ result' = how
    /\ UNCHANGED <<status, rounds>>

Next ==
    \/ \E n \in Node : Begin(n)
    \/ \E n \in Node, verdict \in Status : Settle(n, verdict)
    \/ \E d \in Declarers, verdict \in Status : Reopen(d, verdict)
    \/ \E how \in {"passed", "paused", "failed"} : Conclude(how)

Spec == Init /\ [][Next]_<<status, rounds, result>>
=============================================================================
