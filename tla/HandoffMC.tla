------------------------------- MODULE HandoffMC -------------------------------
(* A draft that a judge sends back over a feedback arc, the judge resuming the *)
(* draft's session, and a publication outside the loop.                        *)
EXTENDS Handoff

Nodes == {"draft", "judge", "publish"}
LoopNodes == {"draft", "judge"}
SessionNodes == {"judge"}
Edges == [n \in Nodes |-> CASE n = "draft" -> {} [] n = "judge" -> {"draft"}
                            [] n = "publish" -> {"judge"}]
=============================================================================
