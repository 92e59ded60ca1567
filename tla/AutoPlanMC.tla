------------------------------ MODULE AutoPlanMC ------------------------------
(* Plans of two nodes: a change and its review, one after the other or side by *)
(* side, the review named like the user's agent; a plan that cites a shape;    *)
(* and replies to refuse, for the second of which the planner is asked again.  *)
EXTENDS AutoPlan

WriteTools == {"Read", "Bash"}
ReadTools == {"Read"}

Declares(needs, tools, check, matches) ==
    [needs |-> needs, tools |-> tools, check |-> check, quotes |-> needs, matches |-> matches,
     cites |-> "none", fields |-> {}]

Pair(needs, check) ==
    [n \in {"change", "review"} |->
        IF n = "change" THEN Declares({}, WriteTools, {}, 0) ELSE Declares(needs, ReadTools, check, 1)]
Citing == [Pair({"change"}, {}) EXCEPT !["change"].cites = "offered", !["change"].tools = {},
                                      !["review"].matches = 2]
Saying(fields) == [Pair({}, {}) EXCEPT !["review"].fields = fields]
Overreaching == [Pair({}, {}) EXCEPT !["review"].tools = WriteTools \cup {"WebFetch"}]
Overlaid == [Citing EXCEPT !["change"].fields = {"prompt"}]
Stranded == [Pair({}, {}) EXCEPT !["review"].quotes = {"change"}]

PlannerReply(form, nodes) == [form |-> form, nodes |-> nodes]
PlannerReplies == {PlannerReply("graph", Pair({"change"}, {})), PlannerReply("graph", Pair({}, {"result_matches"})),
                   PlannerReply("graph", Citing), PlannerReply("graph", Stranded),
                   PlannerReply("graph", Overreaching), PlannerReply("graph", Overlaid),
                   PlannerReply("garbled", <<>>), PlannerReply("fragment", <<>>)}
                  \cup {PlannerReply("graph", Saying({field})) : field \in {"gate", "verify", "feedback"}}

Wish(verify, agents, skills, loaded) ==
    [verify |-> verify, agents |-> agents, skills |-> skills, loaded |-> loaded]
Plain == Wish(FALSE, TRUE, FALSE, TRUE)
CommandLines == {Wish(TRUE, TRUE, TRUE, FALSE), Plain}

\* The agent's file asks for no more than the review has, until it is edited.
AgentFile == [c \in 0..1 |-> IF c = 0 THEN ReadTools ELSE WriteTools]
=============================================================================
