---------------------------- MODULE FeedbackReach ----------------------------
(***************************************************************************)
(* What `lint` advises about the feedback arcs of a graph that loads, and    *)
(* what auto mode refuses a plan for: an arc that cannot reach a producer    *)
(* its declarer judges, a payload nobody in the loop reads, an output that   *)
(* is quoted before it exists.  Each refusal names a correction, and the     *)
(* planner gets one more call to make it.  A target or a suggestion that is  *)
(* absent is NoId.                                                           *)
(***************************************************************************)
EXTENDS GraphLoad
LOCAL INSTANCE Relation

NodeOf(nodes, id) == CHOOSE d \in Range(nodes) : d.id = id

\* withRerun: the graph with one arc aimed elsewhere.
withRerun(nodes, declarer, target) ==
    [i \in DOMAIN nodes |-> IF nodes[i].id = declarer THEN [nodes[i] EXCEPT !.rerun = target] ELSE nodes[i]]

\* The producers an arc cannot reach.  A parent upstream of the target feeds the
\* loop, and a gate can be in none.
Unreachable(nodes, d) ==
    {p \in d.parents : /\ p \notin FeedbackBody(nodes, d) \cup ancestorSet(nodes, d.rerun)
                       /\ NodeOf(nodes, p).kind # "gate"}

Covers(nodes, d, target) ==
    Unreachable(nodes, d) \cup {d.rerun} \subseteq betweenSet(nodes, target, d.id)

CoveringAny(nodes, d) == {t \in ancestorSet(nodes, d.id) : Covers(nodes, d, t)}
Covering(nodes, d) ==
    {t \in ancestorSet(nodes, d.id) :
        /\ Covers(nodes, d, t)
        /\ validateFeedback(withRerun(nodes, d.id, t))
        /\ validateFeedbackPlaceholders(withRerun(nodes, d.id, t))}

declarationIndex(nodes, id) == CHOOSE i \in DOMAIN nodes : nodes[i].id = id

\* The smallest body, then the node declared first.
coveringFeedbackTarget(nodes, d) ==
    LET Size(t) == Cardinality(betweenSet(nodes, t, d.id))
        Prefer(t, u) == \/ Size(t) < Size(u)
                        \/ Size(t) = Size(u) /\ declarationIndex(nodes, t) <= declarationIndex(nodes, u)
    IN IF Covering(nodes, d) = {} THEN NoId
       ELSE CHOOSE t \in Covering(nodes, d) : \A u \in Covering(nodes, d) : Prefer(t, u)

LintFeedbackReach(nodes) ==
    {[declarer |-> d, producers |-> Unreachable(nodes, d), suggestion |-> coveringFeedbackTarget(nodes, d)] :
        d \in {e \in Arcs(nodes) : Unreachable(nodes, e) # {}}}

\* The judge reading its own payload repairs nothing.
FeedbackQuoteFindings(nodes) ==
    {d \in Arcs(nodes) : ~\E e \in Range(nodes) :
        e.id \in FeedbackBody(nodes, d) \ {d.id} /\ Feedback(d.id) \in e.prompt.tokens}

ImpossibleArtifactFindings(nodes) ==
    {d \in Range(nodes) : \E t \in d.prompt.tokens :
        t.kind = "artifacts" /\ t.ref \notin ancestorSet(nodes, d.id)}

\* The graph-level refusals of validatePlannedNodes.  An arc that no legal target
\* corrects stands: the planner could not mend it.
validatePlannedFeedbackReach(nodes) == {f \in LintFeedbackReach(nodes) : f.suggestion # NoId}
PlanRefused(nodes) ==
    \/ validatePlannedFeedbackReach(nodes) # {}
    \/ FeedbackQuoteFindings(nodes) # {}
    \/ ImpossibleArtifactFindings(nodes) # {}

----------------------------------------------------------------------------
(* The corrections the refusals name. *)

Edit(nodes, d) == [i \in DOMAIN nodes |-> IF nodes[i].id = d.id THEN d ELSE nodes[i]]
DependOn(nodes, id, producers) == Edit(nodes, [NodeOf(nodes, id) EXCEPT !.parents = @ \cup producers])
PasteToken(nodes, id, token) == Edit(nodes, [NodeOf(nodes, id) EXCEPT !.prompt.tokens = @ \cup {token}])

Finding(nodes, id) == {f \in LintFeedbackReach(nodes) : f.declarer.id = id}
Blind(nodes, id) == \E d \in FeedbackQuoteFindings(nodes) : d.id = id

\* The nodes one can get to from another, by following the edges.
Leads(nodes) ==
    TransitiveClosure([e \in Ids(nodes) \X Ids(nodes) |-> e[1] \in NodeOf(nodes, e[2]).parents], Ids(nodes))

\* The advice can be followed (feedback_reach.go: "the finding arrives with the
\* edit that fixes it").  A finding names exactly the producers a round neither
\* runs again nor builds on.  Aiming the arc as suggested, or having the target
\* depend on them instead, leaves a graph that loads and in which none of them
\* is out of reach, also when the same arc's payload is pasted where its own
\* refusal says; and no smaller loop would have done.  A parent that fed the old
\* loop may be out of the new one's reach: a reply corrected as told can be
\* refused again.  And in a plan that is not refused every output is quoted
\* where a path from its node leads, and every payload is read by who has to act
\* on it.
AdviceHolds ==
    loaded.ok => LET g == loaded.nodes IN
        /\ ~PlanRefused(g) =>
              /\ \A d \in Range(g) : \A t \in d.prompt.tokens : t.kind = "artifacts" => Leads(g)[t.ref, d.id]
              /\ \A d \in Arcs(g) : \E e \in Range(g) :
                    /\ Feedback(d.id) \in e.prompt.tokens /\ Leads(g)[e.id, d.id]
                    /\ e.id = d.rerun \/ Leads(g)[d.rerun, e.id]
        /\ \A d \in Arcs(g) : \A p \in d.parents :
              LET t == d.rerun IN
              NodeOf(g, p).kind # "gate" =>
                 (p \in Unreachable(g, d)
                    <=> p # t /\ ~Leads(g)[t, p] /\ ~Leads(g)[p, t])
        /\ \A f \in LintFeedbackReach(g) :
              LET id == f.declarer.id
                  aimed == withRerun(g, id, f.suggestion)
                  built == DependOn(g, f.declarer.rerun, f.producers)
                  Read(h) == IF Blind(g, id) THEN PasteToken(h, f.declarer.rerun, Feedback(id)) ELSE h
              IN /\ Valid(Read(built)) /\ ~Blind(Read(built), id)
                 /\ \A r \in Finding(built, id) : r.producers \cap f.producers = {}
                 /\ f.suggestion # NoId =>
                       /\ Valid(Read(aimed)) /\ ~Blind(Read(aimed), id)
                       /\ f.producers \subseteq FeedbackBody(aimed, NodeOf(aimed, id))
                       /\ \A r \in Finding(aimed, id) : r.producers \subseteq ancestorSet(g, f.declarer.rerun)
                       /\ \A t \in Ids(g) :
                             LET other == withRerun(g, id, t) IN
                             /\ Valid(other)
                             /\ f.producers \cup {f.declarer.rerun} \subseteq FeedbackBody(other, NodeOf(other, id))
                             => Cardinality(FeedbackBody(other, NodeOf(other, id)))
                                   >= Cardinality(FeedbackBody(aimed, NodeOf(aimed, id)))
=============================================================================
