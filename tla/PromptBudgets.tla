---------------------------- MODULE PromptBudgets ----------------------------
(***************************************************************************)
(* What fits into a coordinator call's prompt.  The assessor is shown the   *)
(* tails of the verifications and the artifacts of a cycle's nodes, the     *)
(* planner that is asked again the refusals of its first reply; each out of *)
(* a fixed number of bytes, every allowance fixed before anything renders.  *)
(* Lengths stand for texts; the ids of nodes are ordered, a refusal is its  *)
(* length and its class.  A cut text is as long as its allowance.           *)
(***************************************************************************)
EXTENDS Integers, Sequences, SequencesExt, FiniteSetsExt

CONSTANTS
    Cycles,       \* the nodes of a cycle: artifact, sink, tail, failing
    Material,     \* maxAssessArtifactMaterial
    Excerpt,      \* maxAssessArtifactExcerpt, the floor
    Lists,        \* lists of refusals
    PromptLimit,  \* maxIssuesInPrompt
    NoteSize,     \* omittedRefusalNote's own sentence
    ClassSize,    \* refusalClass, bounded by maxOmittedClassBytes
    MaxClasses    \* maxOmittedClassesNamed

ASSUME BudgetAssumption ==
    /\ Excerpt \in Nat \ {0} /\ Material \in Nat /\ {PromptLimit, NoteSize, ClassSize, MaxClasses} \subseteq Nat
    /\ NoteSize + MaxClasses * ClassSize < PromptLimit
    /\ 2 * Excerpt <= Material
\* The nodes of a cycle are finitely many, and told apart by their ids.
ASSUME CycleAssumption ==
    \A c \in Cycles :
        /\ IsFiniteSet(DOMAIN c) /\ DOMAIN c \subseteq Nat
        /\ \A i \in DOMAIN c : /\ c[i].artifact \in Nat /\ c[i].tail \in Nat
                              /\ c[i].sink \in BOOLEAN /\ c[i].failing \in BOOLEAN
\* A refusal says something.
ASSUME RefusalAssumption ==
    \A issues \in Lists : issues \in Seq(Range(issues)) /\ \A i \in DOMAIN issues : issues[i].size \in Nat \ {0}

MinEqualShare == Excerpt \div 2   \* minAssessEqualShare
Half(n) == n \div 2               \* the sinks' priority share, and the tails'

VARIABLES
    assessed,  \* CycleEvidence's nodes
    refusals,  \* plannedNodeRefusals, the graph's own first
    shown      \* what each of them gets
budgetVars == <<assessed, refusals, shown>>

Total(f, S) == MapThenSumSet(LAMBDA i : f[i], S)
AllOf(f) == Total(f, DOMAIN f)
NothingFor(S) == [i \in S |-> 0]

Both(f, g) == [i \in DOMAIN f \cup DOMAIN g |-> IF i \in DOMAIN f THEN f[i] ELSE g[i]]

Floors(lengths) == [i \in DOMAIN lengths |-> Min({lengths[i], Excerpt})]

\* The level up to which everyone is filled: the short ones whole, the shortest
\* first, until one is longer than its share of what is left; that is the level.
waterLevel(wants, budget) ==
    LET Shorter(i) == {j \in DOMAIN wants : wants[j] < wants[i]}
        Share(i) == (budget - Total(wants, Shorter(i))) \div Cardinality(DOMAIN wants \ Shorter(i))
        Full(i) == wants[i] <= Share(i)
        short == {i \in DOMAIN wants : Full(i) /\ \A j \in Shorter(i) : Full(j)}
        long == DOMAIN wants \ short
    IN IF DOMAIN wants = {} THEN 0
       ELSE IF long = {} THEN Max({wants[i] : i \in DOMAIN wants})
       ELSE Share(CHOOSE i \in long : Shorter(i) \subseteq short)

Filled(wants, budget) ==
    LET level == waterLevel(wants, budget) IN [i \in DOMAIN wants |-> Min({wants[i], level})]

FirstByID(S, n) == {i \in S : Cardinality({j \in S : j < i}) < n}
shareEqually(group, budget) ==
    LET extra == FirstByID(group, budget % Cardinality(group))
    IN [i \in group |-> budget \div Cardinality(group) + (IF i \in extra THEN 1 ELSE 0)]

\* Equal asks of one kind form a group.  Groups take their floors in order, the
\* shorter before the longer and the later kind last, while the budget holds a
\* whole group's; the first it does not hold is split, if the shares are worth
\* it, or else gives floors to whom they suffice, by id; the rest get nothing.
restAllowances(asks, later, budget) ==
    LET needy == {i \in DOMAIN asks : asks[i] > 0}
        Precedes(i, j) == IF later[i] = later[j] THEN asks[i] < asks[j] ELSE later[j]
        whole == {i \in needy : Total(Floors(asks), {j \in needy : ~Precedes(i, j)}) <= budget}
        group == {i \in needy \ whole : \A j \in needy \ whole : ~Precedes(j, i)}
        left == budget - Total(Floors(asks), whole)
        Fill(S, n) == Filled([i \in S |-> asks[i]], n)
        Spread(f) == [i \in DOMAIN asks |-> IF i \in DOMAIN f THEN f[i] ELSE 0]
    IN IF group = {} THEN Spread(Fill(whole, budget))
       ELSE IF left \div Cardinality(group) >= MinEqualShare
       THEN Spread(Both(Fill(whole, budget - left), shareEqually(group, left)))
       ELSE LET floor == Floors(asks)[CHOOSE i \in group : TRUE]
                taking == Fill(whole \cup FirstByID(group, left \div floor), budget)
                first == CHOOSE i \in group : i \in FirstByID(group, 1)
                over == Min({asks[first], budget - AllOf(taking)})
            IN IF left \div floor = 0 /\ over >= MinEqualShare THEN Spread(Both(taking, [i \in {first} |-> over]))
               ELSE Spread(taking)

PrioritySharesUntrimmed(artifact, sinks, share) ==
    LET level == Max({waterLevel([i \in sinks |-> artifact[i]], share), Excerpt})
    IN [i \in DOMAIN artifact |-> IF i \in sinks THEN Min({artifact[i], level}) ELSE 0]

\* Pass 1: the sinks alone, each at least a floor, trimmed to the share shortest
\* first; what a group's even split leaves over goes back.
priorityShares(artifact, sinks, share) ==
    LET level == Max({waterLevel([i \in sinks |-> artifact[i]], share), Excerpt})
        want == [i \in sinks |-> Min({artifact[i], level})]
        kept == {i \in sinks : Total(want, {j \in sinks : artifact[j] <= artifact[i]}) <= share}
        group == {i \in sinks \ kept : \A j \in sinks \ kept : artifact[i] <= artifact[j]}
    IN [i \in DOMAIN artifact |->
            IF i \in kept THEN want[i]
            ELSE IF i \in group THEN (share - Total(want, kept)) \div Cardinality(group) ELSE 0]

sinkFirstAllowances(artifact, sink, budget) ==
    LET sinks == {i \in DOMAIN artifact : sink[i] /\ artifact[i] > 0}
        first == IF sinks = {} THEN NothingFor(DOMAIN artifact) ELSE priorityShares(artifact, sinks, Half(budget))
        rest == restAllowances([i \in DOMAIN artifact |-> artifact[i] - first[i]], sink, budget - AllOf(first))
    IN [i \in DOMAIN artifact |-> first[i] + rest[i]]

\* The tails render first: at most half, and never what the sinks are owed.
verifyTailBudget(artifact, sink) ==
    LET owed == Total(Floors(artifact), {i \in DOMAIN artifact : sink[i]})
    IN Min({Half(Material), Material - Min({owed, Half(Material)})})

tailAllowances(tail, failing, budget) ==
    restAllowances(Floors(tail), [i \in DOMAIN tail |-> ~failing[i]], budget)

\* What a block spends of its allowance.
writeVerificationBlock(tail, budget) == Min({tail, Excerpt, budget})

assessMaterial(c) ==
    LET Of(part) == [i \in DOMAIN c |-> c[i][part]]
        allowed == tailAllowances(Of("tail"), Of("failing"), verifyTailBudget(Of("artifact"), Of("sink")))
        tails == [i \in DOMAIN c |-> writeVerificationBlock(c[i].tail, allowed[i])]
    IN [tail |-> tails, artifact |-> sinkFirstAllowances(Of("artifact"), Of("sink"), Material - AllOf(tails))]

----------------------------------------------------------------------------
(* The refusals handed back to the planner. *)

\* omittedRefusalClasses: each class once, and the rest counted.
omittedRefusalNote(dropped) ==
    IF dropped = <<>> THEN 0
    ELSE NoteSize + ClassSize * Min({Cardinality({dropped[i].class : i \in DOMAIN dropped}), MaxClasses})

Joined(issues) == FoldLeft(LAMBDA n, issue : n + issue.size, 0, issues) + (IF issues = <<>> THEN 0 ELSE Len(issues) - 1)
Leading(issues, n) == SubSeq(issues, 1, n)
Omitted(issues, n) == SubSeq(issues, n + 1, Len(issues))
Rendering(issues, n) == Joined(Leading(issues, n)) + omittedRefusalNote(Omitted(issues, n))

\* Refusals are kept while the note that would follow them still fits; if not one
\* is, the first is cut to what the note leaves.
issuesForPrompt(issues) ==
    LET kept == Max({n \in 0..Len(issues) : \A m \in 1..n : Rendering(issues, m) <= PromptLimit})
        room == PromptLimit - omittedRefusalNote(Tail(issues))
    IN IF Joined(issues) <= PromptLimit THEN [whole |-> Len(issues), cut |-> 0, told |-> 0]
       ELSE IF kept > 0 THEN [whole |-> kept, cut |-> 0, told |-> Len(issues) - kept]
       ELSE IF Len(issues) > 1 /\ room > 0
       THEN [whole |-> 0, cut |-> Min({issues[1].size, room}), told |-> Len(issues) - 1]
       ELSE [whole |-> 0, cut |-> PromptLimit, told |-> 0]

----------------------------------------------------------------------------
NotShown == [asked |-> "nobody"]

BudgetsTypeOK ==
    CASE shown.asked = "nobody" -> shown = NotShown
      [] shown.asked = "assessor" -> shown.gives \in [tail : [DOMAIN assessed -> 0..Material],
                                                     artifact : [DOMAIN assessed -> 0..Material]]
      [] shown.asked = "planner" -> shown.gives \in [whole : 0..Len(refusals), told : 0..Len(refusals),
                                                    cut : 0..PromptLimit]

BudgetsInit ==
    /\ shown = NotShown
    /\ \/ assessed \in Cycles /\ refusals = <<>>
       \/ assessed = <<>> /\ refusals \in Lists

AskAssessor ==
    /\ shown = NotShown /\ DOMAIN assessed # {}
    /\ shown' = [asked |-> "assessor", gives |-> assessMaterial(assessed)] /\ UNCHANGED <<assessed, refusals>>
AskPlannerAgain ==
    /\ shown = NotShown /\ refusals # <<>>
    /\ shown' = [asked |-> "planner", gives |-> issuesForPrompt(refusals)] /\ UNCHANGED <<assessed, refusals>>

BudgetsNext == AskAssessor \/ AskPlannerAgain
BudgetsSpec == BudgetsInit /\ [][BudgetsNext]_budgetVars

----------------------------------------------------------------------------
(* Properties. *)

\* "the allowances sum to at most the budget, so the renderer never has to trim
\* one", and none is wasted while something was cut: less is left than a floor, or
\* than a byte for each node.
Spends(gives) ==
    LET used == AllOf(gives.tail) + AllOf(gives.artifact)
    IN /\ used <= Material
       /\ \A i \in DOMAIN assessed : gives.artifact[i] <= assessed[i].artifact /\ gives.tail[i] <= Min({assessed[i].tail, Excerpt})
       /\ (\E i \in DOMAIN assessed : gives.artifact[i] < assessed[i].artifact) => Material - used < Max({Excerpt, Cardinality(DOMAIN assessed)})

\* "A failing check's output ... is never dropped behind a passing one".
FailingFirst(gives) == \A i, j \in DOMAIN assessed :
    (assessed[i].failing /\ ~assessed[j].failing /\ gives.tail[i] < Min({assessed[i].tail, Excerpt})) => gives.tail[j] = 0

\* A short artifact is never cut, or dropped, for a longer one of its kind; and
\* what is no sink is left out sooner than shown too thin to be evidence.
ShorterFirst(gives) == \A i, j \in DOMAIN assessed :
    (assessed[i].sink = assessed[j].sink /\ assessed[i].artifact < assessed[j].artifact) =>
        gives.artifact[i] >= Min({assessed[i].artifact, gives.artifact[j]})
NeverTooThin(gives) == \A i \in DOMAIN assessed :
    (~assessed[i].sink /\ gives.artifact[i] \in 1..(assessed[i].artifact - 1)) => gives.artifact[i] >= MinEqualShare

\* "the verdict needs both the final check AND the evidence of the work": the
\* sinks have their floors, or half of what the tails leave but for what does
\* not split evenly, and they never push every other artifact out.
BothShown(gives) ==
    LET sinks == {i \in DOMAIN assessed : assessed[i].sink}
        works == {i \in DOMAIN assessed \ sinks : assessed[i].artifact > 0}
    IN /\ Total(gives.artifact, sinks) >=
              Min({Total([i \in sinks |-> Min({assessed[i].artifact, Excerpt})], sinks),
                   Half(Material - AllOf(gives.tail)) - Cardinality(sinks)})
       /\ works # {} => \E i \in works : gives.artifact[i] > 0

\* "dropping WHOLE refusals from the tail and saying how many it dropped": each
\* refusal is shown, cut or counted, the first is never only counted, the whole
\* stays within the bound, and only one that fits nowhere is cut.
RefusalsTold(gives) ==
    /\ gives.whole + (IF gives.cut > 0 THEN 1 ELSE 0) + gives.told = Len(refusals)
    /\ gives.whole > 0 \/ gives.cut > 0
    /\ Joined(Leading(refusals, gives.whole)) + gives.cut
           + omittedRefusalNote(Omitted(refusals, Len(refusals) - gives.told)) <= PromptLimit
    /\ gives.cut > 0 => refusals[1].size + omittedRefusalNote(Tail(refusals)) > PromptLimit

\* The assessor and the planner are shown what their bounded prompts promise.
PromptsFair ==
    /\ shown.asked = "assessor" =>
        /\ Spends(shown.gives) /\ FailingFirst(shown.gives) /\ ShorterFirst(shown.gives)
        /\ NeverTooThin(shown.gives) /\ BothShown(shown.gives)
    /\ shown.asked = "planner" => RefusalsTold(shown.gives)
=============================================================================
