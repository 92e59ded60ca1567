------------------------------ MODULE GraphLoad ------------------------------
(***************************************************************************)
(* Loading a graph file: every `use:` is replaced, at load time, by the    *)
(* node or the nodes of a fragment file, whose own `use:`s are replaced in *)
(* turn, and what remains is validated as if it had been written by hand.  *)
(* Identifiers are sequences of segments: <<"qa", "judge">> is qa/judge.   *)
(* A text is the placeholders it quotes; names and prose are left out.     *)
(***************************************************************************)
EXTENDS Integers, Sequences, FiniteSets, SequencesExt

CONSTANTS
    Docs,       \* families of entry graphs, each with its fragments/ directory
    MaxChain    \* fragment.go's maxFragmentChain

NoId == <<>>                                  \* an absent id
Text(tokens, slot) == [tokens |-> tokens, slot |-> slot]
NoText == Text({}, FALSE)
Artifact(ref) == [kind |-> "artifacts", ref |-> ref]
Feedback(ref) == [kind |-> "feedback", ref |-> ref]

(* A draft node: `prompt` and `check` are two of its keys that hold text,  *)
(* `with` the value bound to the fragment's substitution point; its kind   *)
(* is "gate", or how it takes its input over: "artifact" or "session".  A file *)
(* declares a point or none, and one node (no ids) or several and an exit. *)
Ids(drafts) == {drafts[i].id : i \in DOMAIN drafts}
Placeholders(d) == d.prompt.tokens \cup d.check.tokens \cup d.with.tokens
MentionsSlot(d) == d.prompt.slot \/ d.check.slot \/ d.with.slot
Binds(d) == d.with # NoText

VARIABLES doc, loaded
loadVars == <<doc, loaded>>

----------------------------------------------------------------------------
(* What the arcs of a list of nodes enclose (feedback.go, and the same     *)
(* walk over a fragment's own nodes in fragmentFeedbackBodies).            *)

RECURSIVE Above(_, _)
Above(drafts, ids) ==
    LET up == ids \cup UNION {d.parents : d \in {e \in Range(drafts) : e.id \in ids}}
    IN IF up = ids THEN ids ELSE Above(drafts, up)

ancestorSet(drafts, id) ==
    Above(drafts, UNION {d.parents : d \in {e \in Range(drafts) : e.id = id}})

betweenSet(drafts, target, declarer) ==
    {target, declarer} \cup {n \in ancestorSet(drafts, declarer) : target \in ancestorSet(drafts, n)}

FeedbackBody(drafts, declarer) ==
    IF declarer.rerun \notin ancestorSet(drafts, declarer.id) THEN {}
    ELSE betweenSet(drafts, declarer.rerun, declarer.id)

Arcs(drafts) == {d \in Range(drafts) : d.rerun # NoId}
fragmentFeedbackBodies(drafts) ==
    {[declarer |-> d.id, body |-> FeedbackBody(drafts, d)] : d \in Arcs(drafts)}

----------------------------------------------------------------------------
(* The judgement of a fragment file before anything cites it. *)

JudgedUse(d) == IF d.use = "" THEN ~Binds(d) ELSE d.prompt = NoText

JudgedMany(file) ==
    LET ids == Ids(file.nodes) IN
    /\ Cardinality(ids) = Len(file.nodes)
    /\ file.exit \in ids
    /\ \A d \in Range(file.nodes) :
          /\ JudgedUse(d)
          /\ d.parents \subseteq ids
          /\ d.rerun # NoId => d.rerun \in ids
          /\ \A t \in Placeholders(d) : t.ref \in ids
    /\ \A arc \in fragmentFeedbackBodies(file.nodes) :
          file.exit \in arc.body => file.exit = arc.declarer

JudgedOne(file) ==
    LET d == file.nodes[1] IN
    /\ d.parents = {} /\ d.rerun = NoId /\ file.exit = NoId
    /\ JudgedUse(d)
    /\ \A t \in Placeholders(d) : Len(t.ref) = 1

Judged(file) ==
    /\ IF file.multi THEN JudgedMany(file) ELSE JudgedOne(file)
    /\ \A d \in Range(file.nodes) : MentionsSlot(d) => file.point

----------------------------------------------------------------------------
(* Renaming a fragment's own identifiers, then filling its slots with what *)
(* the citing node bound: the bound value is the citing graph's text, and  *)
(* is never renamed.                                                       *)

Rename(text, own, prefix) ==
    [text EXCEPT !.tokens = {[t EXCEPT !.ref = IF @ \in own THEN prefix \o @ ELSE @] : t \in @}]

RenamedTexts(d, own, prefix) ==
    [d EXCEPT !.prompt = Rename(@, own, prefix), !.check = Rename(@, own, prefix),
              !.with = Rename(@, own, prefix)]

namespaceNode(d, own, prefix) ==
    LET Spliced(x) == IF x \in own THEN prefix \o x ELSE x
    IN [RenamedTexts(d, own, prefix) EXCEPT
           !.id = prefix \o @, !.parents = {Spliced(x) : x \in @}, !.rerun = Spliced(@)]

Fill(text, value) == IF text.slot THEN Text(text.tokens \cup value.tokens, FALSE) ELSE text
substituteBody(d, value) ==
    [d EXCEPT !.prompt = Fill(@, value), !.check = Fill(@, value), !.with = Fill(@, value)]

\* Only a node without internal parents hangs from the citing node's.
Inherit(d, parents) == [d EXCEPT !.parents = IF @ = {} THEN parents ELSE @]

\* Slots filled before the renaming: the citing graph's names are captured.
SpliceCaptures(using, file) ==
    LET own == Ids(file.nodes)
        Copy(d) == Inherit(namespaceNode(substituteBody(d, using.with), own, using.id), using.parents)
    IN [i \in DOMAIN file.nodes |-> Copy(file.nodes[i])]

spliceLoop(using, file) ==
    LET own == Ids(file.nodes)
        Copy(d) == Inherit(substituteBody(namespaceNode(d, own, using.id), using.with), using.parents)
    IN [i \in DOMAIN file.nodes |-> Copy(file.nodes[i])]

\* A single node's body joins the citing node, whose own keys win.
overlayUsingNode(using, body) ==
    [using EXCEPT !.prompt = body.prompt, !.check = IF @ = NoText THEN body.check ELSE @,
                  !.use = body.use, !.with = body.with]

----------------------------------------------------------------------------
(* resolveNode: one node, and whatever its citation splices in.  `out`     *)
(* gathers the nodes in order, the exit of each cited loop by the id that  *)
(* cited it, the references inside bound values, and whether all was legal. *)

Refuse(out) == [out EXCEPT !.legal = FALSE]
AtEntry == [chain |-> <<>>, prefix |-> NoId, inside |-> FALSE, own |-> {}, single |-> FALSE]

Loops(out) == DOMAIN out.exits
RecordExit(loops, id, exit) == [x \in DOMAIN loops \cup {id} |-> IF x = id THEN exit ELSE loops[x]]

MayCite(d, files, nest) ==
    /\ d.prompt = NoText
    /\ d.use \notin Range(nest.chain) /\ Len(nest.chain) < MaxChain
    /\ LET file == files[d.use] IN
       /\ Judged(file)
       /\ ~(nest.single /\ file.multi)
       /\ Binds(d) <=> file.point
       /\ file.multi => d.check = NoText /\ d.rerun = NoId
       /\ ~file.multi /\ nest.inside => \A t \in Placeholders(file.nodes[1]) : t.ref \in nest.own

RECURSIVE resolveNode(_, _, _, _)
resolveNode(d, files, nest, out) ==
    IF d.use = "" THEN
        IF Binds(d) THEN Refuse(out) ELSE [out EXCEPT !.nodes = Append(@, d)]
    ELSE IF ~MayCite(d, files, nest) THEN Refuse(out)
    ELSE LET file == files[d.use]
             chain == Append(nest.chain, d.use)
         IN IF file.multi
            THEN LET within == [AtEntry EXCEPT !.chain = chain, !.prefix = d.id, !.inside = TRUE,
                                             !.own = Ids(file.nodes)]
                     cited == [out EXCEPT !.exits = RecordExit(@, d.id, file.exit),
                                 !.bound = @ \cup {<<d.id, t.ref>> : t \in
                                              {u \in d.with.tokens : u.kind = "artifacts"}}]
                 IN FoldLeft(LAMBDA o, e : resolveNode(e, files, within, o), cited, spliceLoop(d, file))
            ELSE LET own == IF nest.inside THEN nest.own ELSE {}
                     body == substituteBody(RenamedTexts(file.nodes[1], own, nest.prefix), d.with)
                 IN resolveNode(overlayUsingNode(d, body), files,
                                [nest EXCEPT !.chain = chain, !.single = TRUE], out)

spliceSequence(d) ==
    FoldLeft(LAMBDA o, e : resolveNode(e, d.files, AtEntry, o),
             [nodes |-> <<>>, exits |-> <<>>, bound |-> {}, legal |-> TRUE], d.entry)

----------------------------------------------------------------------------
(* The references that cross a loop's border, once everything is spliced. *)

RECURSIVE resolveExit(_, _)
resolveExit(exits, id) ==
    IF id \in DOMAIN exits THEN resolveExit(exits, id \o exits[id]) ELSE id

AuthoredPlainly(d) ==
    /\ Len(d.id) = 1 /\ Len(d.rerun) <= 1
    /\ \A x \in d.parents : Len(x) = 1
    /\ \A t \in Placeholders(d) : Len(t.ref) = 1

CrossesLegally(d, out) ==
    /\ d.id \notin Loops(out)                                 \* refuseLoopIDCollisions
    /\ d.rerun \notin Loops(out)
    /\ \A t \in Placeholders(d) : t.kind = "feedback" => t.ref \notin Loops(out)

BoundLegally(out) ==
    \A b \in out.bound : b[1] # b[2] /\ resolveExit(out.exits, b[2]) \in Ids(out.nodes)

resolveLoopReferences(d, exits) ==
    LET Through(text) == [text EXCEPT !.tokens =
            {IF t.kind = "artifacts" THEN [t EXCEPT !.ref = resolveExit(exits, @)] ELSE t : t \in @}]
    IN [d EXCEPT !.parents = {resolveExit(exits, x) : x \in @},
                 !.prompt = Through(@), !.check = Through(@)]

\* Validate, as far as it is about ids, edges and arcs.
NodesUnique(nodes) == Cardinality(Ids(nodes)) = Len(nodes)
DependenciesExist(nodes) == \A d \in Range(nodes) : d.parents \subseteq Ids(nodes)
Acyclic(nodes) == \A d \in Range(nodes) : d.id \notin ancestorSet(nodes, d.id)

validateFeedback(nodes) ==
    LET Body(d) == FeedbackBody(nodes, d) IN
    \A d \in Arcs(nodes) :
       /\ Body(d) # {}
       /\ \A e \in Range(nodes) : e.parents \cap (Body(d) \ {d.id}) # {} => e.id \in Body(d)
       /\ \A e \in Range(nodes) : e.id \in Body(d) =>
             e.kind # "gate" /\ (e.kind = "session" => e.parents \subseteq Body(d))
       /\ \A e \in Arcs(nodes) : e # d => Body(d) \cap Body(e) = {}

validateFeedbackPlaceholders(nodes) ==
    \A e \in Range(nodes) : \A t \in Placeholders(e) :
       t.kind = "feedback" =>
          \E d \in Arcs(nodes) : d.id = t.ref /\ e.id \in FeedbackBody(nodes, d)

\* A session child continues the one parent's session, and alone.
validateHandoffConstraints(nodes) ==
    \A d, e \in Range(nodes) : d.kind = "session" =>
       /\ Cardinality(d.parents) = 1
       /\ e.id \in d.parents => e.kind # "gate"
       /\ e.kind = "session" /\ e.parents = d.parents => e = d

Valid(nodes) ==
    /\ NodesUnique(nodes) /\ DependenciesExist(nodes) /\ Acyclic(nodes)
    /\ validateHandoffConstraints(nodes)
    /\ validateFeedback(nodes) /\ validateFeedbackPlaceholders(nodes)

LoadFile(d) ==
    LET out == spliceSequence(d)
        nodes == [i \in DOMAIN out.nodes |-> resolveLoopReferences(out.nodes[i], out.exits)]
    IN IF /\ out.legal /\ BoundLegally(out)
          /\ \A e \in Range(d.entry) : AuthoredPlainly(e)
          /\ \A e \in Range(out.nodes) : CrossesLegally(e, out)
          /\ Valid(nodes)
       THEN [ok |-> TRUE, nodes |-> nodes] ELSE [ok |-> FALSE, nodes |-> <<>>]

LoadInit == (\E i \in DOMAIN Docs : doc \in Docs[i]) /\ loaded = [ok |-> FALSE, nodes |-> NoId]

Load ==
    /\ loaded.nodes = NoId /\ LoadFile(doc).ok
    /\ loaded' = LoadFile(doc) /\ UNCHANGED doc

LoadNext == Load
LoadSpec == LoadInit /\ [][LoadNext]_loadVars

----------------------------------------------------------------------------
(* What an author means, said without renaming anything: a name is looked  *)
(* up among the nodes it is written beside, and a bound value where it was *)
(* bound.  A scope is a list of nodes and the id they were spliced under.  *)

Scope(files, drafts, prefix) == [files |-> files, drafts |-> drafts, prefix |-> prefix]
CitesLoop(files, d) == d.use # "" /\ files[d.use].multi
Within(scope, d) == Scope(scope.files, scope.files[d.use].nodes, scope.prefix \o d.id)

RECURSIVE StandsFor(_, _)
StandsFor(scope, ref) ==
    LET loops == {d \in Range(scope.drafts) : d.id = ref /\ CitesLoop(scope.files, d)} IN
    IF ref \notin Ids(scope.drafts) THEN ref
    ELSE IF loops = {} THEN scope.prefix \o ref
    ELSE LET d == CHOOSE d \in loops : TRUE IN StandsFor(Within(scope, d), scope.files[d.use].exit)

Look(scope, text, given) ==
    {[t EXCEPT !.ref = IF t.kind = "artifacts" THEN StandsFor(scope, @)
                       ELSE IF @ \in Ids(scope.drafts) THEN scope.prefix \o @ ELSE @] : t \in text.tokens}
    \cup (IF text.slot THEN given ELSE {})

Cited(scope, d) == scope.files[d.use].nodes[1]

RECURSIVE Prompted(_, _, _)
Prompted(scope, d, given) ==
    IF d.use = "" THEN Look(scope, d.prompt, given)
    ELSE Prompted(scope, Cited(scope, d), Look(scope, d.with, given))

RECURSIVE Checked(_, _, _)
Checked(scope, d, given) ==
    IF d.use = "" \/ d.check # NoText THEN Look(scope, d.check, given)
    ELSE Checked(scope, Cited(scope, d), Look(scope, d.with, given))

RECURSIVE Meaning(_, _, _)
Meaning(scope, parents, given) ==
    LET Hangs(d) == IF d.parents = {} THEN parents ELSE {StandsFor(scope, x) : x \in d.parents}
        Stand(d) == [id |-> scope.prefix \o d.id, parents |-> Hangs(d),
                    rerun |-> IF d.rerun = NoId THEN NoId ELSE scope.prefix \o d.rerun,
                    prompt |-> Prompted(scope, d, given), check |-> Checked(scope, d, given)]
    IN UNION {IF CitesLoop(scope.files, d)
              THEN Meaning(Within(scope, d), Hangs(d), Look(scope, d.with, given))
              ELSE {Stand(d)} : d \in Range(scope.drafts)}

Gist(d) == [id |-> d.id, parents |-> d.parents, rerun |-> d.rerun,
            prompt |-> d.prompt.tokens, check |-> d.check.tokens]

\* Every graph the loader accepts is the graph its author wrote: each edge,
\* arc and placeholder reaches the node its own file means, although the
\* files' ids collide, a bound value crosses several of them, and a name
\* outside a loop means what the loop's exit, and the exit's exit, stands for
\* (fragment.go's rewritings, applied one after another to the same text).
\* No two nodes of it have one id, unless both cite loops.
LoadKeepsMeaning ==
    loaded.ok =>
        /\ Cardinality(Ids(doc.entry)) = Len(doc.entry) =>
              {Gist(d) : d \in Range(loaded.nodes)} = Meaning(Scope(doc.files, doc.entry, NoId), {}, {})
        /\ \A i, j \in DOMAIN doc.entry :
              i # j /\ doc.entry[i].id = doc.entry[j].id
                => CitesLoop(doc.files, doc.entry[i]) /\ CitesLoop(doc.files, doc.entry[j])
=============================================================================
