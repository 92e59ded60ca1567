------------------------------ MODULE AutoPlan ------------------------------
(***************************************************************************)
(* From a planner's reply to the nodes an auto run spawns, in the run's     *)
(* first leg and in every leg that resumes it.  The reply is nobody's       *)
(* reviewed text: trusted code refuses what a plan may not say, splices the *)
(* shapes it cites, maps nodes to the user's agents, pairs result checks    *)
(* with the exit code, attaches the user's verify command to the sinks and  *)
(* grants the staged skills; what is saved is the plan without the last     *)
(* step, and what a resumed leg may take from the disk is less still.       *)
(*                                                                          *)
(* The user's files are edited while all this goes on, and the nodes of the *)
(* run write where the staged copies lie.  A file's contents are numbered:  *)
(* an edit makes new ones and never brings old ones back.  The price of the *)
(* planner's calls is in module GoalLoop, splicing in module GraphLoad, the *)
(* feedback rules and a node's retries are left out.                        *)
(***************************************************************************)
EXTENDS Naturals, FiniteSets

CONSTANTS
    Answers,      \* the planner's replies to try
    Wishes,       \* the user's flags to try
    Allowlist,    \* plannedToolAllowlist
    ShapeTools,   \* what the offered shape brings
    AgentTools,   \* for each contents of the agent's file, the tools it names
    MaxPlanRepairs, \* maxPlanRepairAttempts
    MaxEdits,     \* bound: edits of the user's files
    MaxRunLegs    \* bound: legs of the run

Kinds == {"agent", "skill"}
Sources == Kinds \cup {"shape", "script"}
Contents == 0..MaxEdits
Unpinned == MaxEdits + 1   \* no copy, no pin
Foreign == MaxEdits + 2    \* what a node wrote there

\* What loading a reply as a graph guarantees: known checks, edges between its own
\* nodes, and no cycle.
Checks == {"exit_zero", "result_matches"}
Loads(nodes) ==
    /\ \A n \in DOMAIN nodes :
        nodes[n].needs \subseteq DOMAIN nodes /\ nodes[n].check \subseteq Checks /\ nodes[n].matches \in Nat
    /\ \A ns \in SUBSET DOMAIN nodes : ns # {} => \E n \in ns : \A m \in ns : n \notin nodes[m].needs

ASSUME PlanAssumption ==
    /\ MaxPlanRepairs \in Nat /\ MaxEdits \in Nat /\ MaxRunLegs \in Nat \ {0}
    /\ "Skill" \notin Allowlist /\ ShapeTools \subseteq Allowlist
    /\ AgentTools \in [Contents -> SUBSET Allowlist]
    /\ Wishes \subseteq [verify : BOOLEAN, agents : BOOLEAN, skills : BOOLEAN, loaded : BOOLEAN]
    /\ \A a \in Answers : a = [form |-> a.form, nodes |-> a.nodes] /\ (a.form = "graph" => Loads(a.nodes))

VARIABLES
    wish,       \* the command line
    answer,     \* the reply being turned into a plan
    plan,       \* the Plan under construction
    source,     \* external: the user's files, the verify script among them
    copy,       \* the staged directories, inside the run directory
    store,      \* what state.json holds of the plan
    autoLeg,    \* the leg in progress
    spawned     \* what each node was given and how it came out

planVars == <<wish, answer, plan, source, copy, store, autoLeg, spawned>>

NoPolicy == [tools |-> {}, isolated |-> FALSE, dirs |-> {}]
NoSpawn == [state |-> "idle", policy |-> NoPolicy, notice |-> FALSE, agent |-> FALSE, leg |-> 0,
            read |-> [k \in Kinds |-> Unpinned], exposed |-> FALSE, code |-> 0,
            verified |-> FALSE, ran |-> Unpinned]
NoPins == [k \in Kinds \cup {"script"} |-> Unpinned]
NoStore == [spec |-> <<>>, policy |-> <<>>, script |-> Unpinned]
NoRunLeg == [no |-> 0, live |-> FALSE, graph |-> <<>>, policy |-> <<>>, command |-> "none"]

States == {"idle", "starting", "running", "verifying", "judging", "PASS", "FAIL"}
Underway == {"spliced", "scanned", "ready", "bound"}
PlannedIds == DOMAIN answer.nodes
PlanNode == [needs : SUBSET PlannedIds, check : SUBSET Checks, quotes : SUBSET PlannedIds, matches : Nat,
             tools : SUBSET Allowlist, agent : BOOLEAN, notice : BOOLEAN, verify : BOOLEAN]
Policy == [tools : SUBSET (Allowlist \cup {"Skill"}), isolated : BOOLEAN, dirs : SUBSET Kinds]
Pin == Contents \cup {Unpinned}
Spawning == [state : States, policy : Policy, notice : BOOLEAN, agent : BOOLEAN, leg : 0..MaxRunLegs,
             read : [Kinds -> Pin \cup {Foreign}], exposed : BOOLEAN, code : 0..1,
             verified : BOOLEAN, ran : Pin]
Progress == [at : Underway, calls : Nat, graph : [PlannedIds -> PlanNode], spec : [PlannedIds -> PlanNode],
             policy : [PlannedIds -> Policy], mapped : SUBSET PlannedIds, checked : Pin,
             pin : [Kinds \cup {"script"} -> Pin]]
PlanTypeOK ==
    /\ wish \in Wishes
    /\ plan.at \in {"asking", "accepted", "rejected"} \cup Underway
    /\ plan.calls \in 0..(MaxPlanRepairs + 1)
    /\ plan.at \in Underway => plan \in Progress
    /\ source \in [Sources -> Contents]
    /\ copy \in [Kinds -> [bytes : Pin \cup {Foreign}, planted : BOOLEAN]]
    /\ IF plan.at = "bound"
       THEN /\ store \in [spec : [PlannedIds -> PlanNode], policy : [PlannedIds -> Policy], script : Pin]
            /\ autoLeg \in [no : 1..MaxRunLegs, live : BOOLEAN, graph : [PlannedIds -> PlanNode],
                            policy : [PlannedIds -> Policy], command : {"none", "given"}]
            /\ spawned \in [PlannedIds -> Spawning]
       ELSE store = NoStore /\ autoLeg = NoRunLeg /\ spawned = <<>>

\* The menu of shapes is rendered, and the verify script pinned, at the start.
PlanInit ==
    /\ wish \in Wishes
    /\ answer = [form |-> "none", nodes |-> <<>>]
    /\ plan = [at |-> "asking", calls |-> 0, graph |-> <<>>, spec |-> <<>>, policy |-> <<>>,
               mapped |-> {}, checked |-> Unpinned,
               pin |-> [NoPins EXCEPT !["script"] = IF wish.verify THEN 0 ELSE Unpinned]]
    /\ source = [s \in Sources |-> 0]
    /\ copy = [k \in Kinds |-> [bytes |-> Unpinned, planted |-> FALSE]]
    /\ store = NoStore /\ autoLeg = NoRunLeg /\ spawned = <<>>

Sinks(g) == {n \in DOMAIN g : \A m \in DOMAIN g : n \notin g[m].needs}
\* ancestorsOf: what every set of nodes that misses none of n's needs, nor of its
\* own members', has in common.
Before(g) == [n \in DOMAIN g |->
    {p \in DOMAIN g : \A ns \in SUBSET DOMAIN g :
        g[n].needs \subseteq ns /\ (\A m \in ns : g[m].needs \subseteq ns) => p \in ns}]

Staged == {k \in Kinds : plan.pin[k] # Unpinned}
\* A file the manifest does not name is pruned before anything is restored.
Materialized(k) == [bytes |-> plan.pin[k], planted |-> FALSE]

----------------------------------------------------------------------------
(* The world: anyone edits the user's files; a node at work may also write  *)
(* where the copies lie, changing one or planting a file beside it.  A later *)
(* leg reads no copy.                                                       *)

EditSource(s) ==
    /\ plan.at # "rejected"
    /\ source["agent"] + source["skill"] + source["shape"] + source["script"] < MaxEdits
    /\ source' = [source EXCEPT ![s] = @ + 1]
    /\ UNCHANGED <<wish, answer, plan, copy, store, autoLeg, spawned>>

TamperWithCopy(n, k) ==
    /\ autoLeg.live /\ autoLeg.no = 1 /\ spawned[n].state = "running" /\ k \in Staged
    /\ \A j \in Staged : copy[j] = Materialized(j)   \* bound: one alteration at a time
    /\ \/ copy' = [copy EXCEPT ![k].bytes = Foreign]
       \/ copy' = [copy EXCEPT ![k].planted = TRUE]
    /\ spawned' = [m \in DOMAIN spawned |->
                    IF spawned[m].state = "starting" THEN [spawned[m] EXCEPT !.exposed = TRUE]
                    ELSE spawned[m]]
    /\ UNCHANGED <<wish, answer, plan, source, store, autoLeg>>

----------------------------------------------------------------------------
(* Planning: attemptPlan's calls and the steps after validation. *)

(* What a planned node may not say; "fields" are what it declares beyond its *)
(* edges, tools and check, a round or retry count only where it is too high.  *)

\* Where a node runs, and a command that the engine runs itself.
Redirects(node) == node.fields \cap {"cwd", "verify"} # {}
\* maxPlannedFeedbackRounds, maxPlannedRetries
BeyondCeiling(node) == node.fields \cap {"feedback", "retry"} # {}
\* A gate needs neither tools nor a prompt, and nobody would be there to decide it.
Poses(node) == node.fields \cap {"agent", "description", "id", "worktree", "gate", "bypass"} # {}
\* A node citing a shape has its prompt and tools from it, and says neither.
ToolsRefused(node) ==
    \/ ~(node.tools \subseteq Allowlist)
    \/ node.cites = "none" /\ node.tools = {}
ReuseRefused(node) ==
    \/ node.cites = "unlisted"
    \/ node.cites = "offered" /\ (node.tools # {} \/ node.fields \cap {"prompt", "bind"} # {})
    \/ node.cites = "none" /\ "bind" \in node.fields
\* A placeholder names a node that has finished when its reader starts.
QuotesRefused(g, n) == ~(g[n].quotes \subseteq Before(g)[n])

NodeRefused(g, n) ==
    \/ Redirects(g[n]) \/ BeyondCeiling(g[n]) \/ Poses(g[n])
    \/ ToolsRefused(g[n]) \/ ReuseRefused(g[n]) \/ QuotesRefused(g, n)
ReplyRefused(a) == a.form # "graph" \/ DOMAIN a.nodes = {} \/ \E n \in DOMAIN a.nodes : NodeRefused(a.nodes, n)
\* A reply without a graph to diagnose is not handed back.
Repairable(a) == a.form \in {"graph", "invalid", "fragment"}
AsksOnceTooOften(a) == Repairable(a) /\ plan.calls <= MaxPlanRepairs
MayAskAgain(a) == Repairable(a) /\ plan.calls < MaxPlanRepairs

PlannerAnswers(a) ==
    /\ plan.at = "asking"
    /\ answer' = a
    /\ plan' = [plan EXCEPT !.calls = @ + 1,
                            !.at = IF ~ReplyRefused(a) THEN "accepted"
                                   ELSE IF MayAskAgain(a) THEN "asking"
                                   ELSE "rejected"]
    /\ UNCHANGED <<wish, source, copy, store, autoLeg, spawned>>

CitesShape == {n \in DOMAIN answer.nodes : answer.nodes[n].cites = "offered"}
\* toolPolicyFor: the ceiling of one node.
ToolPolicyFor(tools) == [tools |-> tools, isolated |-> ~wish.loaded, dirs |-> {}]

\* spliceReuse reads a cited file again and refuses one edited since the menu.
Splice ==
    /\ plan.at = "accepted"
    /\ IF CitesShape # {} /\ source["shape"] # 0 THEN plan' = [plan EXCEPT !.at = "rejected"]
       ELSE LET g == [n \in DOMAIN answer.nodes |->
                        [needs |-> answer.nodes[n].needs, check |-> answer.nodes[n].check,
                         quotes |-> answer.nodes[n].quotes, matches |-> answer.nodes[n].matches,
                         tools |-> IF n \in CitesShape THEN ShapeTools ELSE answer.nodes[n].tools,
                         agent |-> FALSE, notice |-> FALSE, verify |-> FALSE]]
            IN plan' = [plan EXCEPT !.at = "spliced", !.graph = g, !.spec = g,
                                    !.policy = [n \in DOMAIN g |-> ToolPolicyFor(g[n].tools)]]
    /\ UNCHANGED <<wish, answer, source, copy, store, autoLeg, spawned>>

\* mapAgents: one agent matches the node's name, and asks for no tool beyond it.
ScanAgents ==
    /\ plan.at = "spliced"
    /\ plan' = [plan EXCEPT
                  !.at = "scanned", !.checked = source["agent"],
                  !.mapped = {n \in DOMAIN plan.graph :
                                /\ wish.agents /\ plan.graph[n].matches = 1
                                /\ AgentTools[source["agent"]] \subseteq plan.graph[n].tools}]
    /\ UNCHANGED <<wish, answer, source, copy, store, autoLeg, spawned>>

\* The definition is read once more, for its digest; one that cannot be read by
\* then leaves its nodes unmapped.
Mapped(p, staged) ==
    IF p.mapped = {} \/ ~staged THEN [p EXCEPT !.mapped = {}]
    ELSE LET g == [n \in DOMAIN p.graph |-> [p.graph[n] EXCEPT !.agent = n \in p.mapped]]
         IN [p EXCEPT !.graph = g, !.spec = g, !.pin["agent"] = source["agent"]]

\* requireExitZero
Paired(p) ==
    LET guarded == {n \in DOMAIN p.graph : "result_matches" \in p.graph[n].check}
        g == [n \in DOMAIN p.graph |->
                [p.graph[n] EXCEPT !.check = IF n \in guarded THEN @ \cup {"exit_zero"} ELSE @]]
    IN IF g = p.graph THEN p ELSE [p EXCEPT !.graph = g, !.spec = g]

\* attachVerifyCommand: the graph it is handed becomes the Spec.
Verifying(g) == [n \in DOMAIN g |-> [g[n] EXCEPT !.verify = n \in Sinks(g)]]
Attached(p) ==
    IF wish.verify THEN [p EXCEPT !.graph = Verifying(p.graph), !.spec = Verifying(p.graph)] ELSE p

\* applySkillActivation: the tool and the sentence that tells of it, in the graph
\* that runs and never in the Spec.  A corpus that cannot be staged activates nothing.
Activated(p, staged) ==
    LET given == {n \in DOMAIN p.graph : ~p.graph[n].agent}
    IN IF ~wish.skills \/ ~staged \/ given = {} THEN p
       ELSE [p EXCEPT
               !.graph = [n \in DOMAIN p.graph |-> [p.graph[n] EXCEPT !.notice = n \in given]],
               !.policy = [n \in DOMAIN p.graph |->
                            [p.policy[n] EXCEPT !.tools = IF n \in given THEN @ \cup {"Skill"} ELSE @]],
               !.pin["skill"] = source["skill"]]

\* The order is load-bearing: what writes the Spec comes before what must not.
AttachedLast(p, agentStaged, skillStaged) ==
    Attached(Activated(Paired(Mapped(p, agentStaged)), skillStaged))
Mutated(p, agentStaged, skillStaged) ==
    Activated(Attached(Paired(Mapped(p, agentStaged))), skillStaged)

FinishPlan ==
    /\ plan.at = "scanned"
    /\ \E agentStaged, skillStaged \in BOOLEAN :
        plan' = [Mutated(plan, agentStaged, skillStaged) EXCEPT !.at = "ready"]
    /\ UNCHANGED <<wish, answer, source, copy, store, autoLeg, spawned>>

----------------------------------------------------------------------------
(* The staged directories: made equal to the manifest before every spawn. *)

\* Only a copy that no longer matches is restored, and only from planned bytes.
Restorable(k) == copy[k].bytes = plan.pin[k] \/ source[k] = plan.pin[k]

\* executePlan binds both directories, the skills' first, and saves the plan; a
\* failure ends the run before anything spends.
Bind ==
    /\ plan.at = "ready"
    /\ IF \A k \in Staged : Restorable(k)
       THEN LET policy == [n \in DOMAIN plan.graph |->
                            [plan.policy[n] EXCEPT
                               !.dirs = {k \in Staged : IF k = "agent" THEN plan.graph[n].agent
                                                        ELSE plan.graph[n].notice}]]
            IN /\ plan' = [plan EXCEPT !.at = "bound", !.policy = policy]
               /\ copy' = [k \in Kinds |-> IF k \in Staged THEN Materialized(k) ELSE copy[k]]
               /\ store' = [spec |-> plan.spec, policy |-> policy, script |-> plan.pin["script"]]
               /\ autoLeg' = [no |-> 1, live |-> TRUE, graph |-> plan.graph, policy |-> policy,
                              command |-> IF wish.verify THEN "given" ELSE "none"]
               /\ spawned' = [n \in DOMAIN plan.graph |-> NoSpawn]
       ELSE plan' = [plan EXCEPT !.at = "rejected"] /\ UNCHANGED <<copy, store, autoLeg, spawned>>
    /\ UNCHANGED <<wish, answer, source>>

----------------------------------------------------------------------------
(* A leg: spawning, judging and verifying the plan's nodes. *)

NodeBecomes(n, rec) == spawned' = [spawned EXCEPT ![n] = rec]
Settled(n, state) == NodeBecomes(n, [spawned[n] EXCEPT !.state = state])

\* A resumed leg has no manifest in memory, so nothing is staged in it.
StagedHere == IF autoLeg.no = 1 THEN Staged ELSE {}
SpawnNode(n) ==
    /\ autoLeg.live /\ spawned[n].state = "idle"
    /\ \A p \in autoLeg.graph[n].needs : spawned[p].state = "PASS"
    /\ IF \A k \in StagedHere : Restorable(k)
       THEN /\ copy' = [k \in Kinds |-> IF k \in StagedHere THEN Materialized(k) ELSE copy[k]]
            /\ NodeBecomes(n, [NoSpawn EXCEPT
                             !.state = "starting", !.policy = autoLeg.policy[n], !.leg = autoLeg.no,
                             !.notice = autoLeg.graph[n].notice, !.agent = autoLeg.graph[n].agent])
       ELSE \* the agents' directory is made good first, then the skills'
            /\ copy' = [k \in Kinds |->
                         IF k \in StagedHere /\ (k = "agent" \/ "agent" \notin StagedHere \/ Restorable("agent"))
                         THEN [copy[k] EXCEPT !.planted = FALSE,
                                              !.bytes = IF Restorable(k) THEN plan.pin[k] ELSE @]
                         ELSE copy[k]]
            /\ NodeBecomes(n, [NoSpawn EXCEPT !.state = "FAIL", !.leg = autoLeg.no])
    /\ UNCHANGED <<wish, answer, plan, source, store, autoLeg>>

\* The CLI reads the directories it was given; a file planted there counts.
NodeReads(n) ==
    /\ autoLeg.live /\ spawned[n].state = "starting"
    /\ NodeBecomes(n, [spawned[n] EXCEPT
                     !.state = "running",
                     !.read = [k \in Kinds |-> IF k \notin spawned[n].policy.dirs THEN Unpinned
                                               ELSE IF copy[k].planted THEN Foreign ELSE copy[k].bytes]])
    /\ UNCHANGED <<wish, answer, plan, source, copy, store, autoLeg>>

\* evaluateSuccessCheck, its default for a check that says nothing included.
IsZero(node) == node.check = {} /\ ~node.verify
CheckHolds(node, code, matches) ==
    /\ IsZero(node) \/ "exit_zero" \in node.check => code = 0
    /\ "result_matches" \in node.check => matches

NodeAnswers(n, code, matches) ==
    /\ autoLeg.live /\ spawned[n].state = "running"
    /\ NodeBecomes(n, [spawned[n] EXCEPT
                     !.code = code,
                     !.state = IF ~CheckHolds(autoLeg.graph[n], code, matches) THEN "FAIL"
                               ELSE IF autoLeg.graph[n].verify THEN "verifying" ELSE "PASS"])
    /\ UNCHANGED <<wish, answer, plan, source, copy, store, autoLeg>>

\* PinningVerifier: the pins of the launch guard whatever command the leg runs.
PinHolds == store.script = Unpinned \/ source["script"] = store.script
VerifyStarts(n) ==
    /\ autoLeg.live /\ spawned[n].state = "verifying"
    /\ \A m \in DOMAIN spawned : spawned[m].state # "judging"   \* SerializedVerifyNodes
    /\ IF PinHolds
       THEN NodeBecomes(n, [spawned[n] EXCEPT !.state = "judging", !.ran = source["script"]])
       ELSE Settled(n, "FAIL")
    /\ UNCHANGED <<wish, answer, plan, source, copy, store, autoLeg>>
\* A script edited while the command ran decides as it stood at the end, too.
VerifyEnds(n, holds) ==
    /\ autoLeg.live /\ spawned[n].state = "judging"
    /\ IF PinHolds /\ holds
       THEN NodeBecomes(n, [spawned[n] EXCEPT !.state = "PASS", !.verified = TRUE, !.ran = source["script"]])
       ELSE Settled(n, "FAIL")
    /\ UNCHANGED <<wish, answer, plan, source, copy, store, autoLeg>>

\* The leg ends: by itself, paused by the subscription's limit, or by a death.
RunLegEnds ==
    /\ autoLeg.live /\ autoLeg' = [autoLeg EXCEPT !.live = FALSE]
    /\ UNCHANGED <<wish, answer, plan, source, copy, store, spawned>>

----------------------------------------------------------------------------
(* continueRun: another leg, from what state.json holds. *)

\* ReattachVerifyCommand, then DropAgentMapping.
Reattached(command) ==
    [n \in DOMAIN store.spec |-> [store.spec[n] EXCEPT
        !.agent = FALSE, !.verify = command # "none" /\ n \in Sinks(store.spec)]]
\* toRunnerToolPolicies, which puts no directory back, then dropSkillActivation,
\* which knows an activated node by the directory it once had.
Rehydrated ==
    [n \in DOMAIN store.policy |->
        LET activated == store.policy[n].dirs # {} /\ ~store.spec[n].agent
        IN [store.policy[n] EXCEPT !.dirs = {}, !.tools = IF activated THEN @ \ {"Skill"} ELSE @]]

ResumeRun(command) ==
    /\ ~autoLeg.live /\ autoLeg.no \in 1..(MaxRunLegs - 1)
    /\ \E n \in DOMAIN spawned : spawned[n].state # "PASS"
    \* a verification found on disk and none given is refused
    /\ command = "none" => \A n \in DOMAIN store.spec : ~store.spec[n].verify
    /\ autoLeg' = [no |-> autoLeg.no + 1, live |-> TRUE, graph |-> Reattached(command),
                   policy |-> Rehydrated, command |-> command]
    /\ store' = [store EXCEPT !.policy = Rehydrated]
    /\ spawned' = [n \in DOMAIN spawned |-> IF spawned[n].state = "PASS" THEN spawned[n] ELSE NoSpawn]
    /\ UNCHANGED <<wish, answer, plan, source, copy>>

PlanNext ==
    \/ \E s \in Sources : EditSource(s)
    \/ \E a \in Answers : PlannerAnswers(a)
    \/ Splice \/ ScanAgents \/ FinishPlan \/ Bind
    \/ \E n \in DOMAIN spawned :
        \/ \E k \in Kinds : TamperWithCopy(n, k)
        \/ SpawnNode(n) \/ NodeReads(n)
        \/ \E code \in 0..1, matches \in BOOLEAN : NodeAnswers(n, code, matches)
        \/ VerifyStarts(n)
        \/ \E holds \in BOOLEAN : VerifyEnds(n, holds)
    \/ RunLegEnds
    \/ \E command \in {"none", "given"} : ResumeRun(command)

PlanSpec == PlanInit /\ [][PlanNext]_planVars

----------------------------------------------------------------------------
(* Properties. *)

Spawned == {n \in DOMAIN spawned : spawned[n].leg > 0}
Ran == {n \in Spawned : spawned[n].state \notin {"starting", "FAIL"}}
PlannedTools(n) == IF n \in CitesShape THEN ShapeTools ELSE answer.nodes[n].tools

\* Whatever leg it is spawned in, a node has the tools its plan was accepted
\* with, isolated as the command line said; Skill comes with the sentence that
\* tells of it, in the first leg only.
CeilingKept ==
    \A n \in Spawned : spawned[n].policy # NoPolicy =>
        /\ spawned[n].policy.tools \ {"Skill"} = PlannedTools(n)
        /\ PlannedTools(n) \subseteq Allowlist
        /\ spawned[n].policy.isolated = ~wish.loaded
        /\ ("Skill" \in spawned[n].policy.tools) = spawned[n].notice
        /\ spawned[n].notice => spawned[n].leg = 1 /\ "skill" \in spawned[n].policy.dirs
        /\ spawned[n].agent => "agent" \in spawned[n].policy.dirs
\* What only the first leg can honour is never saved.
NothingTransientSaved ==
    \A n \in DOMAIN store.spec : ~store.spec[n].notice /\ store.spec[n].agent = (n \in plan.mapped)

\* A node reads the planned contents of what it was given, unless a node running
\* beside it wrote there between its spawn and its reading; and its agent's
\* definition asks for no tool beyond the node's, unless the file changed between
\* the two times it was read while planning.
StagedAsPlanned ==
    \A n \in Ran, k \in Kinds : k \in spawned[n].policy.dirs =>
        /\ spawned[n].read[k] = plan.pin[k] \/ spawned[n].exposed
        /\ k = "agent" => \/ AgentTools[plan.pin[k]] \subseteq PlannedTools(n)
                          \/ plan.checked # plan.pin[k]

\* No sink passes unverified in a leg that had a command, no leg of a run
\* launched with one lacks it, and what a guarded verification ran is the
\* script pinned at the launch.
EvidenceHolds ==
    /\ wish.verify /\ autoLeg.no > 0 => autoLeg.command # "none"
    /\ \A n \in Ran : spawned[n].state = "PASS" =>
        /\ n \in Sinks(store.spec) /\ wish.verify => spawned[n].verified
        /\ spawned[n].verified /\ wish.verify => spawned[n].ran = 0

\* A failing exit passes nowhere but at a verified sink that declared no check.
ExitCounts ==
    \A n \in Ran : spawned[n].state = "PASS" /\ spawned[n].code # 0 =>
        spawned[n].verified /\ answer.nodes[n].check = {}

\* A node that starts finds every output it quotes.
QuotesResolve ==
    \A n \in Spawned : \A q \in answer.nodes[n].quotes : spawned[q].state = "PASS"

LegRunsThePlan ==
    CeilingKept /\ NothingTransientSaved /\ StagedAsPlanned /\ EvidenceHolds /\ ExitCounts /\ QuotesResolve

\* "this step only ever makes a check STRICTER" (exitzero.go), "as it is for
\* attachVerifyCommand": no planned node passes with an exit code of failure.
NeverWeakerThanExit ==
    \A n \in Ran : spawned[n].state = "PASS" => spawned[n].code = 0
=============================================================================
