------------------------------- MODULE AroundMC -------------------------------
(* What surrounds the legs of a run: the files, checkouts and record of the   *)
(* remotes that outlive a leg, the goal loop that launches runs one after     *)
(* another, the stream and the cards by which a run is watched, the gates     *)
(* decided from outside, the loading of the graph a run executes, the calls of *)
(* one node, the way from a planner's reply to the nodes of an auto run, what  *)
(* those nodes are told, and what the planner and the assessor are shown.      *)
(* The parts share no state, so one behaviour explores one of them while the  *)
(* others stand still: their interleavings reach no state of a part that it   *)
(* does not reach alone.                                                      *)
EXTENDS HandoffMC, Worktree, RemoteChanges, GoalLoop, RunStatusMC, RunFeed, Dashboard, GateDecision,
        GraphLoadMC, NodeCall, AutoPlanMC, Briefing, PromptBudgets

VARIABLE part

\* RunStatus's Init, Next and vars are the ones without a prefix.

\* Worktree: one lane.  RemoteChanges: two remotes over two servers.
Lanes == {"lane"}
RemoteNames == {"origin", "extra"}
Urls == {"hub", "fork"}

\* GoalLoop: without a ceiling, and with one that the second cycle may reach.
Budgets == {0, 5}

\* Dashboard: one run.  GateDecision: two gates, two POSTs and a terminal.
Runs == {"run"}
TwoGates == {"review", "signoff"}
Posts == {"tab", "phone"}
Shells == {"terminal"}

\* GraphLoad: the menu of GraphLoadMC; elsewhere no graph is loaded.
NoDoc == [entry |-> <<>>, files |-> <<>>]

\* Briefing: two names, and the programs before and after each new key.
Names == <<"house", "team">>
Programs == {{3}, {3, 4}, {3, 4, 5}}

\* PromptBudgets: four nodes of every mix of sinks and others, on either side of
\* the floor, the shares and the whole; sinks with verification tails and
\* without; up to four refusals.
Unchecked(length, sink) == [artifact |-> length, sink |-> sink, tail |-> 0, failing |-> FALSE]
Verified(length, failing) == [artifact |-> 2, sink |-> TRUE, tail |-> length, failing |-> failing]
Evidences == [1..4 -> {Unchecked(a, s) : a \in {1, 3, 5, 9, 13}, s \in BOOLEAN}]
             \cup [1..4 -> {Verified(t, f) : t \in {1, 3, 4, 7}, f \in BOOLEAN}]
Refusal == [size : {2, 7, 25}, class : {"field", "arc", "name"}]
RefusalLists == UNION {[1..n -> Refusal] : n \in 0..4}

\* NodeCall: both runtimes, a session child among them, with no check, with a
\* verification, a budget and every retry, and with a result check alone.
Declared(runtime, session, checks, budget, retryOn) ==
    [runtime |-> runtime, session |-> session, checks |-> checks, budget |-> budget, retryOn |-> retryOn]
CallNodes == {Declared("claude", FALSE, {"exit_zero", "verify"}, 1, Causes),
              Declared("claude", TRUE, {"result_matches"}, 1, {"run_error", "timeout"}),
              Declared("codex", FALSE, {}, 0, {}),
              Declared("codex", TRUE, {"verify"}, 1, Causes)}
Baselines == {[usd |-> 1, unknown |-> FALSE], [usd |-> 0, unknown |-> TRUE]}
OneCallNode == Declared("codex", FALSE, {}, 0, {})

\* The type of the part that moves; the others stand in their initial states.
AroundTypeOK ==
    CASE part = "handoff" -> HandoffTypeOK
      [] part = "worktree" -> WorktreeTypeOK
      [] part = "remotes" -> RemoteTypeOK
      [] part = "goal" -> GoalTypeOK
      [] part = "status" -> StatusTypeOK
      [] part = "feed" -> FeedTypeOK
      [] part = "dashboard" -> DashTypeOK
      [] part = "gate" -> GateTypeOK
      [] part = "call" -> CallTypeOK
      [] part = "plan" -> PlanTypeOK
      [] part = "brief" -> BriefTypeOK
      [] part = "prompt" -> BudgetsTypeOK
      [] part = "load" -> loaded.ok <=> loaded.nodes # NoId

AroundInit ==
    /\ part \in {"handoff", "worktree", "remotes", "goal", "status", "feed", "dashboard", "gate", "call", "plan", "brief", "prompt", "load"}
    /\ HandoffInit /\ WorktreeInit /\ RemoteInit /\ GoalInit /\ Init /\ FeedInit /\ DashInit /\ GateInit /\ CallInit
    /\ PlanInit /\ BriefInit
    /\ part # "status" => ~forbidRemoteChanges
    /\ part # "worktree" => \A l \in Lane : dir[l] = "none"
    /\ remotes["origin"] = "hub" /\ (part # "remotes" => remotes["extra"] = "hub")
    /\ IF part = "goal" THEN interview.on => ceiling > 0 ELSE ceiling = 0 /\ ~interview.on
    /\ part # "gate" => stopped = "review"
    /\ part # "plan" => wish = Plain
    /\ part # "brief" => /\ options = [named |-> FALSE, guard |-> FALSE, interview |-> Missing]
                          /\ \A p \in DOMAIN leadsTo : leadsTo[p] = Missing
    /\ IF part = "prompt" THEN BudgetsInit ELSE assessed = <<>> /\ refusals = <<>> /\ shown = NotShown
    /\ part # "call" => callee = OneCallNode /\ baseline.unknown
    /\ IF part = "load" THEN LoadInit ELSE doc = NoDoc /\ loaded = [ok |-> FALSE, nodes |-> NoId]

AroundNext ==
    \/ /\ part = "handoff" /\ HandoffNext
       /\ UNCHANGED <<part, worktreeVars, remoteVars, goalVars, vars, feedVars, dashVars, gateVars, callVars, planVars, briefVars, budgetVars, loadVars>>
    \/ /\ part = "worktree" /\ WorktreeNext
       /\ UNCHANGED <<part, handoffVars, remoteVars, goalVars, vars, feedVars, dashVars, gateVars, callVars, planVars, briefVars, budgetVars, loadVars>>
    \/ /\ part = "remotes" /\ RemoteNext
       /\ UNCHANGED <<part, handoffVars, worktreeVars, goalVars, vars, feedVars, dashVars, gateVars, callVars, planVars, briefVars, budgetVars, loadVars>>
    \/ /\ part = "goal" /\ GoalNext
       /\ UNCHANGED <<part, handoffVars, worktreeVars, remoteVars, vars, feedVars, dashVars, gateVars, callVars, planVars, briefVars, budgetVars, loadVars>>
    \/ /\ part = "status" /\ Next
       /\ UNCHANGED <<part, handoffVars, worktreeVars, remoteVars, goalVars, feedVars, dashVars, gateVars, callVars, planVars, briefVars, budgetVars, loadVars>>
    \/ /\ part = "feed" /\ FeedNext
       /\ UNCHANGED <<part, handoffVars, worktreeVars, remoteVars, goalVars, vars, dashVars, gateVars, callVars, planVars, briefVars, budgetVars, loadVars>>
    \/ /\ part = "dashboard" /\ DashNext
       /\ UNCHANGED <<part, handoffVars, worktreeVars, remoteVars, goalVars, vars, feedVars, gateVars, callVars, planVars, briefVars, budgetVars, loadVars>>
    \/ /\ part = "gate" /\ GateNext
       /\ UNCHANGED <<part, handoffVars, worktreeVars, remoteVars, goalVars, vars, feedVars, dashVars, callVars, planVars, briefVars, budgetVars, loadVars>>
    \/ /\ part = "call" /\ CallNext
       /\ UNCHANGED <<part, handoffVars, worktreeVars, remoteVars, goalVars, vars, feedVars, dashVars, gateVars, planVars, briefVars, budgetVars, loadVars>>
    \/ /\ part = "plan" /\ PlanNext
       /\ UNCHANGED <<part, handoffVars, worktreeVars, remoteVars, goalVars, vars, feedVars, dashVars, gateVars, callVars, briefVars, budgetVars, loadVars>>
    \/ /\ part = "brief" /\ BriefNext
       /\ UNCHANGED <<part, handoffVars, worktreeVars, remoteVars, goalVars, vars, feedVars, dashVars, gateVars, callVars, planVars, budgetVars, loadVars>>
    \/ /\ part = "prompt" /\ BudgetsNext
       /\ UNCHANGED <<part, handoffVars, worktreeVars, remoteVars, goalVars, vars, feedVars, dashVars, gateVars, callVars, planVars, briefVars, loadVars>>
    \/ /\ part = "load" /\ LoadNext
       /\ UNCHANGED <<part, handoffVars, worktreeVars, remoteVars, goalVars, vars, feedVars, dashVars, gateVars, callVars, planVars, briefVars, budgetVars>>

aroundVars == <<part, handoffVars, worktreeVars, remoteVars, goalVars, vars, feedVars, dashVars, gateVars,
                callVars, planVars, briefVars, budgetVars, loadVars>>

AroundSpec == AroundInit /\ [][AroundNext]_aroundVars
=============================================================================
