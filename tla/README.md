# oh-my-graph in TLA+

oh-my-graph runs a graph of model-CLI calls: nodes with dependencies, gates a
human decides, bounded feedback loops, retries, session limits, checkouts of
their own, and runs that are resumed over several processes; auto mode has a
planner write the graph and an assessor judge the result. Every node costs
money, so the mistakes that matter are running a node twice, running it on
stale inputs, losing a verdict, a decision or a piece of work, losing money from
the accounts, and telling a living run from a dead one wrongly. They are
mistakes of interleaving, order and recovery, and that is what is modelled.

## The system's parts

| Part | State it keeps | Operations | Hard behaviour | What makes it correct | Modules |
|---|---|---|---|---|---|
| `internal/schedule` | in-degrees, slots, pause state, halt cause, rounds, per leg | launch, run a node, judge, retry, fire an arc, gate, pause, prune, halt, settle the leg | goroutines over five mutexes, cancellation, drained pauses | one execution of a node, fresh inputs, nothing forgotten, bounded spend, one story of a halt, every leg returns | `Scheduler`, `DagRun` |
| `internal/runner`, `verify` | a child process group, a pipe | spawn, read, price, judge, retry | timeouts, a cancellation racing a good exit, descendants, a limit | a row claims what happened | `NodeCall` |
| `internal/graph` | none after loading | splice fragments, validate, ready set, feedback bodies | names rewritten file by file | the loaded graph means what each file meant | `GraphLoad`, `FeedbackReach` |
| `internal/gate` | decisions of a leg | approve, reject, pause | decisions of several legs and the launch meet | nothing runs past a gate unapproved | `Scheduler`, `RunResume` |
| `internal/runstate` | state.json, resume.lock | record a node, a decision, a pause; open a leg; take, probe, release the lock | rounds superseding records, partial writes, races for the lock | spend accounted once, one leg at a time | `RunResume`, `RunStatus` |
| `cmd resume*`, `autoapprove` | none of its own | resume a gate, retry what failed | a snapshot taken at any moment | settled work is not re-run, no run is stuck | `RunResume` |
| `cmd runleg`, `internal/runstatus` | the bracket of events.jsonl | open, announce, close a leg; derive a status | reads of three files at three moments, deaths | no living leg is called dead | `RunStatus` |
| `internal/runfeed` | events.jsonl | append, walk, follow | half-done writes, deaths | a reader loses at most the damaged line | `RunFeed` |
| `remotechanges`, `internal/remote` | the leg's two readings of the remotes | bracket a leg, diff, attribute, override its outcome | nodes, others and servers in between, interrupts, deaths | a guarded pass hid nothing | `RemoteChanges` |
| `internal/ledger` | one row per execution | record, seed, print | rows carried over legs | sums to the snapshot's figures | `Scheduler`, `RunResume` |
| `internal/handoff` | artifacts, sessions, replies, rounds in memory and on disk | persist, interpolate, archive, quote, seed | files beside the snapshot, crashes | a node is told what the records say | `Handoff` |
| `internal/worktree` | git worktrees and branches per lane | acquire, clean up | crashes, dirty and strayed checkouts | work outlives the leg, nothing else does | `Worktree` |
| `cmd goal`, `internal/coordinator` | cycles, ceilings, accounts | interview, plan, correct, run, assess | bounded repetition of paid work, calls that never answer | the ceiling is held against everything paid | `GoalLoop`, `PromptBudgets` |
| `internal/coordinator` (plan) | the plan, staged agents and skills | refuse, splice, map, pair checks, stage, re-stage | files edited during all of it, nodes that write there | each leg runs the plan that was shown | `AutoPlan` |
| `cmd conventions`, `interview` | staged conventions and answers | read, check, stage, re-check | symlinks, edits, older programs | all are told the same, once | `Briefing` |
| `internal/serve` | a sweep's stamps, SSE clients | sweep, reconnect, decide a gate | runs that move under a sweep, two deciders | no update is lost, no decision is made for an unseen pause | `Dashboard`, `GateDecision` |
| `internal/fence`, `usermodel`, `browser`, `docsclaims`, `invariants` | none | text, settings, checks of the docs | none over time | | |

The command line opens a leg (lock, bracket, first reading of the remotes),
writes the first snapshot or loads the last one, and hands the graph to the
scheduler. The scheduler calls the runner, the worktrees, the handoff and the
gate controller, and tells the recorder (state.json), the ledger and the event
stream what happened. Readers see only the files. The goal loop is a caller of
all this: each of its cycles plans a graph and runs one leg of it.

## Modules

The leg and the run:

* `DagRun` is the abstract promise of a leg: nodes are pending, running, passed
  or failed; a node begins on passed parents only; a loop reopens its whole body
  at most as often as its bound allows; a leg concludes passed only when all
  passed, and paused only when something is left that can run.
* `Scheduler` is one leg, `Scheduler.execute` and everything it calls. A node's
  goroutine has a `phase`; each step between two lock acquisitions, or between
  a record and its consequence, is an action. `queued` counts goroutines that
  wait for a slot. The three signals, the arc and the failure policies are
  separate actions because the code handles them in separate critical sections:
  `ReadPause` reads the pause state and `Release` acts on it later, one
  dependent at a time; `HaltNote` precedes `HaltReturn`. The recorder's snapshot
  and the ledger are variables, with a record reduced to verdict, round, number
  of priced rows, and whether its detail names the run's halt cause.
* `RunResume` extends it over the legs of one run: `CloseLeg`, `Crash`,
  `ResumeGate`, `ResumeRetry`. Opening a leg is one action because
  `RecordLegGate` is one write and everything before it is private to the
  process.
* `RunStatus` models the processes around a leg: the flock, the lock file's
  body, the leg bracket of the stream, the snapshot's completeness, and readers
  that look at them one after the other. What the scheduler does in between is
  reduced to "the last node passes" and an outcome.
* `NodeCall` is one node's turn in a leg: look-up, spawn, the child's own
  steps (spend, announce a session, exit, leave a descendant that holds the
  pipe), the kill by timeout or cancellation, the price, the verdict and the row.
* `Handoff` is what nodes hand on: the maps a leg keeps and the files another
  leg re-reads, each written in its own step, with a death between any two. A
  reply is named by the execution that gave it, so a property can say whose it is.
* `Worktree` is the manager of the checkouts: acquire (reuse, attach, create),
  use by a node that commits, dirties, checks out or detaches, cleanup.
  git is a graph of commits, and external.
* `RemoteChanges` reads remotes before a leg's first node and after its last,
  while nodes and others push, re-point, remove, rewrite the config; diffs,
  attributes, guards, and tells the assessor. Servers, git and gh are external.
* `RunFeed` is events.jsonl as bytes with half-done writes: `Walk`, `LastLeg`,
  the node states and the follower read the same lines.
* `Dashboard` is one connection's sweeps over runs that start, write, die and
  are deleted meanwhile, and the page that keeps its tiles.
* `GateDecision` is the dashboard's POST, which answers 202 and then starts a
  resume, against `resume --approve`/`--reject` in a terminal.

The graph:

* `GraphLoad` is loading: fragments replaced by nodes of their own files,
  with ids prefixed, references rewritten, exits substituted, bound values
  spliced, and everything validated. An id is a sequence of segments and a text
  is the set of placeholders it quotes.
* `FeedbackReach` is what `lint` says of an arc and what auto mode refuses a
  plan for, with the corrections the refusals name.

Auto mode:

* `GoalLoop` is `auto --max-cycles N`: interview, planner call and
  correction, run, assessment, every stop and every error, with each payment
  known, unknown or never reported, and the accounts kept of them.
* `PromptBudgets` computes the allowances of the assessor's prompt (priority
  shares, the two passes over artifacts) and of the refusals a second planner
  call is shown, over lengths.
* `AutoPlan` goes from the planner's reply to the nodes each leg spawns:
  refusals, citations, agents, check pairing, the verify command, skills, the
  staged copies, and what a resumed leg takes from the disk.
* `Briefing` is the conventions and answers: read, checked and staged while
  they change, and what every conversation of a run then opens with.

`SchedulerMC`, `RunResumeMC`, `RunStatusMC`, `HandoffMC`, `GraphLoadMC` and
`AutoPlanMC` give constants for TLC. `SchedulerMC` also adds to the fresh leg
the one a rejection opens with no record to carry (`RejectedAtRoot`).

The theorems are in modules of their own: `SchedulerProofs` and
`WavefrontProofs` (one leg), `RunResumeProofs` (a run, on top of them),
`RunStatusProofs`, `HandoffProofs`, `NodeProofs` (a node's call, and the
checkouts), `CoordinatorProofs` (the goal loop, the plan, what nodes are told,
and the prompts) and `ViewProofs` (dashboard, gates, remotes and the stream).

`Scheduler` and `RunResume` share their variables. The other modules are views
of the same legs with everything else abstracted: they meet in the code at the
records and files each of them models (a PASS record in `Handoff` is
`Scheduler`'s; the lock in `GateDecision` is `RunStatus`'s), not in TLC.
`AroundMC` brings them into one specification whose variable `part` says which
of them moves. They share no variable, so nothing is lost by moving one at a time.

Operators that a `PROJECT.json` mutant names (`IsReadyEarly`, `HaltUnnoted`,
`ReadFromByName`, ...) are alternatives the code does not take; each is there to
show that a property would notice.

## Runs

| Run | Instance | Shows |
|---|---|---|
| `sched_approval` | 5 nodes, 2 gates, 2 slots, continue-on-fail, retry, interrupt; fresh legs, and one a rejection of a root gate opened | a paused leg is resumable, a finished one forgot nothing |
| `sched_loop` | 6 nodes, loop of 4 with 2 rounds, outside parent and successor, 2 slots, retry, interrupt | fresh inputs, one execution, coherent rounds, bounded and accounted spend; refines `DagRun`; returns |
| `sched_halt` | 5 nodes in 3 branches, one a loop, 3 slots, halt on failure, failing marker writes | every killed node names a node that failed of its own |
| `resume_legs` | 4 nodes, a loop and a gate into a build, up to 3 legs, crashes, interrupts | settled work stays, loops are re-entered in their round, rejections stand, no unapproved gate, outcome and pause agree, no run is stuck |
| `around_legs` | the parts of `AroundMC`, each over its own small instance | the table below |
| `nil_on_failure` | a gated graph, 2 legs | **violated**: a resumed leg returns nil over a carried FAIL |
| `marker_priced_twice` | as `sched_loop` with a failing marker write | **violated**: one execution is priced twice in the snapshot |
| `recovery_noop` | a launch and a resume, deaths | **violated**: the advised recovery does nothing for a leg that died after its last PASS |
| `branch_deleted` | one lane, commits, a detached HEAD | **violated**: cleanup deletes a branch that holds a commit |
| `cards_stale` | one run, one page | **violated**: the card of a leg that died says running on every later sweep |
| `unjudged_quoted` | the graph of the handoff part, 1 round | **violated**: a reply nobody judged is quoted to the next leg |
| `unchecked_exit` | as the plan part | **violated**: a verify command makes an unchecked sink's exit status irrelevant |

The violated ones state a sentence of the source; the findings in
`PROJECT.json` quote it. The models hold more than no run states as a
property: two concurrent failures can note the halt in one order and return in
the other, so Run's error and the killed siblings name different nodes; a reader
that takes the stream before run_finished and the lock after its release calls a
closed leg abandoned until it looks again; and a leg that dies between a
resume's status read and its lock is taken over without the orphan warning.

`around_legs`, by part:

| Part | Instance | Shows |
|---|---|---|
| handoff | a loop of 2 rounds with a session child, 3 legs, 3 executions a node, deaths | `InputsAreRecorded`: a node is told the reply its parent's record stands for, in the same reply's session. `FilesAgree`: markers, archived rounds and failed replies agree with the records. `PriorIsNewest`: a retry quotes the attempt it repeats, a new execution the reply that last failed the node since its last PASS, and into a fresh session only |
| worktree | one lane, 3 commits, foreign checkouts, deaths | `WorkAloneIsKept`: commits and uncommitted changes survive every leg, empty branches do not |
| remotes | 2 remotes over 2 servers, 2 events in 2 legs, guarded | `RemotesJudged`: a guarded leg that passed hid nothing of its own, a record claims only what was read at both ends, the assessor is told no less |
| goal | 3 cycles, no ceiling or 5, 1 question, 1 correction, 2 spawn attempts | `BudgetHolds`: a later cycle is planned only while everything paid is known and below the ceiling. `AccountsComplete`: the streams and the summary miss no payment. `LegsBracketed`: no leg outlives its cycle |
| status | a planned launch, guarded or not, 1 resume, 1 polling reader, deaths, lost events | `OpenLegIsHeld`, `NoFalseDeath`, `OneLegAtATime`. `FailAnswered`: an unguarded run that reads FAIL is never told there is nothing to retry (`NoOpNeverOverFail`), a guarded one that reads FAIL on a full pass reads so for ever (`GuardedFailStands`) |
| feed | 3 legs, 4 events, 2 half-done writes | `FeedTold`: damage costs what it touched and no more; what reads as open or running is |
| dashboard | 1 run, 2 lines, 2 snapshots, 2 connections | `NoUpdateLost`: no tile is behind a stamp taken for current, no vanished run has one |
| gate | 2 gates, 2 POSTs, a terminal, 3 pauses | `DecidesThePause`: a decision is written once, for the gate the run stood at, under the lock |
| load | 41,472 documents of colliding fragments and 6,144 of judges, chains of 3 | `LoadKeepsMeaning`: every edge, arc and placeholder reaches the node its file meant. `AdviceHolds`: advice can be followed, and an accepted plan quotes only what exists |
| call | 4 declarations (both runtimes, session child, checks, budget), 2 attempts | `RowIsTrue`: a known cost is the real one, a PASS was earned, no process is left, a session is announced once |
| plan | replies to one request, 1 correction, 1 edit, 2 legs | `LegRunsThePlan`: what each leg spawns is the accepted plan with what was staged for it, verified sinks included |
| brief | 2 names over 2 files, 2 changes, 3 legs, 2 attempts, 3 programs | `BriefedAlike`: every conversation opens with the accepted conventions, once, and an attempt quotes what a check found wanting before it |
| prompt | 4 nodes' artifacts or tails, up to 4 refusals | `PromptsFair`: budgets are held, no gap is unreported, the shares are what the comments promise |

Their names are in the invariants and properties of `around_legs.cfg`;
`AroundTypeOK` is the type invariant of whichever part moves.

### Bounds

The graphs are small and chosen for their shapes: a join behind two gates, a
loop with a fork and a join inside, an input from outside and a successor,
independent branches. Two slots on six nodes make goroutines queue; three slots
let two nodes fail while a third is killed. Two rounds reach the exhausted arc.
Three legs (`MaxLegs`) reach a resume of a resume; it is the only bound that cuts
`resume_legs` short. One launch, one resume and one reader reach every order of a
reader's reads and two legs' steps; that more of them change nothing is proved.
`resume_legs` is of an unguarded run: a guarded one closes legs in the same ways
and is refused the legs that only close a failed one, so it takes a subset of the
steps. The theorems cover both values of `ForbidRemoteChanges`.

In the parts of `around_legs`, three legs of `Handoff` let what one leg wrote
be read by the next and superseded by a third, and two rounds let an archive be
followed by another. Three commits in `Worktree` give a lane's own, one elsewhere,
and one after a reuse; legs and deaths are not bounded there. Two events on two
remotes let one hide behind the other. Three cycles of `GoalLoop` have one
between the first and the last; the ceiling 5 is reached in the second or third.
Two half-done writes damage two lines or the same place twice. One edit of one
file at a time is what a leg's check has to notice in `AutoPlan`. Sizes in
`Briefing` and `PromptBudgets` straddle each limit: below the floor, at it, between
the shares and above the whole. The documents of `GraphLoadMC` are all
combinations of a few choices whose names can collide, and chains of three files
nest one substitution in another.

Deadlock is not checked where a run ends (`resume_legs`, `around_legs` and the
runs on the same instances).

### Fairness

`FairSpec` gives each node's step, and the leg's end, weak fairness: the Go
scheduler runs every runnable goroutine, and the one step that waits for the
outside world, a subprocess, is bounded by the node's timeout and its retries by
`retry.max`. Nothing is assumed about which verdict comes. `Termination` needs
no fairness between the alternatives of a node. The other modules promise safety
only: what they wait for is a process, a human or a server that may not answer.

## Proofs

TLAPS proves, for every value of the constants that satisfies the assumptions
of the modules, what the runs check on their instances. The inductive
invariants were, as a rule, first checked by TLC on such an instance.

### One leg (`SchedulerProofs`, `WavefrontProofs`)

* `TypesKept`: the types of `Scheduler`. Inductive with `LoopPhases` (only a
  declarer's goroutine handles a fired arc), without which a re-arm could use
  the body of a node that has none.
* `LoopsCoherent`: loop bodies share one round within their bound and records
  are never of the future. It needs the bodies' disjointness, which is load-time
  validation's, so `FeedbackAssumption` is where it enters.
* `HaltsExplained`: a killed node names another node that failed of its own.
  `HaltInv` strengthens it: a noted cause has a final FAIL of its own on
  record, and whenever the context is cancelled a cause is noted; the noted
  node's goroutine is over, so nothing can overwrite its record.
* `InputsFresh` and `ExecutedOnce` rest on `Wave`, the invariant of the
  wavefront. Neither property is inductive, because both depend on what a number
  in `inDegree` stands for. `Wave` says it: a node's in-degree counts the parents that
  *owe* it a decrement (not passed this round, or passed and not released it
  yet), a node is launched exactly when none does, and a goroutine's phase agrees
  with its node's record. A fired arc breaks that reading for its body until
  the re-seeding is over, and for good if the leg pauses or the marker is not
  written: `Quiet` says that meanwhile nothing in the body moves and everything
  outside has been released. So there are four kinds of step to prove: those that
  leave the debts alone, a release, an arc, and a re-arm.
* `LegInv` takes `Coherent` for `LoopCoherent`, which does not hold of the first
  states of a resumed leg: rounds are seeded from markers, and a body whose
  declarer has its last verdict starts again at round 0 behind records of
  later ones. `Coherent` allows that, and the proof of `Wave` shows it harmless.
* `ForgetsNothing`, `PausesResumable`: `EndInv` says what the leg's last step
  writes; that nothing is left then follows from `Wave` and the acyclicity of the
  graph, since the first node left has parents that owe it nothing. The proof
  corrected `NothingForgotten`: a loop whose marker write failed does leave
  its body behind under continue-on-fail, so the property names that case, which
  can occur only where `AllowWriteFault` is set.
* `SpendIsBounded`: a node of a loop has one ledger row per round begun.
* `RowsAddUp` assumes `~AllowWriteFault`. It is the assumption that the run
  `marker_priced_twice` shows to be needed: the finding and the theorem are the two
  sides of one fact.
* `PromiseKept`: `Spec => KeepsPromise`, the refinement of `DagRun`, step by step.
  Most steps stutter; a start, a verdict, a counted round and the end map to
  `DagRun`'s actions, whose guards are what `Wave` and `FailedInv` provide.

### A run over several legs (`RunResumeProofs`)

`RunInv` is inductive: while a process lives, the leg's own invariant; and always
`Snapshot`, which is about the records alone, because a crash leaves nothing
else: a verdict that stands has all its inputs, however the rounds will be
seeded. A resume rebuilds the leg's invariant from `Snapshot` (`OpenedLeg`); every
leg step, crash and close keeps it.

* `RunTypesKept`, and `LegsSafe`/`EveryLegIsSafe`: a leg opened on whatever
  an earlier one left keeps what a fresh one keeps. The accounts are again under
  `~AllowWriteFault`, the other three without it.
* `ApprovalAsked`, `RejectionStands`: `BehindGates` and `Decided` say that what lies behind
  a gate has a record only if the gate passed, and a gate passes only if it was
  approved; over a retry, which clears records, and a crash before the pause is
  written.
* `SettledStands` is an action property, over every step of every leg.
* `PausesAgree`: what the run said last and what a resume would find agree.
* `NeverStuck` follows from the graph alone: the first node that neither passed nor
  waits on a rejection has parents that all passed, so it is ready or is cleared.

### The parts

* `OneLegAlways`, `OpenLegsHeld`, `NeverFalselyDead`, `FailsAnswered`:
  the safety of `RunStatus`, for any number of resumes and readers, with deaths and
  lost events. The invariant relates stages to the lock, an open leg to a
  process that will still close it, and each reader's view to the legs: the
  leg it read about has begun, and a leg that has begun and is over never comes
  back. `NoOpInv` says that once a retry of an unguarded run found a full, unfailed
  snapshot no process is left at a stage from which the stream could change;
  `GuardedInv` that none is about to open a leg over a guarded run that passed in
  full. The two lemmas of `FailsAnswered` divide the cases of `interruptedAfterEveryNodePassed`: a
  guarded run that reads FAIL is told there is nothing to retry and exit 0
  (`docs/LIMITATIONS.md:703-707`), by intent, and so is outside `NoOpNeverOverFail`.
* `DecisionsForThePause`: a gate is decided once, for the pause the run is in,
  as the holder of the lock asked, for any number of gates, pages, terminals and
  pauses. `GateInv` adds what makes it inductive: whoever is between taking and
  giving back the lock is its only holder, a resume past its check still stands at
  the pause it checked, and a gate the run is stopped at is undecided.
* `CeilingHolds`, `MoneyAccounted`, `LegsOpenAndClose`: the goal loop for any number
  of cycles, questions, corrections, spawn attempts and any ceiling. `MoneyInv` says
  where all the money is at each place of the loop (the interview's bill, the
  planning step's sum, the plan's cost, the evidence, the loop's total) and that
  it is nowhere twice; that the interview is cycle 1's by two accounts of which
  cycle is the first (`InterviewBill`, `RejectedPrice`) is a lemma, `FirstCycle`.
  `EndingInv` says what each ending leaves. TLC checks three cycles.
* `UpdatesArrive`: the dashboard for any number of runs, lines, snapshots and
  connections, where the run checks one run. `TileInv` is the invariant: what a
  tile was built from is not behind the stamp taken before it, and is what the
  files say if their stamps did not move since. `NamedInv` and `MissedInv` follow a
  run through listing, stamping, reconnects and the pruning of the first sweep.
* `HandoffTypes`, `InputsRecorded`, `RoundFiles`, `PriorNewest`: the hand-over for any
  graph with one loop, any rounds, executions, legs and deaths. `HandoffInv` has four
  parts: `ControlInv` relates stages, records and rounds, `DiskInv` says of every stage
  of a node what is on disk and in memory, `ToldInv` what a running node's
  invocation was built from, and `LoopInv` what the loop's files are in every
  round and while one is being closed. The proof found that `PriorIsNewest` had said too
  much: that the quoted reply is the node's newest is true only up to three
  executions, since an unjudged failure in between leaves an older file (the
  cause of the finding `unjudged_quoted`); it names the newest reply *that failed
  the node*.
* `CallTypes`, `RowsAreTrue`: a node's call for any declarations, attempts, lookups, sums
  and limits. `SeenInv` says what a leg can still see of its child: the session's total
  is the parent's, what was carried, and what the child reported.
* `WorktreeTypes`, `WorkKept`: any lanes, commits, foreign directories, legs and deaths.
  `KeptInv` follows each lane's HEAD, its work and its emptiness; a commit's ancestors
  are the least set closed under parents, so no recursion is needed. `WorkKept`
  assumes `~AllowDetach`: the run `branch_deleted` shows what a detached HEAD loses.
* `PlanTypes`, `PlanIsRun`: auto runs for any replies, agents, allowlists, flags, edits
  and legs. `PlanInv` says of every stage what the draft may hold (`Drafted`,
  `MappedFits`), of a bound plan that it and its staged copies are what was accepted, and
  of each node what it was given, what it read and by what it was judged; what a
  node quotes is again a least closed set, and acyclicity gives every plan a sink.
* `AllToldTheSame`: any names, files, sizes, builds, changes, attempts and legs.
  `BriefInv` follows the launch (`LaunchInv`), the record a resume reads (`RecordInv`) and
  the attempts (`HeardInv`). The proof showed an earlier form of `BriefedAlike`
  to hold for two legs only: an attempt quotes across a leg that did not run it.
* `RemotesAreJudged`: any remotes, servers, branches and legs, nodes and others acting at
  any moment. `BeforeIs` and `PinIs` say what the first reading saw, relative to what a
  leg can still have changed. The proof refined the property's account of
  exactness: a remote's name may equal an entry that is named by its URL.
* `FeedTypes`, `StreamIsTold`: the stream for any legs, events and half-done writes.
  `FeedInv`: every event has its place, the places are in the order of the events, what
  shares a line was emitted one after the other and all but the line's last is
  torn, a line ends with the event that was written whole, the follower was handed
  the ended lines, and an open leg's events follow its run_started.
* `BudgetsTypes`, `PromptsAreFair`: the prompts for any number of nodes and refusals of any
  lengths. The argument is about sums. A fold's recursion is turned into its
  equations by its least counterexample (`SumsDefined`, `SumByOne`), so no induction
  principle is needed; a water level fits its budget, wastes less than a byte
  for each of its nodes, and no higher level fits (`FilledFits`); the rations of the
  second pass rank the groups, give the whole ones their floors and the one split
  enough or nothing (`RestRations`); the sinks' first share does the same within half
  (`PriorityRations`); `ArtifactsRationed` and `MaterialGiven` put them together. An earlier
  bound on the waste held only where there are fewer nodes than an excerpt has bytes.
  The proof needs that two excerpts fit into the material, as the constants do.

### From what, and what is left

The assumptions: graphs are finite and acyclic, gates are nodes, loops are as
`validateFeedback` leaves them (every body node leads to the declarer, and out of the
body through it), the empty id is no node, gate or decider, and bounds are
numbers. A reply that loads as a graph has no cycle; the tools every planned node
may use do not include "Skill"; the builds that resume a run are those of the
three schemas; at least one conventions file is named; two excerpts fit
into the assessor's material, and the note on omitted refusals into the planner's.
The runs evaluate all of them. Three theorems have a hypothesis more: `RowsAddUp` and
`EveryLegIsSafe` that marker writes succeed, `WorkKept` that no node detaches
HEAD; in each case a violated run shows why.

Only model-checked: `Termination`, since liveness is beyond the prover; `LoadKeepsMeaning`
and `AdviceHolds`, since the substitutions of `GraphLoad` are recursive operators, which the
prover cannot expand; and `AroundTypeOK`, because `AroundMC` reaches `GraphLoad` (the
types of its other parts are proved, each by itself). The findings stay
what TLC found: a counterexample needs no theorem.

## Where the code and its comments differ, without a run

The models contain these too; the properties are worded so as to allow them.

* A planner or assessor call that dies is returned as free of charge
  (`coordinator.go:673-676`), though the runner reports its cost unknown
  (`runner/cli.go:433-448`).
* A decision answered 202 that then loses the race for the lock leaves nothing in
  the feed (`serve/gate.go:250`, `gateresume.go:47-72`), and a look at the paused
  run holds the lock for an instant, so it can refuse another resume.
* The first event of a leg is glued to a line its predecessor left torn
  (`runfeed.go:293-340`): `LastLeg` then misses that leg's run_started, and a
  card's node states can disagree with `runs list` (`serve/card.go:397`).
* `watch` replays the stream from the first leg and stops at its first
  run_finished (`watch.go:47-52`, `165-176`).
* Two `use:` nodes with one id that cite different loops load without a refusal
  (`fragment.go:695-725`): the exception in `LoadKeepsMeaning`.
* An agent's definition is read twice while planning and an edit in between is
  pinned unchecked (`agentstage.go:37-43`): the exception in `StagedAsPlanned`.
* A child that exits 0 while a descendant holds its pipe beyond the wait delay
  counts as a node that could not be spawned: its paid reply is thrown away,
  priced at a known $0 and asked for again, against `runner/cli.go:162` and
  `assess.go:343`. `verify/shell.go` does the same.
* A `--verify-cmd` given to a resume is in that leg's memory only: the leg after
  it is not refused without it, against `verifycmd.go:368-371`; and a different
  command is guarded by the first one's pins (`verifypins.go:31-46`).
* A session child executed again in a later leg after a failure nobody judged
  resumes its parent's session, whose total includes the earlier attempt, and
  only the parent's PASS is subtracted (`sessioncost.go:14-24`): the `carried`
  term of `KnownCostIsReal`.
* A node queued for a slot when a gate pauses still starts
  (`scheduler.go:694`), against "What stops is new launches" at
  `scheduler.go:658` and "no new work is launched" at `gate.go:36`.
* The target `lint` suggests for an arc covers the producers it reports, and
  another parent may be out of the new loop's reach (`feedback_reach.go:158`), so
  a reply corrected as told can be refused again; two declarers' suggestions may
  cross.
* A sink's excerpt of the first pass may be thinner than `minAssessEqualShare`,
  and a long sink may get nothing of it, against "so no artifact renders too
  thin to be evidence" (`assess.go`).

## What is abstracted, and what is left out

* A subprocess is its classification outside `NodeCall`. Prompts, timeouts as
  durations, permission modes and the wording of anything do not appear;
  "timeout" is a cause of failure.
* Writes of state.json are atomic (they are renames) and succeed, except the
  marker's, whose failure the code treats specially. A failed pause write makes
  Run return an error and is not modelled.
* A crash stops all goroutines of a leg at once; a child that outlives the
  engine is not followed further.
* A resume that opens no leg because of its flags, an edited graph or a missing
  file is left out of `RunResume`; `RunStatus` has the early exits, `AutoPlan` and
  `Briefing` the refusals they are about.
* Lock files of engines older than the flock are left out.
* A gate controller that errs or answers something unknown fails the node like
  any other; the controllers of this repository do neither.
* `Handoff`: a blank judged reply leaves the older failed file; a death between
  `keepFailedReply` and `recordFail` and one between the archive and the marker
  may show a newer file to the next attempt, which the properties allow.
* `RemoteChanges`: a shallow boundary already moved when the leg starts is
  believed; URL syntax and how `gh` picks its repository are abstracted. The assessor's block covers a cycle's last
  leg and the gap before it.
* `GoalLoop`: a hook that declines a run exists for tests only; a run's cost is
  the recorded one, as right as `NodeCall` says. What an attempt that was retried
  cost is in no row (`recordRetry`, `scheduler.go:1378`), so neither the ceiling of
  `BudgetHolds` nor the sums of `AccountsComplete` and `RowIsTrue` include it.
* `Worktree`: `git rev-parse` answers; the branches of `cleanupOne` for a HEAD or a
  branch that cannot be read (`git.go:338`, `git.go:357`) are left out, as is a
  failing `branch -D`.
* `Dashboard`: runs are swept in any order, one run suffices as they share
  nothing; the instant between the removal of a run's files and of its directory
  may show a tile once more. Tokens, hosts, headers and pages are left out.
* `GraphLoad`: a bound value quotes at least one placeholder and a fragment has
  one substitution point; YAML shape, aliases, grants, inherited `cwd` and `worktree`, the validation of single
  fields and the other lints are left out.
* `NodeCall`: result checks are one predicate; a limit is recognised by how the
  reply was classified.
* `AutoPlan`: retries, the model's choice, an unisolated scan and a node that
  rewrites the snapshot itself are left out; reading a shell command for the
  files it executes is external.
* `PromptBudgets`: the details' own budget, markers and wording are left out.
* Two hazards have no property. A resume derives the status before it locks
  (`resume.go:127`), a window inherent to that order; a reader's probe may refuse a
  leg for an instant (`lock.go:386`), which ADR 0015 accepts. Both are steps of
  `RunStatus`.
* Not modelled: `fence`, `usermodel`, `browser`, `docsclaims`, `invariants`, the
  measurements under `docs/`, and the front ends `chat`, `design`, `lint` and
  `init`. They are text, settings and checks without state over time, or launch
  what is modelled.

## Plan

1. `LoadKeepsMeaning` for every document: `splice` as recursive functions over the files'
   acyclic order instead of recursive operators, and the least counterexample
   argument of `CoordinatorProofs` over that order.
2. `AdviceHolds` for every graph, once `FeedbackReach` can be read without `GraphLoad`.
3. Several feedback arcs in one `Handoff`, whose theorems are about one.
4. The front ends that launch runs (`chat`, `design`), as far as they keep state.
