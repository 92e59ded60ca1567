---------------------------- MODULE RemoteChanges ----------------------------
(***************************************************************************)
(* What a run changed on its remotes.  Each leg reads them before its      *)
(* first node and after its last, diffs the two, and labels what carries a *)
(* commit of the run; what happened between two legs is reported apart.    *)
(* Under --forbid-remote-changes the leg is guarded: a new branch or pull  *)
(* request at a commit of the run, or a new remote, fails it, and the leg  *)
(* says which parts it could vouch for.  A node may meanwhile re-point or  *)
(* remove remotes, rewrite or break the repository's config, or move its   *)
(* shallow boundary; servers and gh may not answer; a leg may be           *)
(* interrupted or die.  Servers, git and gh are external.                  *)
(***************************************************************************)
EXTENDS Naturals, Sequences, FiniteSets

CONSTANTS
    Remote,     \* remote names
    Url,        \* the repositories a remote may name
    Mirror,     \* where a rewritten config (an insteadOf) sends every URL
    Branch,
    Guarded,    \* --forbid-remote-changes
    MaxEvents,  \* bound: what happens in the world
    MaxRemoteLegs \* bound: legs of the run

ASSUME RemoteAssumption ==
    /\ IsFiniteSet(Remote) /\ IsFiniteSet(Url) /\ IsFiniteSet(Branch)
    /\ Mirror \in Url /\ "none" \notin Remote \cup Url /\ Guarded \in BOOLEAN
    /\ {MaxEvents, MaxRemoteLegs} \subseteq Nat

VARIABLES
    remotes,  \* repository: the URL each remote is configured with
    config,   \* repository: "launched", "rewritten" or "broken"
    shallow,  \* repository: whether its shallow boundary was moved
    servers,  \* each repository's branches
    pulls,    \* each repository's open pull request (its head)
    bracket,  \* "gone" or "leg"
    pin,      \* memory: what a guarded leg's before keeps
    leg,      \* snapshot: the last of RemoteChanges.Legs
    between,  \* snapshot: the last of RemoteChanges.BetweenLegs
    exit,     \* how the last leg ended
    began,    \* history: the world when the last leg began
    remoteLegs, events

repository == <<remotes, config, shallow>>
world == <<remotes, config, shallow, servers, pulls>>
remoteVars == <<world, bracket, pin, leg, between, exit, began, remoteLegs, events>>

None == "none"
\* A commit is the base's, somebody else's, or one on the run's own branches.
RemoteCommit == {"base", "theirs", "ours"}
Part == {"remotes", "branches", "pull_requests"}
RunBranchPart == {"branches", "pull_requests"}

\* A snapshot's parts; an unavailable one holds nothing.
NoRemotes == [ok |-> FALSE, at |-> [r \in Remote |-> None]]
NoRefs == [r \in Remote |-> [b \in Branch |-> None]]
NoBranches == [ok |-> FALSE, refs |-> NoRefs, through |-> {}]
NoPulls == [ok |-> FALSE, open |-> None, repo |-> None]
Unavailable == [remotes |-> NoRemotes, branches |-> NoBranches, pulls |-> NoPulls]
NoPin == [taken |-> FALSE, urls |-> [r \in Remote |-> None], config |-> "launched",
          shallow |-> FALSE]
NoDiff == [observed |-> {}, entries |-> {}, skipped |-> {}]

Configured == [Remote -> Url \cup {None}]
SnapshotType ==
    [remotes : [ok : BOOLEAN, at : Configured],
     branches : [ok : BOOLEAN, refs : [Remote -> [Branch -> RemoteCommit \cup {None}]],
                 through : SUBSET Remote],
     pulls : [ok : BOOLEAN, open : RemoteCommit \cup {None}, repo : Url \cup {None}]]
DiffType == [observed : SUBSET Part, skipped : SUBSET (Part \X (Remote \cup {None})),
             entries : SUBSET [kind : STRING, on : Seq(STRING), old : STRING, new : STRING,
                               run : BOOLEAN]]

RemoteTypeOK ==
    /\ remotes \in Configured
    /\ config \in {"launched", "rewritten", "broken"} /\ shallow \in BOOLEAN
    /\ servers \in [Url -> [Branch -> RemoteCommit \cup {None}]]
    /\ pulls \in [Url -> RemoteCommit \cup {None}]
    /\ bracket \in {"gone", "leg"}
    /\ pin.taken => Guarded /\ bracket = "leg"
    /\ leg \in [before : SnapshotType, ended : BOOLEAN, after : SnapshotType,
                 changes : DiffType]
    /\ between \in DiffType
    /\ exit \in {"none", "as scheduled", "forbidden", "interrupted"}
    /\ exit = "none" <=> ~leg.ended
    /\ remoteLegs \in 0..MaxRemoteLegs /\ events \in 0..MaxEvents

RecordLeg(before) == [before |-> before, ended |-> FALSE, after |-> Unavailable,
                      changes |-> NoDiff]
World == [remotes |-> remotes, shallow |-> shallow, servers |-> servers, pulls |-> pulls]

RemoteInit ==
    /\ remotes \in {f \in [Remote -> Url \cup {None}] : \E r \in Remote : f[r] # None}
    /\ config = "launched" /\ shallow = FALSE
    /\ servers = [u \in Url |-> [b \in Branch |-> None]]
    /\ pulls = [u \in Url |-> None]
    /\ bracket = "gone" /\ pin = NoPin
    /\ leg = RecordLeg(Unavailable) /\ between = NoDiff /\ exit = "none"
    /\ began = World /\ remoteLegs = 0 /\ events = 0

----------------------------------------------------------------------------
(* The world: nodes of the leg, other people, the user (external). *)

\* What happens after the last leg has ended reaches no snapshot.
Event == events < MaxEvents /\ events' = events + 1
         /\ (bracket = "leg" \/ remoteLegs < MaxRemoteLegs)
         /\ UNCHANGED <<bracket, pin, leg, between, exit, began, remoteLegs>>

Push(u, b, c) ==
    /\ Event /\ servers[u][b] # c
    /\ servers' = [servers EXCEPT ![u][b] = c]
    /\ UNCHANGED <<remotes, config, shallow, pulls>>

PullRequest(u, c) ==
    /\ Event /\ pulls[u] # c
    /\ pulls' = [pulls EXCEPT ![u] = c]
    /\ UNCHANGED <<remotes, config, shallow, servers>>

Configure(r, u) ==
    /\ Event /\ remotes[r] # u
    /\ remotes' = [remotes EXCEPT ![r] = u]
    /\ UNCHANGED <<config, shallow, servers, pulls>>

Tamper ==
    /\ Event /\ bracket = "leg"
    /\ \/ config' \in {"rewritten", "broken"} \ {config} /\ UNCHANGED shallow
       \/ ~shallow /\ shallow' = TRUE /\ UNCHANGED config
    /\ UNCHANGED <<remotes, servers, pulls>>

----------------------------------------------------------------------------
(* Taking a snapshot: takeRemoteSnapshotThrough. *)

\* The repository git talks to for a URL it reads inside the repository, which
\* is also the URL `git remote -v` prints.
Reaches(u) == IF u # None /\ config = "rewritten" THEN Mirror ELSE u

Listed == {r \in Remote : remotes[r] # None}
Pinned(p) == {r \in Remote : p.urls[r] # None}

TakeRemotes == IF config = "broken" THEN NoRemotes
               ELSE [ok |-> TRUE, at |-> [r \in Remote |-> Reaches(remotes[r])]]

\* readOutsideRepo: the config is not the one the before read the URLs under.
ReadOutsideRepo(p) == config # p.config

\* takeBranches: the before's remotes through the before's URLs, the others by
\* name; a guarded after still reads the former when no remote can be listed.
ReadFromByName(p) == [r \in Remote |-> IF config = "broken" THEN None ELSE Reaches(remotes[r])]
ReadFrom(p) == [r \in Remote |->
    IF r \in Pinned(p)
    THEN IF ReadOutsideRepo(p) THEN p.urls[r] ELSE Reaches(p.urls[r])
    ELSE IF config = "broken" THEN None ELSE Reaches(remotes[r])]

TakeBranches(p, down) ==
    LET from == ReadFrom(p) IN
    IF \/ config = "broken" /\ Pinned(p) = {}
       \/ \E r \in Remote : from[r] \in down
    THEN NoBranches
    ELSE [ok |-> TRUE, through |-> Pinned(p),
          refs |-> [r \in Remote |->
              IF from[r] = None THEN NoRefs[r] ELSE servers[from[r]]]]

\* expectGHRepo: gh is asked only when the remotes name one repository.
ExpectGHRepo == LET named == {Reaches(remotes[r]) : r \in Listed}
                IN IF config # "broken" /\ Cardinality(named) = 1
                   THEN CHOOSE u \in named : TRUE ELSE None
TakePullRequests(answers) ==
    IF ExpectGHRepo = None \/ ~answers THEN NoPulls
    ELSE [ok |-> TRUE, open |-> pulls[ExpectGHRepo], repo |-> ExpectGHRepo]

TakeSnapshot(p, down, answers) ==
    [remotes |-> TakeRemotes, branches |-> TakeBranches(p, down),
     pulls |-> TakePullRequests(answers)]

TakePin == [taken |-> TRUE, config |-> config, shallow |-> shallow,
            urls |-> IF config = "broken" THEN NoPin.urls
                     ELSE [r \in Remote |-> Reaches(remotes[r])]]

----------------------------------------------------------------------------
(* Diffing two snapshots. *)

Entry(kind, on, old, new, run) == [kind |-> kind, on |-> on, old |-> old, new |-> new,
                                   run |-> run]

DiffRemotes(before, after) ==
    {Entry(IF before.at[r] = None THEN "remote_added"
           ELSE IF after.at[r] = None THEN "remote_removed" ELSE "remote_url_changed",
           <<r>>, before.at[r], after.at[r], FALSE)
        : r \in {r \in Remote : before.at[r] # after.at[r]}}

\* The remotes whose refs on both sides come from the same repository.
Compared(before, after) == {r \in Remote :
    /\ before.remotes.at[r] # None
    /\ r \in after.branches.through \/ before.remotes.at[r] = after.remotes.at[r]}
Skipped(before, after) == {r \in Remote :
    /\ before.remotes.at[r] # None \/ after.remotes.at[r] # None
    /\ \/ r \notin Compared(before, after)
       \/ after.remotes.at[r] \notin {None, before.remotes.at[r]}}

DiffBranches(before, after, attributed) ==
    LET moved == {rb \in Compared(before, after) \X Branch :
            before.branches.refs[rb[1]][rb[2]] # after.branches.refs[rb[1]][rb[2]]}
        old(rb) == before.branches.refs[rb[1]][rb[2]]
        new(rb) == after.branches.refs[rb[1]][rb[2]]
    IN {Entry(IF old(rb) = None THEN "branch_created"
              ELSE IF new(rb) = None THEN "branch_deleted" ELSE "branch_moved",
              rb, old(rb), new(rb), new(rb) \in attributed) : rb \in moved}

DiffPullRequests(before, after, attributed) ==
    IF before.open = after.open THEN {}
    ELSE {Entry(IF before.open = None THEN "pr_opened"
                ELSE IF after.open = None THEN "pr_no_longer_open" ELSE "pr_updated",
                <<before.repo>>, before.open, after.open, after.open \in attributed)}

DiffRemoteSnapshots(before, after, attributed) ==
    LET ok == [remotes |-> before.remotes.ok /\ after.remotes.ok,
               branches |-> before.branches.ok /\ after.branches.ok
                            /\ before.remotes.ok /\ after.remotes.ok,
               pull_requests |-> before.pulls.ok /\ after.pulls.ok
                                 /\ before.pulls.repo = after.pulls.repo]
    IN [observed |-> {p \in Part : ok[p]},
        entries |->
            (IF ok.remotes THEN DiffRemotes(before.remotes, after.remotes) ELSE {})
            \cup (IF ok.branches THEN DiffBranches(before, after, attributed) ELSE {})
            \cup (IF ok.pull_requests
                  THEN DiffPullRequests(before.pulls, after.pulls, attributed) ELSE {}),
        skipped |-> {<<p, None>> : p \in {p \in Part : ~ok[p]}}
            \cup IF ok.branches THEN {<<"branches", r>> : r \in Skipped(before, after)} ELSE {}]

\* A guarded after that could not list the remotes, but read the before's, is
\* compared as if they were still the before's - the remotes part excepted.
DiffGuardedRemoteSnapshots(before, after, attributed) ==
    LET standIn == [after EXCEPT !.remotes = before.remotes]
        diff == DiffRemoteSnapshots(before, standIn, attributed)
    IN IF /\ before.remotes.ok /\ ~after.remotes.ok
          /\ after.branches.ok /\ after.branches.through # {}
       THEN [diff EXCEPT !.observed = @ \ {"remotes"}, !.skipped = @ \cup {<<"remotes", None>>}]
       ELSE DiffRemoteSnapshots(before, after, attributed)

----------------------------------------------------------------------------
(* A leg: beginRemoteLeg, end, finish. *)

NothingAttributed == {}
\* BeginLeg: what moved since the last leg's after is never attributed.
BetweenLegs(before) ==
    IF leg.ended
    THEN DiffRemoteSnapshots(leg.after, before, NothingAttributed)
    ELSE [NoDiff EXCEPT !.skipped = {<<p, None>> : p \in Part}]

BeginLeg ==
    /\ bracket = "gone" /\ remoteLegs < MaxRemoteLegs /\ remoteLegs' = remoteLegs + 1
    /\ \E down \in SUBSET Url, answers \in BOOLEAN :
        LET before == TakeSnapshot(NoPin, down, answers)
        IN /\ leg' = RecordLeg(before)
           /\ between' = IF remoteLegs = 0 THEN NoDiff ELSE BetweenLegs(before)
    /\ pin' = IF Guarded THEN TakePin ELSE NoPin
    /\ exit' = "none" /\ began' = World
    /\ bracket' = "leg"
    /\ UNCHANGED <<world, events>>

\* CommitAttributable: a commit on one of the run's branches and not in the
\* base; a boundary moved into its ancestry, or a failed read, hides it.
Attributable(failed) == IF config = "broken" \/ failed \/ shallow THEN {} ELSE {"ours"}

AttributionUnavailable(failed) == config = "broken" \/ failed \/ shallow # pin.shallow

\* NoteAttributionUnavailable, on the parts whose verdict rests on attribution.
Noted(diff, failed) ==
    IF AttributionUnavailable(failed)
    THEN [diff EXCEPT !.skipped = @ \cup
             {<<p, None>> : p \in diff.observed \cap RunBranchPart}]
    ELSE diff

\* remoteEntryForbidden
Forbidden(e) == e.kind = "remote_added" \/ (e.kind \in {"branch_created", "pr_opened"} /\ e.run)

EndWith(after, diff, how) ==
    /\ leg' = [leg EXCEPT !.ended = TRUE, !.after = after, !.changes = diff]
    /\ exit' = how
    /\ bracket' = "gone" /\ pin' = NoPin /\ began' = World
    /\ UNCHANGED <<world, between, remoteLegs, events>>

FinishLeg ==
    /\ bracket = "leg"
    /\ \E down \in SUBSET Url, answers, failed \in BOOLEAN :
        LET after == TakeSnapshot(pin, down, answers)
            diff == IF Guarded
                    THEN Noted(DiffGuardedRemoteSnapshots(leg.before, after,
                                                          Attributable(failed)), failed)
                    ELSE DiffRemoteSnapshots(leg.before, after, Attributable(failed))
        IN EndWith(after, diff, IF Guarded /\ \E e \in diff.entries : Forbidden(e)
                                THEN "forbidden" ELSE "as scheduled")

\* An interrupted leg reads nothing, and records that it did not.
InterruptedRemoteSnapshot == Unavailable
Interrupt ==
    /\ bracket = "leg"
    /\ EndWith(InterruptedRemoteSnapshot,
               DiffRemoteSnapshots(leg.before, InterruptedRemoteSnapshot, {}), "interrupted")

RemoteCrash ==
    /\ bracket = "leg" /\ bracket' = "gone" /\ pin' = NoPin
    /\ UNCHANGED <<world, leg, between, exit, began, remoteLegs, events>>

RemoteNext ==
    \/ \E u \in Url, b \in Branch, c \in RemoteCommit \cup {None} : Push(u, b, c)
    \/ \E u \in Url, c \in {"ours", "theirs", None} : PullRequest(u, c)
    \/ \E r \in Remote, u \in Url \cup {None} : Configure(r, u)
    \/ Tamper
    \/ BeginLeg \/ FinishLeg \/ Interrupt \/ RemoteCrash

RemoteSpec == RemoteInit /\ [][RemoteNext]_remoteVars

----------------------------------------------------------------------------
(* What a record says to whom reads it. *)

\* A part that was compared, though nothing in it could be attributed.
NotAttributable(diff) == {s \in diff.skipped : s[2] = None /\ s[1] \in diff.observed}

\* GuardOfLeg: the parts a guarded leg claims, compared in every piece.
GuardOfLeg(diff) == {p \in diff.observed : \A s \in diff.skipped : s[1] # p}

\* remoteDiffSources, of the gap before a leg and the leg; one without an after
\* snapshot compared nothing.
NothingCompared == [NoDiff EXCEPT !.skipped = {<<p, None>> : p \in Part}]
OwnDiff(l) == IF l.ended THEN l.changes ELSE NothingCompared
RemoteDiffSources(l, gap) == IF remoteLegs > 1 THEN {gap, OwnDiff(l)} ELSE {OwnDiff(l)}

\* What the goal's assessor is told: a part is compared if every source saw all
\* of it, and named as not compared if one did not.  A goal's runs are auto runs,
\* which have no branches of their own and claim nothing that rests on them.
NotCompared(diff) == {s[1] : s \in diff.skipped \ NotAttributable(diff)}
RemoteChangesBlock(l, gap) ==
    LET sources == RemoteDiffSources(l, gap)
    IN [compared |-> {p \in Part : \A d \in sources : p \in d.observed \ NotCompared(d)},
        notCompared |-> UNION {NotCompared(d) : d \in sources},
        guarded |-> IF Guarded THEN GuardOfLeg(OwnDiff(l)) \ RunBranchPart ELSE {},
        entries |-> UNION {d.entries : d \in sources}]

----------------------------------------------------------------------------
(* Properties. *)

Ends == leg'.ended /\ ~leg.ended
Begins == remoteLegs' # remoteLegs /\ remoteLegs > 0

\* "a node that removes or re-points a remote after pushing to it cannot hide
\* the push" (remoteLeg), nor one that rewrites or breaks the config or moves
\* the shallow boundary: a guarded leg that claims a part as guarded failed if
\* a commit of the run became a new branch, or a new pull request, of a remote
\* listed at its start - or a remote was added - and still is there.  (A
\* boundary already moved when the leg starts is believed to be the
\* repository's own: "shallow at the before, and unchanged, is attributed as
\* any other".)
NothingHidden(before, claims) ==
    /\ "branches" \in claims => \A r \in Remote, b \in Branch :
        before.remotes.at[r] # None =>
            ~(began.servers[before.remotes.at[r]][b] = None
              /\ servers[before.remotes.at[r]][b] = "ours")
    /\ "pull_requests" \in claims =>
        ~(began.pulls[before.pulls.repo] = None /\ pulls[before.pulls.repo] = "ours")
    /\ "remotes" \in claims => \A r \in Remote :
        before.remotes.at[r] = None => remotes[r] = None
\* "and nothing else is ever forbidden": what other people push while the leg
\* runs, or anyone while none runs, fails no leg.
GuardHolds == Guarded /\ Ends =>
    /\ exit' = "as scheduled" /\ ~began.shallow =>
        NothingHidden(leg.before, GuardOfLeg(leg'.changes))
    /\ exit' = "forbidden" =>
        \/ \E u \in Url, b \in Branch : began.servers[u][b] = None /\ servers[u][b] = "ours"
        \/ \E u \in Url : began.pulls[u] = None /\ pulls[u] = "ours"
        \/ \E r \in Remote : began.remotes[r] = None /\ remotes[r] # None

\* The record is exact: on what a diff says it compared, its entries take the
\* one snapshot to the other and nothing more - between legs, which attributes
\* nothing, as well.
EntryKinds == [remotes |-> {"remote_added", "remote_removed", "remote_url_changed"},
               branches |-> {"branch_created", "branch_moved", "branch_deleted"},
               pull_requests |-> {"pr_opened", "pr_updated", "pr_no_longer_open"}]
About(diff, p, on) == {e \in diff.entries : e.kind \in EntryKinds[p] /\ e.on = on}
Patched(diff, p, on, was) ==
    IF About(diff, p, on) = {} THEN was ELSE (CHOOSE e \in About(diff, p, on) : TRUE).new
Exact(before, after, diff) ==
    /\ "remotes" \in diff.observed => \A r \in Remote :
        after.remotes.at[r] = Patched(diff, "remotes", <<r>>, before.remotes.at[r])
    /\ "branches" \in diff.observed => \A r \in Remote, b \in Branch :
        \/ <<"branches", r>> \in diff.skipped \/ before.remotes.at[r] = None
        \/ after.branches.refs[r][b] =
               Patched(diff, "branches", <<r, b>>, before.branches.refs[r][b])

\* "so the block never reads as no changes where the engine could not see": a
\* part the assessor is told was compared, and is shown no entry of, is as it
\* was when the leg began, for the remotes listed then; and no part goes unnamed.
Silent(block, p) == p \in block.compared /\ \A e \in block.entries : e.kind \notin EntryKinds[p]
NothingMoved(before, block) ==
    /\ block.compared \cup block.notCompared = Part
    /\ Silent(block, "remotes") => \A r \in Remote : Reaches(remotes[r]) = before.remotes.at[r]
    /\ Silent(block, "branches") => \A r \in Remote :
        before.remotes.at[r] # None => servers[before.remotes.at[r]] = began.servers[before.remotes.at[r]]
    /\ Silent(block, "pull_requests") => pulls[before.pulls.repo] = began.pulls[before.pulls.repo]
AssessorTold == Ends => NothingMoved(leg.before, RemoteChangesBlock(leg', between'))

\* "so the record never reads `no change`": a leg that ended without reading its
\* remotes, and the gap after a leg that never ended, claim no part.
RecordIsExact ==
    /\ Ends => Exact(leg.before, leg'.after, leg'.changes)
    /\ Ends /\ exit' = "interrupted" => leg'.changes.observed = {}
    /\ Begins => /\ leg.ended => Exact(leg.after, leg'.before, between')
                 /\ exit \in {"interrupted", "none"} => between'.observed = {}
                 /\ \A e \in between'.entries : ~e.run

\* A guarded leg that passes hid nothing, its record is exact, and the assessor
\* is told no less.
RemotesJudged == [][GuardHolds /\ RecordIsExact /\ AssessorTold]_remoteVars
=============================================================================
