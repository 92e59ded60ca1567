------------------------------ MODULE Worktree ------------------------------
(***************************************************************************)
(* The managed git checkouts of a run: one lane per `worktree:` name,      *)
(* created the first time a node of the leg asks for it, shared by the     *)
(* nodes that name it, torn down when the leg ends.  The manager's map     *)
(* dies with the process; the directory and the branch stay, so a later    *)
(* leg decides from the disk whether to reuse, attach or create.           *)
(*                                                                         *)
(* git itself is external: a branch is a name for a commit, HEAD is on a   *)
(* branch or detached, `worktree remove` refuses a tree with changes.      *)
(***************************************************************************)
EXTENDS Naturals, FiniteSets

CONSTANTS
    Lane,         \* the worktree names the graph declares
    MaxCommits,   \* bound: commits made in the repository, by anyone
    AllowDetach,  \* whether a node may leave its lane on a detached HEAD
    AllowForeign  \* whether a directory not ours may sit on a managed path

ASSUME WorktreeAssumption ==
    /\ IsFiniteSet(Lane) /\ MaxCommits \in Nat
    /\ {AllowDetach, AllowForeign} \subseteq BOOLEAN

VARIABLES
    manager,    \* "leg", "cleanup", or "gone" between legs
    created,    \* memory: GitManager.created, how each lane was provisioned
    baseSHA,    \* memory: the base of a lane created fresh
    doomed,     \* memory: the branch cleanupOne is about to delete
    dir,        \* disk: the directory at each lane's managed path
    head,       \* disk: each checkout's HEAD
    dirty,      \* disk: the lanes with uncommitted changes
    branches,   \* repository: the commit each lane branch names
    parent,     \* repository: each commit's parent
    commits,    \* repository: how many commits there are
    repoHead,   \* repository: HEAD of the invocation repository
    work,       \* history: the commits a node made in each lane
    strayed,    \* history: the lanes whose branch a node renamed or left
    dropped,    \* history: the lanes a leg was killed over
    adoptions   \* history: the lanes some leg found on disk

laneMemory == <<created, baseSHA, doomed>>
gitState == <<branches, parent, commits, repoHead>>
laneHistory == <<work, strayed, dropped, adoptions>>
worktreeVars == <<manager, laneMemory, dir, head, dirty, gitState, laneHistory>>

NoCommit == 0
Commit == 1..(MaxCommits + 1)
\* A lane's branches: the one Acquire creates (omg/<run>/<name>), and whatever
\* name a node may give instead.
Name == {"own", "other"}
Absent == [n \in Name |-> NoCommit]
NoHead == [on |-> "none", at |-> NoCommit]

WorktreeTypeOK ==
    /\ manager \in {"leg", "cleanup", "gone"}
    /\ created \in [Lane -> {"no", "fresh", "adopted"}]
    /\ baseSHA \in [Lane -> Commit \cup {NoCommit}]
    /\ doomed \in [Lane -> Name \cup {"none"}]
    /\ dir \in [Lane -> {"none", "checkout", "foreign"}]
    /\ head \in [Lane -> [on : Name \cup {"none", "detached"}, at : Commit \cup {NoCommit}]]
    /\ \A l \in Lane : dir[l] = "checkout" <=> head[l].at # NoCommit
    /\ dirty \subseteq Lane
    /\ branches \in [Lane -> [Name -> Commit \cup {NoCommit}]]
    /\ parent \in [Commit -> Commit \cup {NoCommit}]
    /\ commits \in Commit /\ repoHead \in Commit
    /\ work \in [Lane -> SUBSET Commit]
    /\ {strayed, dropped, adoptions} \subseteq SUBSET Lane

WorktreeInit ==
    /\ manager = "leg"
    /\ created = [l \in Lane |-> "no"]
    /\ baseSHA = [l \in Lane |-> NoCommit] /\ doomed = [l \in Lane |-> "none"]
    /\ dir \in [Lane -> IF AllowForeign THEN {"none", "foreign"} ELSE {"none"}]
    /\ head = [l \in Lane |-> NoHead] /\ dirty = {}
    /\ branches = [l \in Lane |-> Absent]
    /\ parent = [c \in Commit |-> NoCommit]
    /\ commits = 1 /\ repoHead = 1
    /\ work = [l \in Lane |-> {}]
    /\ strayed = {} /\ dropped = {} /\ adoptions = {}

\* The commits reachable from one: the least set that holds it and, with every
\* commit, that commit's parent.
Rooted(cs) == \A d \in cs : parent[d] # NoCommit => parent[d] \in cs
Lineage(c) == {d \in Commit : \A cs \in SUBSET Commit : c \in cs /\ Rooted(cs) => d \in cs}

----------------------------------------------------------------------------
(* Acquire. *)

Unprovisioned(l) == manager = "leg" /\ created[l] = "no"

AdoptsAny(l) == dir[l] # "none"
\* validateOwnWorktree: only a linked worktree of the invocation repository.
Adopts(l) == dir[l] = "checkout"

Reuse(l) ==
    /\ Unprovisioned(l) /\ Adopts(l)
    /\ created' = [created EXCEPT ![l] = "adopted"]
    /\ adoptions' = adoptions \cup {l}
    /\ UNCHANGED <<manager, baseSHA, doomed, dir, head, dirty, gitState, work, strayed,
                   dropped>>

BranchExists(l) == branches[l]["own"] # NoCommit

\* The branch a leg before this one retained: the lane continues from its tip.
Attach(l) ==
    /\ Unprovisioned(l) /\ dir[l] = "none" /\ BranchExists(l)
    /\ dir' = [dir EXCEPT ![l] = "checkout"]
    /\ head' = [head EXCEPT ![l] = [on |-> "own", at |-> branches[l]["own"]]]
    /\ created' = [created EXCEPT ![l] = "adopted"]
    /\ adoptions' = adoptions \cup {l}
    /\ UNCHANGED <<manager, baseSHA, doomed, dirty, gitState, work, strayed, dropped>>

Create(l) ==
    /\ Unprovisioned(l) /\ dir[l] = "none" /\ ~BranchExists(l)
    /\ dir' = [dir EXCEPT ![l] = "checkout"]
    /\ head' = [head EXCEPT ![l] = [on |-> "own", at |-> repoHead]]
    /\ branches' = [branches EXCEPT ![l]["own"] = repoHead]
    /\ baseSHA' = [baseSHA EXCEPT ![l] = repoHead]
    /\ created' = [created EXCEPT ![l] = "fresh"]
    /\ UNCHANGED <<manager, doomed, dirty, parent, commits, repoHead, laneHistory>>

----------------------------------------------------------------------------
(* What the nodes of a lane do in it, and the user beside it (external). *)

Working(l) == manager = "leg" /\ created[l] # "no"

NodeEdits(l) ==
    /\ Working(l) /\ dirty' = dirty \cup {l}
    /\ UNCHANGED <<manager, laneMemory, dir, head, gitState, laneHistory>>

NewCommit(on) ==
    /\ commits <= MaxCommits
    /\ commits' = commits + 1
    /\ parent' = [parent EXCEPT ![commits + 1] = on]

NodeCommits(l) ==
    /\ Working(l) /\ l \in dirty /\ NewCommit(head[l].at)
    /\ head' = [head EXCEPT ![l].at = commits + 1]
    /\ branches' = IF head[l].on = "detached" THEN branches
                   ELSE [branches EXCEPT ![l][head[l].on] = commits + 1]
    /\ work' = [work EXCEPT ![l] = @ \cup {commits + 1}]
    /\ dirty' = dirty \ {l}
    /\ UNCHANGED <<manager, laneMemory, dir, repoHead, strayed, dropped, adoptions>>

\* git branch -m
NodeRenames(l) ==
    /\ Working(l) /\ head[l].on = "own" /\ branches[l]["other"] = NoCommit
    /\ branches' = [branches EXCEPT ![l] = [own |-> NoCommit, other |-> head[l].at]]
    /\ head' = [head EXCEPT ![l].on = "other"]
    /\ strayed' = strayed \cup {l}
    /\ UNCHANGED <<manager, laneMemory, dir, dirty, parent, commits, repoHead, work, dropped,
                   adoptions>>

\* git checkout -b <other> <commit>
NodeBranches(l, c) ==
    /\ Working(l) /\ l \notin dirty /\ head[l].on = "own"
    /\ branches[l]["other"] = NoCommit /\ c \in Lineage(head[l].at)
    /\ branches' = [branches EXCEPT ![l]["other"] = c]
    /\ head' = [head EXCEPT ![l] = [on |-> "other", at |-> c]]
    /\ strayed' = strayed \cup {l}
    /\ UNCHANGED <<manager, laneMemory, dir, dirty, parent, commits, repoHead, work, dropped,
                   adoptions>>

\* git checkout <commit>
NodeDetaches(l, c) ==
    /\ AllowDetach /\ Working(l) /\ l \notin dirty /\ c \in Lineage(head[l].at)
    /\ head' = [head EXCEPT ![l] = [on |-> "detached", at |-> c]]
    /\ strayed' = strayed \cup {l}
    /\ UNCHANGED <<manager, laneMemory, dir, dirty, gitState, work, dropped, adoptions>>

UserCommits ==
    /\ NewCommit(repoHead) /\ repoHead' = commits + 1
    /\ UNCHANGED <<manager, laneMemory, dir, head, dirty, branches, laneHistory>>

----------------------------------------------------------------------------
(* Cleanup, when the leg ends; and the process's death. *)

EndLeg ==
    /\ manager = "leg" /\ manager' = "cleanup"
    /\ UNCHANGED <<laneMemory, dir, head, dirty, gitState, laneHistory>>

Pending(l) == manager = "cleanup" /\ created[l] # "no" /\ doomed[l] = "none"

\* git refuses to remove a checkout with uncommitted changes: it is left as is.
RemoveRefused(l) == l \in dirty

CleanupKeeps(l) ==
    /\ Pending(l) /\ RemoveRefused(l)
    /\ created' = [created EXCEPT ![l] = "no"]
    /\ UNCHANGED <<manager, baseSHA, doomed, dir, head, dirty, gitState, laneHistory>>

\* The checked-out branch, whatever it is called; detached, the one Acquire made.
CleanupBranch(l) == IF head[l].on = "detached" THEN "own" ELSE head[l].on

\* A lane this leg created, whose HEAD has not moved from its base.
ProvablyEmpty(l) == created[l] = "fresh" /\ head[l].at = baseSHA[l]

CleanupRemoves(l) ==
    /\ Pending(l) /\ ~RemoveRefused(l)
    /\ dir' = [dir EXCEPT ![l] = "none"] /\ head' = [head EXCEPT ![l] = NoHead]
    /\ dirty' = dirty \ {l}
    /\ IF ProvablyEmpty(l)
       THEN doomed' = [doomed EXCEPT ![l] = CleanupBranch(l)] /\ UNCHANGED created
       ELSE created' = [created EXCEPT ![l] = "no"] /\ UNCHANGED doomed
    /\ UNCHANGED <<manager, baseSHA, gitState, laneHistory>>

CleanupDeletes(l) ==
    /\ manager = "cleanup" /\ doomed[l] # "none"
    /\ branches' = [branches EXCEPT ![l][doomed[l]] = NoCommit]
    /\ created' = [created EXCEPT ![l] = "no"]
    /\ doomed' = [doomed EXCEPT ![l] = "none"]
    /\ UNCHANGED <<manager, baseSHA, dir, head, dirty, parent, commits, repoHead, laneHistory>>

Forget == /\ manager' = "gone"
          /\ created' = [l \in Lane |-> "no"]
          /\ baseSHA' = [l \in Lane |-> NoCommit] /\ doomed' = [l \in Lane |-> "none"]

CleanedUp ==
    /\ manager = "cleanup" /\ Forget
    /\ \A l \in Lane : created[l] = "no"
    /\ UNCHANGED <<dir, head, dirty, gitState, laneHistory>>

LaneCrash ==
    /\ manager # "gone" /\ Forget
    /\ dropped' = dropped \cup {l \in Lane : created[l] # "no"}
    /\ UNCHANGED <<dir, head, dirty, gitState, work, strayed, adoptions>>

NextLeg ==
    /\ manager = "gone" /\ manager' = "leg"
    /\ UNCHANGED <<laneMemory, dir, head, dirty, gitState, laneHistory>>

WorktreeNext ==
    \/ \E l \in Lane : Reuse(l) \/ Attach(l) \/ Create(l)
    \/ \E l \in Lane : NodeEdits(l) \/ NodeCommits(l) \/ NodeRenames(l)
    \/ \E l \in Lane, c \in Commit : NodeBranches(l, c) \/ NodeDetaches(l, c)
    \/ UserCommits
    \/ EndLeg
    \/ \E l \in Lane : CleanupKeeps(l) \/ CleanupRemoves(l) \/ CleanupDeletes(l)
    \/ CleanedUp \/ LaneCrash \/ NextLeg

WorktreeSpec == WorktreeInit /\ [][WorktreeNext]_worktreeVars

----------------------------------------------------------------------------
(* Properties. *)

Tips == {branches[l][n] : l \in Lane, n \in Name} \cup {head[l].at : l \in Lane}

\* "cleanup may remove directories but never work" (GitManager.Cleanup): every
\* commit a node made stays reachable from a branch or from a checkout's HEAD.
\* "so the lane continues its committed state" (Acquire's precedence): in any
\* leg a provisioned lane is a checkout of ours that holds everything nodes
\* committed in it before, unless a node took the lane off its branch.
WorkNeverLost == \A l \in Lane :
    /\ work[l] \subseteq UNION {Lineage(c) : c \in Tips \ {NoCommit}}
    /\ created[l] # "no" /\ doomed[l] = "none" /\ manager = "leg" =>
        /\ dir[l] = "checkout"
        /\ l \notin strayed => work[l] \subseteq Lineage(head[l].at)

\* "a provably-empty lane" leaves nothing behind, also when its branch was
\* renamed: between legs, a branch on which nothing was committed is there only
\* because a leg was killed over it, or left it dirty, or strayed off it.
NoEmptyLeftover == manager = "gone" => \A l \in Lane \ (dropped \cup adoptions \cup dirty) :
    work[l] = {} /\ dir[l] = "none" =>
        \/ branches[l] = Absent
        \/ l \in strayed /\ branches[l]["own"] # NoCommit

\* What outlives a leg is the work done in it, all of it and no more.
WorkAloneIsKept == WorkNeverLost /\ NoEmptyLeftover

(* A claim of the source that a run refutes. *)

\* "only a branch still exactly at its base - provably empty - is deleted"
\* (GitManager.Cleanup).
OnlyEmptyBranchDeleted == \A l \in Lane :
    doomed[l] # "none" => branches[l][doomed[l]] \in {baseSHA[l], NoCommit}
=============================================================================
