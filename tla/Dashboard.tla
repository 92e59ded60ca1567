------------------------------ MODULE Dashboard ------------------------------
(***************************************************************************)
(* `serve`'s dashboard: one connection sweeps the runs root, and redraws a *)
(* run's card only when the stamps of its two files moved.  A sweep is     *)
(* several observations -- the listing, each stamp, the directory again,   *)
(* then the stream, the snapshot and the lock behind the card -- of runs   *)
(* that start, write, die and are deleted meanwhile.  The page keeps its   *)
(* tiles across a reconnect and prunes what the replay does not name.      *)
(***************************************************************************)
EXTENDS Naturals

CONSTANTS
    Shown,      \* the run directories
    MaxLines,   \* bound: lines on a run's stream
    MaxSaves,   \* bound: snapshots written by a run
    MaxConnects \* bound: connections

ASSUME DashAssumption ==
    /\ Shown # {} /\ MaxLines \in Nat /\ MaxSaves \in Nat /\ MaxConnects \in Nat \ {0}

VARIABLES
    tree,     \* each run's directory, its two files and its lock
    sweep,    \* where the connection's sweep is, and what it holds in its locals
    seen,     \* the connection's stamps
    tiles,    \* the page's cards
    replayed, \* the runs this connection has named
    quiet,    \* history: whether nothing moved since the sweep began
    missed    \* history: the runs whose directory was gone when it was confirmed

dashVars == <<tree, sweep, seen, tiles, replayed, quiet, missed>>

NoStamp == [feed |-> 0, save |-> 0]
Stamp == [feed : 0..(MaxLines + 1), save : 0..MaxSaves]
Unseen == [feed |-> 0, save |-> MaxSaves + 1]
LegEnd == {"paused", "passed", "failed"}
OpenPhase == {"planning", "running"}

\* feed: 0 is no file, 1 an empty one, and each line adds one.  leg: what the
\* last line that speaks of a leg says.  done: every node passed.
Directory == [dir : {"none", "there", "going", "gone"}, feed : 0..(MaxLines + 1), leg : {"none"} \cup OpenPhase \cup LegEnd,
              save : 0..MaxSaves, done : BOOLEAN, held : BOOLEAN]
Unborn == [dir |-> "none", feed |-> 0, leg |-> "none", save |-> 0, done |-> FALSE, held |-> FALSE]

\* The parts of a directory that a card is built from.
Phase == {"none"} \cup OpenPhase \cup LegEnd
Walked == [feed : 0..(MaxLines + 1), leg : Phase]
Loaded == [save : 0..MaxSaves, done : BOOLEAN]
WalkOf(r) == [feed |-> tree[r].feed, leg |-> tree[r].leg]
LoadOf(r) == [save |-> tree[r].save, done |-> tree[r].done]
Unread == [walked |-> [feed |-> 0, leg |-> "none"], loaded |-> [save |-> 0, done |-> FALSE]]

CardState == {"pending", "planning", "running", "abandoned", "paused", "passed", "failed"}
Card == [state : CardState, stamp : Stamp]
NoCard == [state |-> "none", stamp |-> NoStamp]

DashTypeOK ==
    /\ tree \in [Shown -> Directory]
    /\ sweep \in [at : {"list", "pick", "stamp", "confirm", "walk", "load", "probe", "rest"},
                  first : BOOLEAN, todo : SUBSET Shown, present : SUBSET Shown,
                  run : Shown, stamp : Stamp, walked : Walked, loaded : Loaded, connects : 1..MaxConnects]
    /\ seen \in [Shown -> Stamp \cup {Unseen}]
    /\ tiles \in [Shown -> Card \cup {NoCard}]
    /\ replayed \subseteq Shown /\ quiet \in BOOLEAN /\ missed \subseteq Shown

FirstSweep(connects) ==
    [at |-> "list", first |-> TRUE, todo |-> {}, present |-> {}, run |-> CHOOSE r \in Shown : TRUE,
     stamp |-> NoStamp, walked |-> Unread.walked, loaded |-> Unread.loaded, connects |-> connects]

DashInit ==
    /\ tree = [r \in Shown |-> Unborn]
    /\ sweep = FirstSweep(1)
    /\ seen = [r \in Shown |-> Unseen]
    /\ tiles = [r \in Shown |-> NoCard]
    /\ replayed = {} /\ quiet = TRUE /\ missed = {}

----------------------------------------------------------------------------
(* The runs, as their directories show them. *)

Moves(r, d) ==
    /\ tree' = [tree EXCEPT ![r] = d] /\ quiet' = FALSE
    /\ UNCHANGED <<sweep, seen, tiles, replayed, missed>>

\* A leg takes the lock, and makes the directory and the stream if it must.
OpenLeg(r) ==
    /\ ~tree[r].held
    /\ tree[r].dir = "none" \/ (tree[r].dir = "there" /\ tree[r].save > 0 /\ ~tree[r].done)
    /\ Moves(r, [tree[r] EXCEPT !.dir = "there", !.held = TRUE,
                                !.feed = IF @ = 0 THEN 1 ELSE @])

\* Emit: a leg opens, a node starts or ends, or the leg closes.
Emit(r, leg) ==
    /\ tree[r].held /\ tree[r].feed <= MaxLines
    /\ leg \in LegEnd => tree[r].leg \in OpenPhase
    /\ leg = "planning" => tree[r].leg = "none"
    /\ Moves(r, [tree[r] EXCEPT !.feed = @ + 1, !.leg = leg])

SaveRun(r, done) ==
    /\ tree[r].held /\ tree[r].save < MaxSaves /\ ~tree[r].done
    /\ Moves(r, [tree[r] EXCEPT !.save = @ + 1, !.done = done])

ReleaseRun(r) ==
    /\ tree[r].held /\ tree[r].leg \notin OpenPhase
    /\ Moves(r, [tree[r] EXCEPT !.held = FALSE])

Die(r) ==
    /\ tree[r].held /\ tree[r].leg \in OpenPhase
    /\ Moves(r, [tree[r] EXCEPT !.held = FALSE])

\* rm -rf of a run nobody works on: its files, then the directory.
Delete(r) ==
    /\ tree[r].dir \in {"there", "going"} /\ ~tree[r].held
    /\ \/ /\ tree[r].feed > 0
          /\ Moves(r, [tree[r] EXCEPT !.dir = "going", !.feed = 0, !.leg = "none"])
       \/ /\ tree[r].save > 0
          /\ Moves(r, [tree[r] EXCEPT !.dir = "going", !.save = 0, !.done = FALSE])
       \/ tree[r].feed = 0 /\ tree[r].save = 0 /\ Moves(r, [Unborn EXCEPT !.dir = "gone"])

----------------------------------------------------------------------------
(* What a card says: walkNodeStates, the snapshot, and runstatus.Probe. *)

OpenState(walked, held) ==
    IF ~held THEN "abandoned" ELSE walked.leg
ClosedState(walked, loaded) ==
    IF walked.leg \in {"paused", "failed"} THEN walked.leg
    ELSE IF loaded.done THEN "passed" ELSE "failed"
StateOf(walked, loaded, held) ==
    IF walked.leg = "none" /\ loaded.save = 0 THEN "pending"
    ELSE IF walked.leg \in OpenPhase THEN OpenState(walked, held) ELSE ClosedState(walked, loaded)

CardOf(walked, loaded, held) ==
    [state |-> StateOf(walked, loaded, held), stamp |-> [feed |-> walked.feed, save |-> loaded.save]]

----------------------------------------------------------------------------
(* The sweep: handleCardEvents. *)

Step(fields) == sweep' = fields /\ UNCHANGED <<tree, quiet>>

ListRuns ==
    /\ sweep.at = "list"
    /\ LET listed == {r \in Shown : tree[r].dir \in {"there", "going"}} IN
       sweep' = [sweep EXCEPT !.at = "pick", !.todo = listed, !.present = listed]
    /\ quiet' = TRUE
    /\ UNCHANGED <<tree, missed, seen, tiles, replayed>>

\* stampRun stats the stream, then the snapshot.
StampFeed(r) ==
    /\ sweep.at = "pick" /\ r \in sweep.todo
    /\ Step([sweep EXCEPT !.at = "stamp", !.run = r, !.stamp.feed = tree[r].feed])
    /\ UNCHANGED <<seen, tiles, replayed, missed>>

StampSave ==
    /\ sweep.at = "stamp"
    /\ Step([sweep EXCEPT !.at = "confirm", !.stamp.save = tree[sweep.run].save])
    /\ UNCHANGED <<seen, tiles, replayed, missed>>

Done(fields) == [fields EXCEPT !.at = "pick", !.todo = @ \ {sweep.run}, !.stamp = NoStamp,
                               !.walked = Unread.walked, !.loaded = Unread.loaded]

UnconfirmedGone(r) == FALSE
RunDirGone(r) == tree[r].dir = "gone"

\* The directory is confirmed after the stamp, and before the unchanged stamp
\* is trusted.
Confirm ==
    /\ sweep.at = "confirm"
    /\ IF RunDirGone(sweep.run)
       THEN /\ Step(Done([sweep EXCEPT !.present = @ \ {sweep.run}]))
            /\ UNCHANGED seen
       ELSE /\ Step(IF seen[sweep.run] = sweep.stamp THEN Done(sweep)
                    ELSE [sweep EXCEPT !.at = "walk"])
            /\ seen' = [seen EXCEPT ![sweep.run] = sweep.stamp]
    /\ missed' = IF tree[sweep.run].dir = "gone" THEN missed \cup {sweep.run} ELSE missed
    /\ UNCHANGED <<tiles, replayed>>

\* buildCard: the stream, the snapshot, and the lock when the leg is open.
WalkStream ==
    /\ sweep.at = "walk"
    /\ Step([sweep EXCEPT !.at = "load", !.walked = WalkOf(sweep.run)])
    /\ UNCHANGED <<seen, tiles, replayed, missed>>

LoadRun ==
    /\ sweep.at = "load"
    /\ Step([sweep EXCEPT !.at = "probe", !.loaded = LoadOf(sweep.run)])
    /\ UNCHANGED <<seen, tiles, replayed, missed>>

SendCard ==
    /\ sweep.at = "probe"
    /\ tiles' = [tiles EXCEPT ![sweep.run] = CardOf(sweep.walked, sweep.loaded, tree[sweep.run].held)]
    /\ replayed' = replayed \cup {sweep.run}
    /\ Step(Done(sweep))
    /\ UNCHANGED <<seen, missed>>

\* card_removed for what the sweep no longer found; the first sweep's
\* cards_ready prunes what it never named.
Removed == {r \in Shown : seen[r] # Unseen /\ r \notin sweep.present}
Pruned == IF sweep.first THEN Shown \ replayed ELSE {}
FinishSweep ==
    /\ sweep.at = "pick" /\ sweep.todo = {}
    /\ seen' = [r \in Shown |-> IF r \in Removed THEN Unseen ELSE seen[r]]
    /\ tiles' = [r \in Shown |-> IF r \in Removed \cup Pruned THEN NoCard ELSE tiles[r]]
    /\ replayed' = replayed \ Removed
    /\ Step([sweep EXCEPT !.at = "rest", !.first = FALSE])
    /\ UNCHANGED missed

Poll ==
    /\ sweep.at = "rest"
    /\ Step([sweep EXCEPT !.at = "list", !.present = {}])
    /\ UNCHANGED <<seen, tiles, replayed, missed>>

\* The connection drops anywhere: its seen-set goes, the page's tiles stay.
Reconnect ==
    /\ sweep.connects < MaxConnects
    /\ Step(FirstSweep(sweep.connects + 1))
    /\ seen' = [r \in Shown |-> Unseen] /\ replayed' = {}
    /\ UNCHANGED <<tiles, missed>>

DashNext ==
    \/ \E r \in Shown :
        \/ OpenLeg(r) \/ ReleaseRun(r) \/ Die(r) \/ Delete(r) \/ StampFeed(r)
        \/ \E leg \in OpenPhase \cup LegEnd : Emit(r, leg)
        \/ \E done \in BOOLEAN : SaveRun(r, done)
    \/ ListRuns \/ StampSave \/ Confirm \/ WalkStream \/ LoadRun \/ SendCard \/ FinishSweep
    \/ Poll \/ Reconnect

DashSpec == DashInit /\ [][DashNext]_dashVars

----------------------------------------------------------------------------
(* Properties. *)

Current(r) == [feed |-> tree[r].feed, save |-> tree[r].save]

\* What a sweep leaves on the page, however the runs moved during it: a tile is
\* never behind a stamp that the connection takes for current, so no update is
\* skipped for good; and no run that was gone when it was stamped has one.
NoUpdateLost ==
    sweep.at = "rest" => \A r \in Shown :
        /\ tree[r].dir = "there" /\ seen[r] = Current(r) =>
              \E held \in BOOLEAN : tiles[r] = CardOf(WalkOf(r), LoadOf(r), held)
        /\ r \in missed => tiles[r] = NoCard
        /\ tiles[r] # NoCard <=> seen[r] # Unseen

\* runStamp: "size-and-modtime moves exactly when a card's inputs do".  After a
\* sweep during which nothing moved, the tiles say what the cards would.
CardsFollowTheirInputs ==
    sweep.at = "rest" /\ quiet => \A r \in Shown :
        tree[r].dir = "there" => tiles[r] = CardOf(WalkOf(r), LoadOf(r), tree[r].held)
=============================================================================
