----------------------------- MODULE ViewProofs -----------------------------
(***************************************************************************)
(* What is proved of the views over the runs: of the dashboard, for any    *)
(* number of runs, lines, snapshots and connections, that however the runs *)
(* start, write, die and are deleted while a sweep reads them piece by     *)
(* piece, no update is lost; of the gates decided from a page or a         *)
(* terminal, for any number of each and any number of pauses, that each    *)
(* decision is made once, for the pause the run is in, by whoever holds    *)
(* its lock; of what a run changed on its remotes, for any remotes,        *)
(* servers, branches and legs, that a guarded leg which passes hid nothing *)
(* it vouches for, that the records are exact, and that the goal's         *)
(* assessor is told no less; and of the event stream, for any number of    *)
(* legs, events and torn writes, what its readers are told.                *)
(***************************************************************************)
EXTENDS Dashboard, GateDecision, RemoteChanges, RunFeed, FiniteSetTheorems, TLAPS

----------------------------------------------------------------------------
(* The dashboard. *)

\* A run whose card the sweep is building: confirmed, and not sent.
Building(r) == sweep.at \in {"walk", "load", "probe"} /\ sweep.run = r

\* A leg works in a directory that is there.
LockedInv == \A r \in Shown : tree[r].held => tree[r].dir = "there"

\* What was read of a stream that is still there is behind it, or is what it says:
\* no line is written without the size moving.  So for the snapshot.
WalkSound(r, w) ==
    /\ w \in Walked
    /\ seen[r].feed <= w.feed /\ w.feed <= tree[r].feed /\ (w.feed = tree[r].feed => w.leg = tree[r].leg)
LoadSound(r, l) ==
    /\ l \in Loaded
    /\ seen[r].save <= l.save /\ l.save <= tree[r].save /\ (l.save = tree[r].save => l.done = tree[r].done)

\* A stamp is not ahead of its files, and what is read after it is not behind it.
SweepInv ==
    /\ sweep.at = "stamp" /\ tree[sweep.run].dir = "there" => sweep.stamp.feed <= tree[sweep.run].feed
    /\ sweep.at = "confirm" /\ tree[sweep.run].dir = "there" =>
          sweep.stamp.feed <= tree[sweep.run].feed /\ sweep.stamp.save <= tree[sweep.run].save
    /\ sweep.at \in {"walk", "load", "probe"} => seen[sweep.run] = sweep.stamp
    /\ sweep.at = "walk" /\ tree[sweep.run].dir = "there" =>
          sweep.stamp.feed <= tree[sweep.run].feed /\ sweep.stamp.save <= tree[sweep.run].save
    /\ sweep.at = "load" /\ tree[sweep.run].dir = "there" =>
          sweep.stamp.save <= tree[sweep.run].save /\ WalkSound(sweep.run, sweep.walked)
    /\ sweep.at = "probe" /\ tree[sweep.run].dir = "there" =>
          WalkSound(sweep.run, sweep.walked) /\ LoadSound(sweep.run, sweep.loaded)

\* A tile is not behind the stamp it was built after.
TileInv == \A r \in Shown :
    tree[r].dir = "there" /\ seen[r] # Unseen /\ ~Building(r) =>
        \E w \in Walked, l \in Loaded, held \in BOOLEAN :
            tiles[r] = CardOf(w, l, held) /\ WalkSound(r, w) /\ LoadSound(r, l)

\* What the connection stamped it has named, or is about to; what it named has a
\* tile; and after its first sweep, nothing else has one.
NamedInv == \A r \in Shown :
    /\ seen[r] # Unseen => r \in replayed \/ Building(r)
    /\ r \in replayed => seen[r] # Unseen /\ tiles[r] # NoCard
    /\ ~sweep.first /\ tiles[r] # NoCard => seen[r] # Unseen

\* A run that was found gone is in no later sweep.
MissedInv == \A r \in missed :
    /\ tree[r].dir = "gone" /\ r \notin sweep.present /\ r \notin sweep.todo
    /\ sweep.at \in {"stamp", "confirm", "walk", "load", "probe"} => sweep.run # r
    /\ sweep.at = "rest" => tiles[r] = NoCard

\* A run that does not exist yet is in no sweep.
UnbornInv == \A r \in Shown : tree[r].dir = "none" =>
    /\ seen[r] = Unseen /\ r \notin sweep.todo
    /\ sweep.at \in {"stamp", "confirm", "walk", "load", "probe"} => sweep.run # r

RestInv == sweep.at = "rest" => ~sweep.first

DashInv == DashTypeOK /\ LockedInv /\ UnbornInv /\ SweepInv /\ TileInv /\ NamedInv /\ MissedInv /\ RestInv

USE DashAssumption

----------------------------------------------------------------------------
(* Cards and stamps. *)

\* Whatever was read, the card has a state and a stamp.
LEMMA CardIsCard ==
    ASSUME NEW w \in Walked, NEW l \in Loaded, NEW held \in BOOLEAN
    PROVE  CardOf(w, l, held) \in Card /\ CardOf(w, l, held) # NoCard
<1>1. /\ w.leg \in Phase /\ w.feed \in 0..(MaxLines + 1) /\ l.save \in 0..MaxSaves
  BY DEF Walked, Loaded
<1>2. StateOf(w, l, held) \in CardState
  BY <1>1 DEF StateOf, OpenState, ClosedState, CardState, Phase, OpenPhase, LegEnd
<1>3. [feed |-> w.feed, save |-> l.save] \in Stamp
  BY <1>1 DEF Stamp
<1>4. CardOf(w, l, held) \in Card /\ CardOf(w, l, held).state \in CardState
  BY <1>2, <1>3 DEF CardOf, Card
<1> QED BY <1>4 DEF NoCard, CardState

\* What stands for no stamp and no card is neither.
LEMMA NeverAStamp ==
    /\ Unseen \notin Stamp /\ NoCard \notin Card
    /\ NoStamp \in Stamp /\ NoStamp.feed = 0 /\ NoStamp.save = 0
<1>1. \A s \in Stamp : s.save <= MaxSaves /\ s.save \in Nat
  BY DEF Stamp
<1>2. Unseen.save = MaxSaves + 1
  BY DEF Unseen
<1>3. NoStamp \in Stamp /\ NoStamp.feed = 0 /\ NoStamp.save = 0
  BY DEF NoStamp, Stamp
<1>4. \A c \in Card : c.state \in CardState
  BY DEF Card
<1> QED BY <1>1, <1>2, <1>3, <1>4 DEF NoCard, CardState

\* A connection begins with its listing.
LEMMA FirstSweeps ==
    ASSUME NEW n \in 1..MaxConnects
    PROVE  /\ FirstSweep(n).at = "list" /\ FirstSweep(n).first /\ FirstSweep(n).present = {} /\ FirstSweep(n).todo = {}
           /\ FirstSweep(n) \in [at : {"list", "pick", "stamp", "confirm", "walk", "load", "probe", "rest"},
                  first : BOOLEAN, todo : SUBSET Shown, present : SUBSET Shown,
                  run : Shown, stamp : Stamp, walked : Walked, loaded : Loaded, connects : 1..MaxConnects]
<1>1. (CHOOSE r \in Shown : TRUE) \in Shown
  OBVIOUS
<1>2. Unread.walked \in Walked /\ Unread.loaded \in Loaded
  BY DEF Unread, Walked, Loaded, Phase
<1> QED BY <1>1, <1>2, NeverAStamp DEF FirstSweep

LEMMA DashInitHolds == DashInit => DashInv
<1> SUFFICES ASSUME DashInit PROVE DashInv
  OBVIOUS
<1>1. Unborn \in Directory /\ ~Unborn.held
  BY DEF Unborn, Directory
<1>2. 1 \in 1..MaxConnects
  OBVIOUS
<1>3. DashTypeOK
  BY <1>1, <1>2, FirstSweeps DEF DashInit, DashTypeOK
<1>4. sweep.at = "list" /\ sweep.first /\ sweep.todo = {}
  BY <1>2, FirstSweeps DEF DashInit
<1> QED BY <1>1, <1>3, <1>4 DEF DashInit, DashInv, LockedInv, UnbornInv, SweepInv, TileInv, NamedInv, MissedInv, RestInv, Building

----------------------------------------------------------------------------
(* The runs move under the sweep. *)

\* How a directory may change: what is there only grows, and no line and no
\* snapshot is written without its stamp moving.
Evolves(old, new) ==
    /\ new.held => new.dir = "there"
    /\ new.dir = "there" =>
          /\ old.dir \in {"none", "there"}
          /\ old.feed <= new.feed /\ (old.feed = new.feed => old.leg = new.leg)
          /\ old.save <= new.save /\ (old.save = new.save => old.done = new.done)
    /\ new.dir = "none" => old.dir = "none"
    /\ old.dir = "gone" => new.dir = "gone"

\* What was read soundly stays sound while the files grow.
LEMMA SoundStays ==
    ASSUME DashTypeOK, DashTypeOK', NEW r \in Shown, seen' = seen,
           tree'[r].feed >= tree[r].feed, tree'[r].feed = tree[r].feed => tree'[r].leg = tree[r].leg,
           tree'[r].save >= tree[r].save, tree'[r].save = tree[r].save => tree'[r].done = tree[r].done
    PROVE  /\ \A w : WalkSound(r, w) => WalkSound(r, w)'
           /\ \A l : LoadSound(r, l) => LoadSound(r, l)'
<1>1. /\ tree[r].feed \in Nat /\ tree'[r].feed \in Nat /\ tree[r].save \in Nat /\ tree'[r].save \in Nat
  BY DEF DashTypeOK, Directory
<1>2. \A w \in Walked : w.feed \in Nat
  BY DEF Walked
<1>3. \A l \in Loaded : l.save \in Nat
  BY DEF Loaded
<1> QED BY <1>1, <1>2, <1>3 DEF WalkSound, LoadSound

\* A run that moves as runs do disturbs no sweep.
LEMMA MovesKeep ==
    ASSUME DashInv, NEW r \in Shown, NEW d \in Directory, Moves(r, d), Evolves(tree[r], d)
    PROVE  DashInv'
<1> USE DEF DashInv
<1>1. /\ tree \in [Shown -> Directory] /\ tree' \in [Shown -> Directory] /\ tree'[r] = d
      /\ \A s \in Shown \ {r} : tree'[s] = tree[s]
      /\ UNCHANGED <<sweep, seen, tiles, replayed, missed>> /\ quiet' = FALSE
  BY DEF Moves, DashTypeOK
<1>2. DashTypeOK'
  BY <1>1 DEF DashTypeOK
<1>3. LockedInv'
  BY <1>1 DEF LockedInv, Evolves
<1>4. UnbornInv'
  BY <1>1 DEF UnbornInv, Evolves
<1>5. MissedInv' /\ RestInv' /\ NamedInv'
  BY <1>1, <1>2 DEF MissedInv, RestInv, NamedInv, Building, Evolves, DashTypeOK
<1>6. ASSUME NEW s \in Shown, tree'[s].dir = "there", tree[s].dir # "none"
      PROVE  /\ tree[s].dir = "there" /\ tree'[s].feed >= tree[s].feed /\ tree'[s].save >= tree[s].save
             /\ \A w : WalkSound(s, w) => WalkSound(s, w)'
             /\ \A l : LoadSound(s, l) => LoadSound(s, l)'
  <2>1. /\ tree[s].dir = "there" /\ tree'[s].feed >= tree[s].feed /\ tree'[s].save >= tree[s].save
        /\ tree'[s].feed = tree[s].feed => tree'[s].leg = tree[s].leg
        /\ tree'[s].save = tree[s].save => tree'[s].done = tree[s].done
    <3>1. CASE s = r
      BY <1>1, <1>6, <3>1 DEF Evolves
    <3>2. CASE s # r
      BY <1>1, <1>6, <3>2 DEF Directory
    <3> QED BY <3>1, <3>2
  <2> QED BY <1>1, <1>2, <2>1, SoundStays
<1>7. TileInv'
  <2> SUFFICES ASSUME NEW s \in Shown, tree'[s].dir = "there", seen[s] # Unseen, ~Building(s)
               PROVE  \E w \in Walked, l \in Loaded, held \in BOOLEAN :
                          tiles[s] = CardOf(w, l, held) /\ WalkSound(s, w)' /\ LoadSound(s, l)'
    BY <1>1 DEF TileInv, Building
  <2>1. tree[s].dir # "none"
    BY DEF UnbornInv
  <2>2. PICK w \in Walked, l \in Loaded, held \in BOOLEAN :
            tiles[s] = CardOf(w, l, held) /\ WalkSound(s, w) /\ LoadSound(s, l)
    BY <1>6, <2>1 DEF TileInv
  <2> QED BY <1>6, <2>1, <2>2
<1>8. SweepInv'
  <2> SUFFICES ASSUME NEW s \in Shown, s = sweep.run PROVE SweepInv'
    BY DEF DashTypeOK
  <2>1. s \in Shown /\ sweep.stamp.feed \in Nat /\ sweep.stamp.save \in Nat
        /\ tree[s].feed \in Nat /\ tree'[s].feed \in Nat /\ tree[s].save \in Nat /\ tree'[s].save \in Nat
    BY <1>1 DEF DashTypeOK, Stamp, Directory
  <2>2. sweep.at \in {"stamp", "confirm", "walk", "load", "probe"} => tree[s].dir # "none"
    BY <2>1 DEF UnbornInv
  <2>3. CASE tree'[s].dir = "there" /\ sweep.at \in {"stamp", "confirm", "walk", "load", "probe"}
    <3>1. /\ tree[s].dir = "there" /\ tree'[s].feed >= tree[s].feed /\ tree'[s].save >= tree[s].save
          /\ \A w : WalkSound(s, w) => WalkSound(s, w)'
          /\ \A l : LoadSound(s, l) => LoadSound(s, l)'
      BY <1>6, <2>1, <2>2, <2>3
    <3> QED BY <1>1, <2>1, <2>3, <3>1 DEF SweepInv, WalkSound, LoadSound
  <2>4. CASE ~(tree'[s].dir = "there" /\ sweep.at \in {"stamp", "confirm", "walk", "load", "probe"})
    BY <1>1, <2>4 DEF SweepInv
  <2> QED BY <2>3, <2>4
<1> QED BY <1>2, <1>3, <1>4, <1>5, <1>7, <1>8

\* Every step of a run moves it so.
LEMMA RunsMove ==
    ASSUME DashInv, NEW r \in Shown,
           \/ OpenLeg(r) \/ ReleaseRun(r) \/ Die(r) \/ Delete(r)
           \/ \E to \in OpenPhase \cup LegEnd : Emit(r, to)
           \/ \E done \in BOOLEAN : SaveRun(r, done)
    PROVE  DashInv'
<1> USE DEF DashInv
<1>1. tree[r] \in Directory /\ (tree[r].held => tree[r].dir = "there")
  BY DEF DashTypeOK, LockedInv
<1>2. tree[r].feed \in 0..(MaxLines + 1) /\ tree[r].save \in 0..MaxSaves
  BY <1>1 DEF Directory
<1>3. CASE OpenLeg(r)
  <2> DEFINE d == [tree[r] EXCEPT !.dir = "there", !.held = TRUE, !.feed = IF @ = 0 THEN 1 ELSE @]
  <2>1. Moves(r, d) /\ tree[r].dir \in {"none", "there"}
    BY <1>3 DEF OpenLeg
  <2>2. d \in Directory
    <3>1. (IF tree[r].feed = 0 THEN 1 ELSE tree[r].feed) \in 0..(MaxLines + 1)
      BY <1>2
    <3> QED BY <1>1, <3>1 DEF Directory
  <2>3. Evolves(tree[r], d)
    BY <1>1, <1>2, <2>1 DEF Evolves, Directory
  <2> QED BY <2>1, <2>2, <2>3, MovesKeep
<1>4. CASE ReleaseRun(r) \/ Die(r)
  <2> DEFINE d == [tree[r] EXCEPT !.held = FALSE]
  <2>1. Moves(r, d) /\ tree[r].dir = "there"
    BY <1>1, <1>4 DEF ReleaseRun, Die
  <2>2. d \in Directory
    BY <1>1 DEF Directory
  <2>3. Evolves(tree[r], d)
    BY <1>1, <1>2, <2>1 DEF Evolves, Directory
  <2> QED BY <2>1, <2>2, <2>3, MovesKeep
<1>5. ASSUME NEW to \in OpenPhase \cup LegEnd, Emit(r, to) PROVE DashInv'
  <2> DEFINE d == [tree[r] EXCEPT !.feed = @ + 1, !.leg = to]
  <2>1. Moves(r, d) /\ tree[r].dir = "there" /\ tree[r].feed <= MaxLines
    BY <1>1, <1>5 DEF Emit
  <2>2. d \in Directory
    <3>1. tree[r].feed + 1 \in 0..(MaxLines + 1) /\ to \in {"none"} \cup OpenPhase \cup LegEnd
      BY <1>2, <2>1
    <3> QED BY <1>1, <3>1 DEF Directory
  <2>3. Evolves(tree[r], d)
    BY <1>1, <1>2, <2>1 DEF Evolves, Directory
  <2> QED BY <2>1, <2>2, <2>3, MovesKeep
<1>6. ASSUME NEW done \in BOOLEAN, SaveRun(r, done) PROVE DashInv'
  <2> DEFINE d == [tree[r] EXCEPT !.save = @ + 1, !.done = done]
  <2>1. Moves(r, d) /\ tree[r].dir = "there" /\ tree[r].save < MaxSaves
    BY <1>1, <1>6 DEF SaveRun
  <2>2. d \in Directory
    <3>1. tree[r].save + 1 \in 0..MaxSaves
      BY <1>2, <2>1
    <3> QED BY <1>1, <3>1 DEF Directory
  <2>3. Evolves(tree[r], d)
    BY <1>1, <1>2, <2>1 DEF Evolves, Directory
  <2> QED BY <2>1, <2>2, <2>3, MovesKeep
<1>7. CASE Delete(r)
  <2>1. PICK d : /\ Moves(r, d) /\ tree[r].dir \in {"there", "going"} /\ ~tree[r].held
                 /\ \/ d = [tree[r] EXCEPT !.dir = "going", !.feed = 0, !.leg = "none"]
                    \/ d = [tree[r] EXCEPT !.dir = "going", !.save = 0, !.done = FALSE]
                    \/ d = [Unborn EXCEPT !.dir = "gone"]
    BY <1>7 DEF Delete
  <2>2. d \in Directory /\ d.dir \in {"going", "gone"} /\ ~d.held
    <3>1. 0 \in 0..(MaxLines + 1) /\ 0 \in 0..MaxSaves /\ "none" \in {"none"} \cup OpenPhase \cup LegEnd
      OBVIOUS
    <3>2. CASE d = [tree[r] EXCEPT !.dir = "going", !.feed = 0, !.leg = "none"]
      BY <1>1, <2>1, <3>1, <3>2 DEF Directory
    <3>3. CASE d = [tree[r] EXCEPT !.dir = "going", !.save = 0, !.done = FALSE]
      BY <1>1, <2>1, <3>1, <3>3 DEF Directory
    <3>4. CASE d = [Unborn EXCEPT !.dir = "gone"]
      BY <3>1, <3>4 DEF Directory, Unborn
    <3> QED BY <2>1, <3>2, <3>3, <3>4
  <2>3. Evolves(tree[r], d)
    BY <2>1, <2>2 DEF Evolves
  <2> QED BY <2>1, <2>2, <2>3, MovesKeep
<1> QED BY <1>3, <1>4, <1>5, <1>6, <1>7

----------------------------------------------------------------------------
(* The sweep reads. *)

Places == {"list", "pick", "stamp", "confirm", "walk", "load", "probe", "rest"}
SweepType == [at : Places, first : BOOLEAN, todo : SUBSET Shown, present : SUBSET Shown,
              run : Shown, stamp : Stamp, walked : Walked, loaded : Loaded, connects : 1..MaxConnects]

\* A card is built for one run: the tiles of the others stand.
LEMMA TilesStand ==
    ASSUME DashInv, tree' = tree, NEW r \in Shown, seen'[r] = seen[r], tiles'[r] = tiles[r],
           Building(r) => Building(r)'
    PROVE  tree'[r].dir = "there" /\ seen'[r] # Unseen /\ ~Building(r)' =>
              \E w \in Walked, l \in Loaded, held \in BOOLEAN :
                  tiles'[r] = CardOf(w, l, held) /\ WalkSound(r, w)' /\ LoadSound(r, l)'
<1> SUFFICES ASSUME tree[r].dir = "there", seen[r] # Unseen, ~Building(r)
             PROVE  \E w \in Walked, l \in Loaded, held \in BOOLEAN :
                        tiles'[r] = CardOf(w, l, held) /\ WalkSound(r, w)' /\ LoadSound(r, l)'
  OBVIOUS
<1>1. PICK w \in Walked, l \in Loaded, held \in BOOLEAN :
          tiles[r] = CardOf(w, l, held) /\ WalkSound(r, w) /\ LoadSound(r, l)
  BY DEF DashInv, TileInv
<1>2. WalkSound(r, w)' /\ LoadSound(r, l)'
  BY <1>1 DEF WalkSound, LoadSound
<1> QED BY <1>1, <1>2

LEMMA ListKeeps == ASSUME DashInv, ListRuns PROVE DashInv'
<1> USE DEF DashInv
<1>1. /\ sweep.at = "list" /\ sweep'.at = "pick" /\ sweep'.first = sweep.first
      /\ sweep'.todo = {r \in Shown : tree[r].dir \in {"there", "going"}} /\ sweep'.present = sweep'.todo
      /\ sweep' \in SweepType /\ quiet' \in BOOLEAN
      /\ UNCHANGED <<tree, missed, seen, tiles, replayed>>
  BY DEF ListRuns, DashTypeOK, SweepType, Places
<1>2. DashTypeOK'
  BY <1>1 DEF DashTypeOK, SweepType, Places
<1>3. LockedInv' /\ UnbornInv' /\ MissedInv' /\ RestInv' /\ SweepInv' /\ NamedInv'
  BY <1>1, <1>2 DEF LockedInv, UnbornInv, MissedInv, RestInv, SweepInv, NamedInv, Building, DashTypeOK
<1>4. TileInv'
  <2> SUFFICES ASSUME NEW r \in Shown
               PROVE  tree'[r].dir = "there" /\ seen'[r] # Unseen /\ ~Building(r)' =>
                         \E w \in Walked, l \in Loaded, held \in BOOLEAN :
                             tiles'[r] = CardOf(w, l, held) /\ WalkSound(r, w)' /\ LoadSound(r, l)'
    BY DEF TileInv
  <2> QED BY <1>1, TilesStand DEF Building
<1> QED BY <1>2, <1>3, <1>4

LEMMA StampFeedKeeps == ASSUME DashInv, NEW r \in Shown, StampFeed(r) PROVE DashInv'
<1> USE DEF DashInv
<1>0. tree[r].feed \in 0..(MaxLines + 1)
  BY DEF DashTypeOK, Directory
<1>1. /\ sweep.at = "pick" /\ r \in sweep.todo /\ sweep'.at = "stamp" /\ sweep'.first = sweep.first
      /\ sweep'.todo = sweep.todo /\ sweep'.present = sweep.present /\ sweep'.run = r
      /\ sweep'.stamp.feed = tree[r].feed
      /\ sweep' \in SweepType
      /\ UNCHANGED <<tree, missed, seen, tiles, replayed, quiet>>
  BY <1>0 DEF StampFeed, Step, DashTypeOK, SweepType, Places, Stamp
<1>2. DashTypeOK'
  BY <1>1 DEF DashTypeOK, SweepType, Places
<1>3. LockedInv' /\ UnbornInv' /\ MissedInv' /\ RestInv' /\ NamedInv'
  BY <1>1, <1>2 DEF LockedInv, UnbornInv, MissedInv, RestInv, NamedInv, Building, DashTypeOK
<1>4. SweepInv'
  BY <1>0, <1>1 DEF SweepInv
<1>5. TileInv'
  <2> SUFFICES ASSUME NEW s \in Shown
               PROVE  tree'[s].dir = "there" /\ seen'[s] # Unseen /\ ~Building(s)' =>
                         \E w \in Walked, l \in Loaded, held \in BOOLEAN :
                             tiles'[s] = CardOf(w, l, held) /\ WalkSound(s, w)' /\ LoadSound(s, l)'
    BY DEF TileInv
  <2> QED BY <1>1, TilesStand DEF Building
<1> QED BY <1>2, <1>3, <1>4, <1>5

LEMMA StampSaveKeeps == ASSUME DashInv, StampSave PROVE DashInv'
<1> USE DEF DashInv
<1>0. sweep.run \in Shown /\ tree[sweep.run].save \in 0..MaxSaves
  BY DEF DashTypeOK, Directory
<1>1. /\ sweep.at = "stamp" /\ sweep'.at = "confirm" /\ sweep'.first = sweep.first
      /\ sweep'.todo = sweep.todo /\ sweep'.present = sweep.present /\ sweep'.run = sweep.run
      /\ sweep'.stamp.feed = sweep.stamp.feed /\ sweep'.stamp.save = tree[sweep.run].save
      /\ sweep' \in SweepType
      /\ UNCHANGED <<tree, missed, seen, tiles, replayed, quiet>>
  BY <1>0 DEF StampSave, Step, DashTypeOK, SweepType, Places, Stamp
<1>2. DashTypeOK'
  BY <1>1 DEF DashTypeOK, SweepType, Places
<1>3. LockedInv' /\ UnbornInv' /\ MissedInv' /\ RestInv' /\ NamedInv'
  BY <1>1, <1>2 DEF LockedInv, UnbornInv, MissedInv, RestInv, NamedInv, Building, DashTypeOK
<1>4. SweepInv'
  BY <1>0, <1>1 DEF SweepInv
<1>5. TileInv'
  <2> SUFFICES ASSUME NEW s \in Shown
               PROVE  tree'[s].dir = "there" /\ seen'[s] # Unseen /\ ~Building(s)' =>
                         \E w \in Walked, l \in Loaded, held \in BOOLEAN :
                             tiles'[s] = CardOf(w, l, held) /\ WalkSound(s, w)' /\ LoadSound(s, l)'
    BY DEF TileInv
  <2> QED BY <1>1, TilesStand DEF Building
<1> QED BY <1>2, <1>3, <1>4, <1>5

\* A run is done with when its card was sent, or when there is none to send.
LEMMA Finished ==
    ASSUME DashTypeOK, NEW fields \in SweepType
    PROVE  /\ Done(fields) \in SweepType /\ Done(fields).at = "pick" /\ Done(fields).first = fields.first
           /\ Done(fields).todo = fields.todo \ {sweep.run} /\ Done(fields).present = fields.present
           /\ Done(fields).run = fields.run
<1>1. Unread.walked \in Walked /\ Unread.loaded \in Loaded
  BY DEF Unread, Walked, Loaded, Phase
<1> QED BY <1>1, NeverAStamp DEF Done, SweepType, Places

LEMMA ConfirmKeeps == ASSUME DashInv, Confirm PROVE DashInv'
<1> USE DEF DashInv
<1> DEFINE r == sweep.run
<1>0. /\ sweep.at = "confirm" /\ r \in Shown /\ sweep \in SweepType /\ sweep.stamp \in Stamp
      /\ seen \in [Shown -> Stamp \cup {Unseen}] /\ r \notin missed /\ missed \subseteq Shown
      /\ UNCHANGED <<tree, tiles, replayed, quiet>>
  BY DEF Confirm, Step, DashTypeOK, SweepType, Places, MissedInv
<1>1. CASE RunDirGone(r)
  <2>1. /\ [sweep EXCEPT !.present = @ \ {r}] \in SweepType
        /\ [sweep EXCEPT !.present = @ \ {r}].present = sweep.present \ {r}
        /\ [sweep EXCEPT !.present = @ \ {r}].first = sweep.first
        /\ [sweep EXCEPT !.present = @ \ {r}].todo = sweep.todo
    BY <1>0 DEF SweepType
  <2>2. /\ sweep' \in SweepType /\ sweep'.at = "pick" /\ sweep'.first = sweep.first
        /\ sweep'.todo = sweep.todo \ {r} /\ sweep'.present = sweep.present \ {r} /\ seen' = seen
    <3> DEFINE fields == [sweep EXCEPT !.present = @ \ {r}]
    <3>1. sweep' = Done(fields) /\ seen' = seen
      BY <1>1 DEF Confirm, Step
    <3>2. fields \in SweepType /\ fields.present = sweep.present \ {r} /\ fields.first = sweep.first /\ fields.todo = sweep.todo
      BY <2>1
    <3> HIDE DEF fields
    <3> QED BY <3>1, <3>2, Finished
  <2>3. missed' = missed \cup {r} /\ tree[r].dir = "gone"
    BY <1>1 DEF Confirm, RunDirGone
  <2>4. DashTypeOK'
    BY <1>0, <2>2, <2>3 DEF DashTypeOK, SweepType, Places
  <2>5. LockedInv' /\ UnbornInv' /\ RestInv' /\ NamedInv' /\ SweepInv'
    BY <1>0, <2>2, <2>4 DEF LockedInv, UnbornInv, RestInv, NamedInv, Building, DashTypeOK, SweepInv
  <2>6. MissedInv'
    BY <1>0, <2>2, <2>3 DEF MissedInv
  <2>7. TileInv'
    <3> SUFFICES ASSUME NEW s \in Shown
                 PROVE  tree'[s].dir = "there" /\ seen'[s] # Unseen /\ ~Building(s)' =>
                           \E w \in Walked, l \in Loaded, held \in BOOLEAN :
                               tiles'[s] = CardOf(w, l, held) /\ WalkSound(s, w)' /\ LoadSound(s, l)'
      BY DEF TileInv
    <3> QED BY <1>0, <2>2, TilesStand DEF Building
  <2> QED BY <2>4, <2>5, <2>6, <2>7
<1>2. CASE ~RunDirGone(r) /\ seen[r] = sweep.stamp
  <2>1. /\ sweep' \in SweepType /\ sweep'.at = "pick" /\ sweep'.first = sweep.first
        /\ sweep'.todo = sweep.todo \ {r} /\ sweep'.present = sweep.present
    BY <1>0, <1>2, Finished DEF Confirm, Step
  <2>2. seen' = seen /\ missed' = missed
    BY <1>0, <1>2 DEF Confirm, RunDirGone
  <2>3. DashTypeOK'
    BY <1>0, <2>1, <2>2 DEF DashTypeOK, SweepType, Places
  <2>4. LockedInv' /\ UnbornInv' /\ RestInv' /\ NamedInv' /\ SweepInv' /\ MissedInv'
    BY <1>0, <2>1, <2>2, <2>3 DEF LockedInv, UnbornInv, RestInv, NamedInv, Building, DashTypeOK, SweepInv, MissedInv
  <2>5. TileInv'
    <3> SUFFICES ASSUME NEW s \in Shown
                 PROVE  tree'[s].dir = "there" /\ seen'[s] # Unseen /\ ~Building(s)' =>
                           \E w \in Walked, l \in Loaded, held \in BOOLEAN :
                               tiles'[s] = CardOf(w, l, held) /\ WalkSound(s, w)' /\ LoadSound(s, l)'
      BY DEF TileInv
    <3> QED BY <1>0, <2>1, <2>2, TilesStand DEF Building
  <2> QED BY <2>3, <2>4, <2>5
<1>3. CASE ~RunDirGone(r) /\ seen[r] # sweep.stamp
  <2>1. sweep' = [sweep EXCEPT !.at = "walk"] /\ seen' = [seen EXCEPT ![r] = sweep.stamp] /\ missed' = missed
    BY <1>0, <1>3 DEF Confirm, RunDirGone, Step
  <2>2. /\ sweep' \in SweepType /\ sweep'.at = "walk" /\ sweep'.first = sweep.first /\ sweep'.run = sweep.run
        /\ sweep'.todo = sweep.todo /\ sweep'.present = sweep.present /\ sweep'.stamp = sweep.stamp
        /\ seen' \in [Shown -> Stamp \cup {Unseen}] /\ seen'[r] = sweep.stamp /\ seen'[r] # Unseen
        /\ \A s \in Shown \ {r} : seen'[s] = seen[s]
    BY <1>0, <2>1, NeverAStamp DEF SweepType, Places
  <2>3. DashTypeOK'
    BY <1>0, <2>1, <2>2 DEF DashTypeOK, SweepType, Places
  <2>4. LockedInv' /\ RestInv' /\ MissedInv'
    BY <1>0, <2>1, <2>2 DEF LockedInv, RestInv, MissedInv
  <2>5. UnbornInv'
    BY <1>0, <2>1, <2>2 DEF UnbornInv
  <2>6. NamedInv'
    <3> SUFFICES ASSUME NEW s \in Shown
                 PROVE  /\ seen'[s] # Unseen => s \in replayed' \/ Building(s)'
                        /\ s \in replayed' => seen'[s] # Unseen /\ tiles'[s] # NoCard
                        /\ ~sweep'.first /\ tiles'[s] # NoCard => seen'[s] # Unseen
      BY DEF NamedInv
    <3>1. CASE s = r
      BY <1>0, <2>2, <3>1 DEF NamedInv, Building
    <3>2. CASE s # r
      BY <1>0, <2>2, <3>2 DEF NamedInv, Building
    <3> QED BY <3>1, <3>2
  <2>7. SweepInv'
    BY <1>0, <2>1, <2>2 DEF SweepInv
  <2>8. TileInv'
    <3> SUFFICES ASSUME NEW s \in Shown
                 PROVE  tree'[s].dir = "there" /\ seen'[s] # Unseen /\ ~Building(s)' =>
                           \E w \in Walked, l \in Loaded, held \in BOOLEAN :
                               tiles'[s] = CardOf(w, l, held) /\ WalkSound(s, w)' /\ LoadSound(s, l)'
      BY DEF TileInv
    <3>1. CASE s = r
      BY <2>2, <3>1 DEF Building
    <3>2. CASE s # r
      BY <1>0, <2>2, <3>2, TilesStand DEF Building
    <3> QED BY <3>1, <3>2
  <2> QED BY <2>3, <2>4, <2>5, <2>6, <2>7, <2>8
<1> QED BY <1>1, <1>2, <1>3

\* The reads of a card's parts change nothing but what the sweep holds.
LEMMA ReadKeeps ==
    ASSUME DashInv, sweep.at \in {"walk", "load"}, sweep' \in SweepType, sweep'.at \in {"load", "probe"},
           sweep'.first = sweep.first, sweep'.todo = sweep.todo, sweep'.present = sweep.present,
           sweep'.run = sweep.run, sweep'.stamp = sweep.stamp,
           UNCHANGED <<tree, seen, tiles, replayed, missed, quiet>>
    PROVE  DashTypeOK' /\ LockedInv' /\ UnbornInv' /\ TileInv' /\ NamedInv' /\ MissedInv' /\ RestInv'
<1> USE DEF DashInv
<1>1. DashTypeOK'
  BY DEF DashTypeOK, SweepType, Places
<1>2. LockedInv' /\ UnbornInv' /\ NamedInv' /\ MissedInv' /\ RestInv'
  BY <1>1 DEF LockedInv, UnbornInv, NamedInv, MissedInv, RestInv, Building, DashTypeOK
<1>3. TileInv'
  <2> SUFFICES ASSUME NEW s \in Shown
               PROVE  tree'[s].dir = "there" /\ seen'[s] # Unseen /\ ~Building(s)' =>
                         \E w \in Walked, l \in Loaded, held \in BOOLEAN :
                             tiles'[s] = CardOf(w, l, held) /\ WalkSound(s, w)' /\ LoadSound(s, l)'
    BY DEF TileInv
  <2> QED BY TilesStand DEF Building
<1> QED BY <1>1, <1>2, <1>3

\* What a read finds is what is there.
LEMMA ReadsSound ==
    ASSUME DashInv, NEW r \in Shown
    PROVE  /\ WalkOf(r) \in Walked /\ LoadOf(r) \in Loaded
           /\ seen[r].feed <= tree[r].feed => WalkSound(r, WalkOf(r))
           /\ seen[r].save <= tree[r].save => LoadSound(r, LoadOf(r))
<1>1. /\ tree[r].feed \in 0..(MaxLines + 1) /\ tree[r].leg \in Phase /\ tree[r].save \in 0..MaxSaves
      /\ tree[r].done \in BOOLEAN
  BY DEF DashInv, DashTypeOK, Directory, Phase
<1>2. /\ WalkOf(r) \in Walked /\ LoadOf(r) \in Loaded
      /\ WalkOf(r).feed = tree[r].feed /\ WalkOf(r).leg = tree[r].leg
      /\ LoadOf(r).save = tree[r].save /\ LoadOf(r).done = tree[r].done
  BY <1>1 DEF WalkOf, LoadOf, Walked, Loaded
<1> QED BY <1>1, <1>2 DEF WalkSound, LoadSound

LEMMA WalkKeeps == ASSUME DashInv, WalkStream PROVE DashInv'
<1>1. sweep \in SweepType /\ sweep.run \in Shown
  BY DEF DashInv, DashTypeOK, SweepType, Places
<1>2. WalkOf(sweep.run) \in Walked
  BY <1>1, ReadsSound
<1>3. /\ sweep.at = "walk" /\ sweep' \in SweepType /\ sweep'.at = "load"
      /\ sweep'.first = sweep.first /\ sweep'.todo = sweep.todo /\ sweep'.present = sweep.present
      /\ sweep'.run = sweep.run /\ sweep'.stamp = sweep.stamp /\ sweep'.walked = WalkOf(sweep.run)
      /\ UNCHANGED <<tree, seen, tiles, replayed, missed, quiet>>
  BY <1>1, <1>2 DEF WalkStream, Step, SweepType, Places
<1>4. tree[sweep.run].dir = "there" => WalkSound(sweep.run, WalkOf(sweep.run)) /\ sweep.stamp.save <= tree[sweep.run].save
  BY <1>1, <1>3, ReadsSound DEF DashInv, SweepInv
<1>5. SweepInv'
  BY <1>3, <1>4 DEF DashInv, SweepInv, WalkSound
<1> QED BY <1>3, <1>5, ReadKeeps DEF DashInv

LEMMA LoadKeeps == ASSUME DashInv, LoadRun PROVE DashInv'
<1>1. sweep \in SweepType /\ sweep.run \in Shown
  BY DEF DashInv, DashTypeOK, SweepType, Places
<1>2. LoadOf(sweep.run) \in Loaded
  BY <1>1, ReadsSound
<1>3. /\ sweep.at = "load" /\ sweep' \in SweepType /\ sweep'.at = "probe"
      /\ sweep'.first = sweep.first /\ sweep'.todo = sweep.todo /\ sweep'.present = sweep.present
      /\ sweep'.run = sweep.run /\ sweep'.stamp = sweep.stamp
      /\ sweep'.walked = sweep.walked /\ sweep'.loaded = LoadOf(sweep.run)
      /\ UNCHANGED <<tree, seen, tiles, replayed, missed, quiet>>
  BY <1>1, <1>2 DEF LoadRun, Step, SweepType, Places
<1>4. tree[sweep.run].dir = "there" =>
          LoadSound(sweep.run, LoadOf(sweep.run)) /\ WalkSound(sweep.run, sweep.walked)
  BY <1>1, <1>3, ReadsSound DEF DashInv, SweepInv
<1>5. SweepInv'
  BY <1>3, <1>4 DEF DashInv, SweepInv, WalkSound, LoadSound
<1> QED BY <1>3, <1>5, ReadKeeps DEF DashInv

LEMMA SendKeeps == ASSUME DashInv, SendCard PROVE DashInv'
<1> USE DEF DashInv
<1>1. /\ sweep \in SweepType /\ sweep.run \in Shown /\ sweep.at = "probe" /\ sweep.walked \in Walked
      /\ sweep.loaded \in Loaded /\ tree[sweep.run].held \in BOOLEAN /\ seen[sweep.run] # Unseen
  BY NeverAStamp DEF SendCard, DashTypeOK, SweepType, Places, Directory, SweepInv
<1> DEFINE card == CardOf(sweep.walked, sweep.loaded, tree[sweep.run].held)
<1>2. card \in Card /\ card # NoCard
  BY <1>1, CardIsCard
<1>3. /\ sweep' \in SweepType /\ sweep'.at = "pick" /\ sweep'.first = sweep.first
      /\ sweep'.todo = sweep.todo \ {sweep.run} /\ sweep'.present = sweep.present
      /\ UNCHANGED <<tree, seen, missed, quiet>>
  BY <1>1, Finished DEF SendCard, Step
<1>4. /\ tiles \in [Shown -> Card \cup {NoCard}] /\ tiles' = [tiles EXCEPT ![sweep.run] = card]
      /\ replayed' = replayed \cup {sweep.run}
  BY DEF SendCard, DashTypeOK
<1>5. /\ tiles' \in [Shown -> Card \cup {NoCard}] /\ tiles'[sweep.run] = card
      /\ \A s \in Shown \ {sweep.run} : tiles'[s] = tiles[s]
  BY <1>1, <1>2, <1>4
<1>6. DashTypeOK'
  BY <1>1, <1>3, <1>4, <1>5 DEF DashTypeOK, SweepType, Places
<1>7. LockedInv' /\ UnbornInv' /\ RestInv' /\ SweepInv' /\ MissedInv'
  BY <1>1, <1>3, <1>5 DEF LockedInv, UnbornInv, RestInv, SweepInv, MissedInv
<1>8. NamedInv'
  <2> SUFFICES ASSUME NEW s \in Shown
               PROVE  /\ seen'[s] # Unseen => s \in replayed' \/ Building(s)'
                      /\ s \in replayed' => seen'[s] # Unseen /\ tiles'[s] # NoCard
                      /\ ~sweep'.first /\ tiles'[s] # NoCard => seen'[s] # Unseen
    BY DEF NamedInv
  <2>1. CASE s = sweep.run
    BY <1>1, <1>2, <1>3, <1>4, <1>5, <2>1 DEF NamedInv
  <2>2. CASE s # sweep.run
    BY <1>3, <1>4, <1>5, <2>2 DEF NamedInv, Building
  <2> QED BY <2>1, <2>2
<1>9. TileInv'
  <2> SUFFICES ASSUME NEW s \in Shown
               PROVE  tree'[s].dir = "there" /\ seen'[s] # Unseen /\ ~Building(s)' =>
                         \E w \in Walked, l \in Loaded, held \in BOOLEAN :
                             tiles'[s] = CardOf(w, l, held) /\ WalkSound(s, w)' /\ LoadSound(s, l)'
    BY DEF TileInv
  <2>1. CASE s = sweep.run
    <3> SUFFICES ASSUME tree[s].dir = "there"
                 PROVE  \E w \in Walked, l \in Loaded, held \in BOOLEAN :
                            tiles'[s] = CardOf(w, l, held) /\ WalkSound(s, w)' /\ LoadSound(s, l)'
      BY <1>3
    <3>1. PICK w \in Walked, l \in Loaded, held \in BOOLEAN :
              /\ w = sweep.walked /\ l = sweep.loaded /\ held = tree[s].held
      BY <1>1, <2>1
    <3>2. WalkSound(s, w) /\ LoadSound(s, l)
      BY <1>1, <2>1, <3>1 DEF SweepInv
    <3>3. WalkSound(s, w)' /\ LoadSound(s, l)'
      BY <1>3, <3>2 DEF WalkSound, LoadSound
    <3> QED BY <1>5, <2>1, <3>1, <3>3
  <2>2. CASE s # sweep.run
    BY <1>3, <1>5, <2>2, TilesStand DEF Building
  <2> QED BY <2>1, <2>2
<1> QED BY <1>6, <1>7, <1>8, <1>9

LEMMA FinishKeeps == ASSUME DashInv, FinishSweep PROVE DashInv'
<1> USE DEF DashInv
<1>1. /\ sweep \in SweepType /\ sweep.at = "pick" /\ sweep'.at = "rest" /\ ~sweep'.first
      /\ sweep'.todo = sweep.todo /\ sweep'.present = sweep.present /\ sweep' \in SweepType
      /\ UNCHANGED <<tree, missed, quiet>>
  BY DEF FinishSweep, Step, DashTypeOK, SweepType, Places
<1>2. /\ seen \in [Shown -> Stamp \cup {Unseen}] /\ tiles \in [Shown -> Card \cup {NoCard}]
      /\ replayed \subseteq Shown
      /\ seen' = [r \in Shown |-> IF r \in Removed THEN Unseen ELSE seen[r]]
      /\ tiles' = [r \in Shown |-> IF r \in Removed \cup Pruned THEN NoCard ELSE tiles[r]]
      /\ replayed' = replayed \ Removed
  BY DEF FinishSweep, DashTypeOK
<1>3. DashTypeOK'
  BY <1>1, <1>2 DEF DashTypeOK, SweepType, Places
<1>4. \A r \in Shown : ~Building(r) /\ ~Building(r)'
  BY <1>1 DEF Building
<1>5. ASSUME NEW r \in Shown
      PROVE  /\ seen'[r] # Unseen => r \notin Removed /\ seen'[r] = seen[r] /\ r \in replayed
             /\ seen'[r] # Unseen => tiles'[r] = tiles[r] /\ tiles[r] # NoCard
             /\ seen'[r] = Unseen => tiles'[r] = NoCard /\ r \notin replayed'
  <2>1. CASE seen'[r] # Unseen
    <3>1. r \notin Removed /\ seen'[r] = seen[r]
      BY <1>2, <2>1
    <3>2. r \in replayed /\ tiles[r] # NoCard
      BY <1>4, <2>1, <3>1 DEF NamedInv
    <3> QED BY <1>2, <2>1, <3>1, <3>2 DEF Pruned
  <2>2. CASE seen'[r] = Unseen
    <3>1. CASE r \in Removed
      BY <1>2, <2>2, <3>1
    <3>2. CASE r \notin Removed
      <4>1. seen[r] = Unseen /\ r \notin replayed
        BY <1>2, <2>2, <3>2 DEF NamedInv
      <4>2. CASE sweep.first
        BY <1>2, <2>2, <4>1, <4>2 DEF Pruned
      <4>3. CASE ~sweep.first
        BY <1>2, <2>2, <4>1, <4>3 DEF NamedInv
      <4> QED BY <4>2, <4>3
    <3> QED BY <3>1, <3>2
  <2> QED BY <2>1, <2>2
<1>6. LockedInv' /\ RestInv' /\ SweepInv'
  BY <1>1 DEF LockedInv, RestInv, SweepInv
<1>7. UnbornInv'
  BY <1>1, <1>2 DEF UnbornInv
<1>8. NamedInv'
  BY <1>2, <1>5 DEF NamedInv
<1>9. MissedInv'
  <2>1. ASSUME NEW r \in missed PROVE tiles'[r] = NoCard
    <3>1. r \notin sweep.present /\ r \in Shown
      BY DEF MissedInv, DashTypeOK
    <3>2. seen'[r] = Unseen
      BY <1>2, <3>1 DEF Removed
    <3> QED BY <1>5, <3>1, <3>2
  <2> QED BY <1>1, <2>1 DEF MissedInv
<1>10. TileInv'
  <2> SUFFICES ASSUME NEW s \in Shown
               PROVE  tree'[s].dir = "there" /\ seen'[s] # Unseen /\ ~Building(s)' =>
                         \E w \in Walked, l \in Loaded, held \in BOOLEAN :
                             tiles'[s] = CardOf(w, l, held) /\ WalkSound(s, w)' /\ LoadSound(s, l)'
    BY DEF TileInv
  <2>1. CASE seen'[s] # Unseen
    BY <1>1, <1>4, <1>5, <2>1, TilesStand
  <2> QED BY <2>1
<1> QED BY <1>3, <1>6, <1>7, <1>8, <1>9, <1>10

LEMMA PollKeeps == ASSUME DashInv, Poll PROVE DashInv'
<1> USE DEF DashInv
<1>1. /\ sweep \in SweepType /\ sweep.at = "rest" /\ sweep'.at = "list" /\ sweep'.first = sweep.first
      /\ sweep'.todo = sweep.todo /\ sweep'.present = {} /\ sweep' \in SweepType
      /\ UNCHANGED <<tree, seen, tiles, replayed, missed, quiet>>
  BY DEF Poll, Step, DashTypeOK, SweepType, Places
<1>2. DashTypeOK'
  BY <1>1 DEF DashTypeOK, SweepType, Places
<1>3. LockedInv' /\ UnbornInv' /\ MissedInv' /\ RestInv' /\ SweepInv' /\ NamedInv'
  BY <1>1, <1>2 DEF LockedInv, UnbornInv, MissedInv, RestInv, SweepInv, NamedInv, Building, DashTypeOK
<1>4. TileInv'
  <2> SUFFICES ASSUME NEW s \in Shown
               PROVE  tree'[s].dir = "there" /\ seen'[s] # Unseen /\ ~Building(s)' =>
                         \E w \in Walked, l \in Loaded, held \in BOOLEAN :
                             tiles'[s] = CardOf(w, l, held) /\ WalkSound(s, w)' /\ LoadSound(s, l)'
    BY DEF TileInv
  <2> QED BY <1>1, TilesStand DEF Building
<1> QED BY <1>2, <1>3, <1>4

LEMMA ReconnectKeeps == ASSUME DashInv, Reconnect PROVE DashInv'
<1> USE DEF DashInv
<1>1. sweep.connects + 1 \in 1..MaxConnects
  BY DEF Reconnect, DashTypeOK
<1>2. /\ sweep'.at = "list" /\ sweep'.first /\ sweep'.present = {} /\ sweep'.todo = {} /\ sweep' \in SweepType
      /\ seen' = [r \in Shown |-> Unseen] /\ replayed' = {}
      /\ UNCHANGED <<tree, tiles, missed, quiet>>
  BY <1>1, FirstSweeps DEF Reconnect, Step, SweepType, Places
<1>3. DashTypeOK'
  BY <1>2 DEF DashTypeOK, SweepType, Places
<1>4. LockedInv' /\ UnbornInv' /\ MissedInv' /\ RestInv' /\ SweepInv' /\ NamedInv' /\ TileInv'
  BY <1>2, <1>3 DEF LockedInv, UnbornInv, MissedInv, RestInv, SweepInv, NamedInv, TileInv, DashTypeOK
<1> QED BY <1>3, <1>4

\* Each step keeps the invariant.
LEMMA DashStep == DashInv /\ [DashNext]_dashVars => DashInv'
<1> SUFFICES ASSUME DashInv, [DashNext]_dashVars PROVE DashInv'
  OBVIOUS
<1>1. CASE UNCHANGED dashVars
  <2> USE <1>1 DEF DashInv, dashVars
  <2>1. DashTypeOK'
    BY DEF DashTypeOK
  <2>2. LockedInv' /\ UnbornInv' /\ MissedInv' /\ RestInv' /\ NamedInv'
    BY DEF LockedInv, UnbornInv, MissedInv, RestInv, NamedInv, Building
  <2>3. SweepInv' /\ TileInv'
    BY DEF SweepInv, TileInv, Building, WalkSound, LoadSound
  <2> QED BY <2>1, <2>2, <2>3
<1>2. CASE \E r \in Shown :
              \/ OpenLeg(r) \/ ReleaseRun(r) \/ Die(r) \/ Delete(r)
              \/ \E to \in OpenPhase \cup LegEnd : Emit(r, to)
              \/ \E done \in BOOLEAN : SaveRun(r, done)
  BY <1>2, RunsMove
<1>3. CASE \E r \in Shown : StampFeed(r)
  BY <1>3, StampFeedKeeps
<1>4. CASE ListRuns \/ StampSave \/ Confirm \/ WalkStream \/ LoadRun \/ SendCard \/ FinishSweep \/ Poll \/ Reconnect
  BY <1>4, ListKeeps, StampSaveKeeps, ConfirmKeeps, WalkKeeps, LoadKeeps, SendKeeps, FinishKeeps, PollKeeps,
     ReconnectKeeps
<1> QED BY <1>1, <1>2, <1>3, <1>4 DEF DashNext

\* What a sweep leaves on the page is never behind a stamp that the connection takes
\* for current, has no tile of a run found gone, and one of every run it stamped:
\* `handleCardEvents` may trust an unchanged stamp, however the runs moved while it
\* read the directory, the stream, the snapshot and the lock one after the other.
THEOREM UpdatesArrive == DashSpec => []NoUpdateLost
<1>1. DashInv => NoUpdateLost
  <2> SUFFICES ASSUME DashInv, sweep.at = "rest", NEW r \in Shown
               PROVE  /\ tree[r].dir = "there" /\ seen[r] = Current(r) =>
                            \E held \in BOOLEAN : tiles[r] = CardOf(WalkOf(r), LoadOf(r), held)
                      /\ r \in missed => tiles[r] = NoCard
                      /\ tiles[r] # NoCard <=> seen[r] # Unseen
    BY DEF NoUpdateLost
  <2> USE DEF DashInv
  <2>1. ~Building(r) /\ ~sweep.first
    BY DEF Building, RestInv
  <2>2. tiles[r] # NoCard <=> seen[r] # Unseen
    BY <2>1 DEF NamedInv
  <2>3. r \in missed => tiles[r] = NoCard
    BY DEF MissedInv
  <2>4. ASSUME tree[r].dir = "there", seen[r] = Current(r)
        PROVE  \E held \in BOOLEAN : tiles[r] = CardOf(WalkOf(r), LoadOf(r), held)
    <3>1. /\ tree[r].feed \in Nat /\ tree[r].save \in Nat /\ tree[r].save <= MaxSaves
          /\ seen[r].feed = tree[r].feed /\ seen[r].save = tree[r].save
      BY <2>4 DEF DashTypeOK, Directory, Current
    <3>2. seen[r] # Unseen
      <4>1. Unseen.save = MaxSaves + 1
        BY DEF Unseen
      <4> QED BY <3>1, <4>1
    <3>3. PICK w \in Walked, l \in Loaded, held \in BOOLEAN :
              tiles[r] = CardOf(w, l, held) /\ WalkSound(r, w) /\ LoadSound(r, l)
      BY <2>1, <2>4, <3>2 DEF TileInv
    <3>4. w.feed \in Nat /\ l.save \in Nat
      BY DEF Walked, Loaded
    <3>5. w.feed = tree[r].feed /\ w.leg = tree[r].leg /\ l.save = tree[r].save /\ l.done = tree[r].done
      BY <3>1, <3>3, <3>4 DEF WalkSound, LoadSound
    <3>6. w = WalkOf(r) /\ l = LoadOf(r)
      BY <3>5 DEF Walked, Loaded, WalkOf, LoadOf
    <3> QED BY <3>3, <3>6
  <2> QED BY <2>2, <2>3, <2>4
<1> QED BY <1>1, DashInitHolds, DashStep, PTL DEF DashSpec

----------------------------------------------------------------------------
(* The gates. *)

\* Whoever is between taking the lock and giving it back is its only holder.
HolderInv == \A c \in Decider :
    ask[c].at \in {"looking", "locked", "resuming", "leg"} => lockOf = c

\* A resume past its check still stands at the pause it checked: the snapshot is
\* written under the lock only.
CheckedInv == \A c \in Decider : ask[c].at = "resuming" => stopped = ask[c].gate

\* The gate a run is stopped at is undecided.
PauseIsOpen == stopped \in GateIds => decided[stopped] = "none"

GateInv == GateTypeOK /\ HolderInv /\ CheckedInv /\ PauseIsOpen

Stages == {"idle", "looking", "loaded", "accepted", "locked", "resuming", "leg", "ended", "refused", "lost"}
Request == [at : Stages, gate : GateIds \cup {Unnamed}, says : {"approve", "reject"}, saw : GateIds \cup {Unnamed}]

USE DeciderAssumption, GateAssumption

LEMMA GateInitHolds == GateInit => GateInv
BY DEF GateInit, GateInv, GateTypeOK, HolderInv, CheckedInv, PauseIsOpen

\* A step of one decider that moves it to a stage leaves what the others ask.
LEMMA Turned ==
    ASSUME GateTypeOK, NEW c \in Decider, NEW s \in Stages, Turn(c, s)
    PROVE  /\ ask' \in [Decider -> Request]
           /\ ask'[c].at = s /\ ask'[c].gate = ask[c].gate
           /\ \A d \in Decider \ {c} : ask'[d] = ask[d]
BY DEF GateTypeOK, Turn, Stages, Request

\* A request names a gate and a decision when it is made, and is not changed
\* while it is served.
LEMMA Asked ==
    ASSUME GateTypeOK, NEW c \in Decider, NEW g \in GateIds, NEW says \in {"approve", "reject"},
           NEW s \in Stages, Asks(c, s, g, says)
    PROVE  /\ ask' \in [Decider -> Request]
           /\ ask'[c].at = s
           /\ \A d \in Decider \ {c} : ask'[d] = ask[d]
<1>1. ask \in [Decider -> Request]
  BY DEF GateTypeOK, Request, Stages
<1>2. ask[c] \in Request
  BY <1>1
<1> DEFINE asked == [ask[c] EXCEPT !.at = s, !.gate = g, !.says = says]
<1>3. asked \in Request /\ asked.at = s
  BY <1>2 DEF Request
<1>4. ask' = [ask EXCEPT ![c] = asked]
  BY DEF Asks
<1> HIDE DEF asked
<1> QED
  BY <1>1, <1>3, <1>4

\* Each handler keeps the invariant.
LEMMA GateStep == GateInv /\ [GateNext]_gateVars => GateInv'
<1> SUFFICES ASSUME GateInv, [GateNext]_gateVars PROVE GateInv'
  OBVIOUS
<1> USE DEF GateInv
<1>0. CASE UNCHANGED gateVars
  BY <1>0 DEF gateVars, GateTypeOK, HolderInv, CheckedInv, PauseIsOpen
<1>1. ASSUME NEW c \in Decider, NEW g \in GateIds, NEW says \in {"approve", "reject"}, Post(c, g, says)
      PROVE  GateInv'
  <2>1. CASE Take(c) /\ Asks(c, "looking", g, says)
    BY <1>1, <2>1, Asked DEF Post, Take, GateTypeOK, HolderInv, CheckedInv, PauseIsOpen, Stages, Request
  <2>2. CASE lockOf # Unnamed /\ Turn(c, "refused") /\ UNCHANGED lockOf
    BY <1>1, <2>2, Turned DEF Post, GateTypeOK, HolderInv, CheckedInv, PauseIsOpen, Stages, Request
  <2> QED BY <1>1, <2>1, <2>2 DEF Post
<1>2. ASSUME NEW c \in Decider, NEW g \in GateIds, NEW says \in {"approve", "reject"}, FromTerminal(c, g, says)
      PROVE  GateInv'
  BY <1>2, Asked DEF FromTerminal, GateTypeOK, HolderInv, CheckedInv, PauseIsOpen, Stages, Request
<1>3. ASSUME NEW c \in Decider, LookAtPause(c) PROVE GateInv'
  <2>1. /\ ask' \in [Decider -> Request]
        /\ ask'[c].at = "loaded"
        /\ \A d \in Decider \ {c} : ask'[d] = ask[d]
    <3> DEFINE looked == [ask[c] EXCEPT !.at = "loaded", !.saw = stopped]
    <3>1. ask \in [Decider -> Request] /\ stopped \in GateIds \cup {Unnamed}
      BY DEF GateTypeOK, Request, Stages
    <3>2. looked \in Request /\ looked.at = "loaded"
      BY <3>1 DEF Request, Stages
    <3>3. ask' = [ask EXCEPT ![c] = looked]
      BY <1>3 DEF LookAtPause
    <3> HIDE DEF looked
    <3> QED
      BY <3>1, <3>2, <3>3
  <2> QED BY <1>3, <2>1 DEF LookAtPause, Give, GateTypeOK, HolderInv, CheckedInv, PauseIsOpen, Stages, Request
<1>4. ASSUME NEW c \in Decider, AnswerPost(c) PROVE GateInv'
  BY <1>4, Turned DEF AnswerPost, GateTypeOK, HolderInv, CheckedInv, PauseIsOpen, Stages, Request
<1>5. ASSUME NEW c \in Decider, ResumeLocks(c) PROVE GateInv'
  BY <1>5, Turned DEF ResumeLocks, Take, GateTypeOK, HolderInv, CheckedInv, PauseIsOpen, Stages, Request
<1>6. ASSUME NEW c \in Decider, ResumeChecks(c) PROVE GateInv'
  BY <1>6, Turned DEF ResumeChecks, NamesThePause, Give, GateTypeOK, HolderInv, CheckedInv, PauseIsOpen, Stages, Request
<1>7. ASSUME NEW c \in Decider, RecordLegGate(c) PROVE GateInv'
  <2>1. \A d \in Decider \ {c} : ask[d].at # "resuming"
    BY <1>7 DEF RecordLegGate, HolderInv
  <2>2. /\ ask' \in [Decider -> Request]
        /\ ask'[c].at = "leg"
        /\ \A d \in Decider \ {c} : ask'[d] = ask[d]
    BY <1>7, Turned DEF RecordLegGate, Stages
  <2>3. GateTypeOK'
    BY <1>7, <2>2 DEF RecordLegGate, GateTypeOK, Stages, Request
  <2>4. HolderInv'
    BY <1>7, <2>2 DEF RecordLegGate, HolderInv
  <2>5. CheckedInv' /\ PauseIsOpen'
    BY <1>7, <2>1, <2>2 DEF RecordLegGate, CheckedInv, PauseIsOpen
  <2> QED BY <2>3, <2>4, <2>5
<1>8. ASSUME NEW c \in Decider, RetryLeg(c) PROVE GateInv'
  <2>1. \A d \in Decider : ask[d].at # "resuming"
    BY <1>8 DEF RetryLeg, Take, HolderInv
  <2> QED BY <1>8, <2>1, Turned DEF RetryLeg, Take, GateTypeOK, HolderInv, CheckedInv, PauseIsOpen, Stages, Request
<1>9. ASSUME NEW c \in Decider, LegEnds(c) PROVE GateInv'
  BY <1>9, Turned DEF LegEnds, Give, GateTypeOK, HolderInv, CheckedInv, PauseIsOpen, Stages, Request
<1>10. ASSUME NEW c \in Decider, GivesUp(c) PROVE GateInv'
  BY <1>10, Turned DEF GivesUp, Give, GateTypeOK, HolderInv, CheckedInv, PauseIsOpen, Stages, Request
<1>11. ASSUME NEW c \in Decider, NEW g \in GateIds, LegPauses(c, g) PROVE GateInv'
  <2>1. \A d \in Decider \ {c} : ask[d].at # "resuming"
    BY <1>11 DEF LegPauses, HolderInv
  <2>2. pauses' \in 1..MaxLegPauses
    BY <1>11 DEF LegPauses, GateTypeOK
  <2> QED BY <1>11, <2>1, <2>2, Turned DEF LegPauses, Give, GateTypeOK, HolderInv, CheckedInv, PauseIsOpen, Stages, Request
<1> QED
  BY <1>0, <1>1, <1>2, <1>3, <1>4, <1>5, <1>6, <1>7, <1>8, <1>9, <1>10, <1>11 DEF GateNext

----------------------------------------------------------------------------
\* The types of the gate's decision hold in every reachable state.
THEOREM GateTypesKept == GateSpec => []GateTypeOK
<1>1. GateInv => GateTypeOK
  BY DEF GateInv
<1> QED BY GateInitHolds, GateStep, <1>1, PTL DEF GateSpec

\* Whatever order the pages and terminals come in, a gate is decided once, while
\* the run is paused there, as the holder of the lock asked (gate.go, resume.go).
THEOREM DecisionsForThePause == GateSpec => DecidesThePause
<1> DEFINE Decides == \A g \in GateIds : decided'[g] # decided[g] =>
                        /\ decided[g] = "none" /\ stopped = g
                        /\ ask[lockOf].gate = g /\ ask[lockOf].says = decided'[g]
<1>1. GateInv /\ [GateNext]_gateVars => [Decides]_gateVars
  <2> SUFFICES ASSUME GateInv, GateNext PROVE Decides
    OBVIOUS
  <2>1. ASSUME NEW c \in Decider, RecordLegGate(c) PROVE Decides
    <3>1. lockOf = c /\ stopped = ask[c].gate
      BY <2>1 DEF RecordLegGate, GateInv, HolderInv, CheckedInv
    <3>2. \A g \in GateIds : decided'[g] # decided[g] => g = ask[c].gate /\ decided'[g] = ask[c].says
      BY <2>1 DEF RecordLegGate, GateInv, GateTypeOK
    <3> QED BY <3>1, <3>2 DEF GateInv, PauseIsOpen
  <2>2. CASE UNCHANGED decided
    BY <2>2
  <2> QED
    BY <2>1, <2>2 DEF GateNext, Post, FromTerminal, LookAtPause, AnswerPost, ResumeLocks, ResumeChecks,
                      RetryLeg, LegEnds, GivesUp, LegPauses
<1> QED BY GateInitHolds, GateStep, <1>1, PTL DEF GateSpec, DecidesThePause

----------------------------------------------------------------------------
(* What a run changed on its remotes. *)

\* The snapshot a leg began with says what the world was then.
BeforeIs(b) ==
    /\ b.remotes.ok => \A r \in Remote : b.remotes.at[r] = None <=> began.remotes[r] = None
    /\ b.branches.through = {}
    /\ b.branches.ok =>
        /\ b.remotes.ok
        /\ \A r \in Remote : b.remotes.at[r] # None => b.branches.refs[r] = began.servers[b.remotes.at[r]]
    /\ b.pulls.ok => b.pulls.repo \in Url /\ b.pulls.open = began.pulls[b.pulls.repo]

\* What a guarded leg keeps is what its snapshot was read through.
PinIs(b) ==
    /\ ~Guarded => pin = NoPin
    /\ Guarded =>
        /\ pin.shallow = began.shallow
        /\ pin.urls \in Configured
        /\ pin.config \in {"launched", "rewritten", "broken"}
        /\ b.remotes.ok <=> pin.config # "broken"
        /\ \A r \in Remote : pin.urls[r] = b.remotes.at[r]
        /\ pin.config = "rewritten" => \A r \in Remote : pin.urls[r] \in {None, Mirror}

Past == [remotes : Configured, shallow : BOOLEAN,
         servers : [Url -> [Branch -> RemoteCommit \cup {None}]],
         pulls : [Url -> RemoteCommit \cup {None}]]
WorldOK ==
    /\ remotes \in Configured
    /\ config \in {"launched", "rewritten", "broken"} /\ shallow \in BOOLEAN
    /\ servers \in [Url -> [Branch -> RemoteCommit \cup {None}]]
    /\ pulls \in [Url -> RemoteCommit \cup {None}]
    /\ began \in Past

\* A part that was not compared is named.
Names(diff) ==
    /\ \A p \in Part : p \notin diff.observed => <<p, None>> \in diff.skipped
    /\ \A s \in diff.skipped : s[1] \in Part
    /\ diff.observed \subseteq Part

RemoteInv ==
    /\ WorldOK
    /\ leg = [before |-> leg.before, ended |-> leg.ended, after |-> leg.after, changes |-> leg.changes]
    /\ leg.before \in SnapshotType /\ leg.after \in SnapshotType /\ leg.ended \in BOOLEAN
    /\ bracket \in {"gone", "leg"}
    /\ remoteLegs \in Nat
    /\ exit = "none" <=> ~leg.ended
    /\ exit = "interrupted" => leg.after = Unavailable
    /\ remoteLegs > 1 => Names(between)
    /\ bracket = "leg" => remoteLegs > 0 /\ ~leg.ended /\ BeforeIs(leg.before) /\ PinIs(leg.before)

LEMMA ReachesType ==
    ASSUME WorldOK, NEW u \in Url \cup {None}
    PROVE  /\ Reaches(u) \in Url \cup {None}
           /\ Reaches(u) = None <=> u = None
           /\ config = "rewritten" => Reaches(u) \in {None, Mirror}
BY RemoteAssumption DEF Reaches, None

LEMMA NoneTyped ==
    /\ NoRefs \in [Remote -> [Branch -> RemoteCommit \cup {None}]]
    /\ NoRemotes \in [ok : BOOLEAN, at : Configured]
    /\ NoBranches \in [ok : BOOLEAN, refs : [Remote -> [Branch -> RemoteCommit \cup {None}]], through : SUBSET Remote]
    /\ NoPulls \in [ok : BOOLEAN, open : RemoteCommit \cup {None}, repo : Url \cup {None}]
    /\ Unavailable \in SnapshotType
<1>1. NoRefs \in [Remote -> [Branch -> RemoteCommit \cup {None}]]
  BY DEF NoRefs
<1>2. NoRemotes \in [ok : BOOLEAN, at : Configured]
  BY DEF NoRemotes, Configured
<1>3. NoBranches \in [ok : BOOLEAN, refs : [Remote -> [Branch -> RemoteCommit \cup {None}]], through : SUBSET Remote]
  BY <1>1 DEF NoBranches
<1>4. NoPulls \in [ok : BOOLEAN, open : RemoteCommit \cup {None}, repo : Url \cup {None}]
  BY DEF NoPulls
<1> QED BY <1>1, <1>2, <1>3, <1>4 DEF Unavailable, SnapshotType

\* One repository named is the one gh is asked about.
LEMMA GHRepoType ==
    ASSUME WorldOK PROVE ExpectGHRepo \in Url \cup {None}
<1> DEFINE named == {Reaches(remotes[r]) : r \in Listed}
<1>1. named \subseteq Url
  BY ReachesType DEF WorldOK, Configured, Listed
<1>2. CASE config # "broken" /\ Cardinality(named) = 1
  <2>1. named # {}
    BY <1>2, FS_EmptySet
  <2> QED BY <1>1, <1>2, <2>1 DEF ExpectGHRepo
<1>3. CASE ~(config # "broken" /\ Cardinality(named) = 1)
  BY <1>3 DEF ExpectGHRepo
<1> QED BY <1>2, <1>3

\* What any reading of the world can be.
LEMMA SnapshotTyped ==
    ASSUME WorldOK, NEW p, p.urls \in Configured, NEW down \in SUBSET Url, NEW answers \in BOOLEAN
    PROVE  TakeSnapshot(p, down, answers) \in SnapshotType
<1>1. TakeRemotes \in [ok : BOOLEAN, at : Configured]
  BY ReachesType, NoneTyped DEF TakeRemotes, WorldOK, Configured
<1>2. ReadFrom(p) \in Configured
  BY ReachesType DEF ReadFrom, WorldOK, Configured
<1>3. TakeBranches(p, down) \in [ok : BOOLEAN, refs : [Remote -> [Branch -> RemoteCommit \cup {None}]], through : SUBSET Remote]
  <2>1. [r \in Remote |-> IF ReadFrom(p)[r] = None THEN NoRefs[r] ELSE servers[ReadFrom(p)[r]]]
            \in [Remote -> [Branch -> RemoteCommit \cup {None}]]
    BY <1>2, NoneTyped DEF WorldOK, Configured
  <2>2. Pinned(p) \subseteq Remote
    BY DEF Pinned
  <2> QED BY <2>1, <2>2, NoneTyped DEF TakeBranches
<1>4. TakePullRequests(answers) \in [ok : BOOLEAN, open : RemoteCommit \cup {None}, repo : Url \cup {None}]
  BY GHRepoType, NoneTyped DEF TakePullRequests, WorldOK
<1> QED BY <1>1, <1>3, <1>4 DEF TakeSnapshot, SnapshotType

----------------------------------------------------------------------------
(* The invariant. *)

LEMMA RemoteInitial == RemoteInit => RemoteInv
<1> SUFFICES ASSUME RemoteInit PROVE RemoteInv
  OBVIOUS
<1>1. WorldOK
  BY DEF RemoteInit, WorldOK, World, Past, Configured, RemoteCommit
<1>2. leg = RecordLeg(Unavailable) /\ exit = "none" /\ bracket = "gone" /\ remoteLegs = 0
  BY DEF RemoteInit
<1> QED BY <1>1, <1>2, NoneTyped DEF RemoteInv, RecordLeg

\* The parts of a diff: what was compared, and that the rest is named.
LEMMA DiffParts ==
    ASSUME NEW b \in SnapshotType, NEW a \in SnapshotType, NEW attributed
    PROVE  LET d == DiffRemoteSnapshots(b, a, attributed) IN
           /\ "remotes" \in d.observed <=> b.remotes.ok /\ a.remotes.ok
           /\ "branches" \in d.observed <=> b.branches.ok /\ a.branches.ok /\ b.remotes.ok /\ a.remotes.ok
           /\ "pull_requests" \in d.observed <=> b.pulls.ok /\ a.pulls.ok /\ b.pulls.repo = a.pulls.repo
           /\ \A r \in Remote : "branches" \in d.observed /\ r \in Skipped(b, a) => <<"branches", r>> \in d.skipped
           /\ Names(d)
<1> DEFINE d == DiffRemoteSnapshots(b, a, attributed)
           ok == [remotes |-> b.remotes.ok /\ a.remotes.ok,
                  branches |-> b.branches.ok /\ a.branches.ok /\ b.remotes.ok /\ a.remotes.ok,
                  pull_requests |-> b.pulls.ok /\ a.pulls.ok /\ b.pulls.repo = a.pulls.repo]
           pieces == IF ok.branches THEN {<<"branches", r>> : r \in Skipped(b, a)} ELSE {}
<1>1. d.observed = {p \in Part : ok[p]}
  BY DEF DiffRemoteSnapshots
<1>2. d.skipped = {<<p, None>> : p \in {p \in Part : ~ok[p]}} \cup pieces
  BY DEF DiffRemoteSnapshots
<1>3. ok.remotes = (b.remotes.ok /\ a.remotes.ok)
      /\ ok.branches = (b.branches.ok /\ a.branches.ok /\ b.remotes.ok /\ a.remotes.ok)
      /\ ok.pull_requests = (b.pulls.ok /\ a.pulls.ok /\ b.pulls.repo = a.pulls.repo)
  OBVIOUS
<1>4. Names(d)
  <2>1. \A s \in pieces : s[1] \in Part
    BY DEF Part
  <2> HIDE DEF ok, pieces, d
  <2> QED BY <1>1, <1>2, <2>1 DEF Names
<1>5. \A r \in Remote : "branches" \in d.observed /\ r \in Skipped(b, a) => <<"branches", r>> \in d.skipped
  <2> HIDE DEF ok, d
  <2> QED BY <1>1, <1>2
<1>6. /\ "remotes" \in d.observed <=> ok.remotes
      /\ "branches" \in d.observed <=> ok.branches
      /\ "pull_requests" \in d.observed <=> ok.pull_requests
  <2> HIDE DEF ok, d
  <2> QED BY <1>1 DEF Part
<1> HIDE DEF d, ok
<1> QED BY <1>3, <1>4, <1>5, <1>6 DEF d

LEMMA BeginKeeps ==
    ASSUME RemoteInv, BeginLeg
    PROVE  RemoteInv'
<1>1. PICK down \in SUBSET Url, answers \in BOOLEAN :
        /\ leg' = RecordLeg(TakeSnapshot(NoPin, down, answers))
        /\ between' = IF remoteLegs = 0 THEN NoDiff ELSE BetweenLegs(TakeSnapshot(NoPin, down, answers))
  BY DEF BeginLeg
<1> DEFINE b == TakeSnapshot(NoPin, down, answers)
<1>2. NoPin.urls \in Configured /\ Pinned(NoPin) = {}
  BY DEF NoPin, Configured, Pinned
<1>3. WorldOK /\ b \in SnapshotType
  BY <1>2, SnapshotTyped DEF RemoteInv
<1>4. WorldOK'
  BY <1>3 DEF WorldOK, BeginLeg, World, Past, world
<1>b. leg'.before = b
  BY <1>1 DEF RecordLeg
<1>5. BeforeIs(leg.before)'
  <2>1. b.remotes.ok => \A r \in Remote : b.remotes.at[r] = None <=> remotes[r] = None
    BY <1>3, ReachesType DEF TakeSnapshot, TakeRemotes, NoRemotes, WorldOK, Configured
  <2>2. b.branches.through = {}
    BY <1>2 DEF TakeSnapshot, TakeBranches, NoBranches
  <2>3. b.branches.ok => config # "broken"
    BY <1>2 DEF TakeSnapshot, TakeBranches, NoBranches
  <2>4. b.branches.ok => b.remotes.ok
    BY <2>3 DEF TakeSnapshot, TakeRemotes
  <2>5. ASSUME b.branches.ok, NEW r \in Remote, b.remotes.at[r] # None
        PROVE  b.branches.refs[r] = servers[b.remotes.at[r]]
    <3>1. b.remotes.at[r] = Reaches(remotes[r])
      BY <2>3, <2>5 DEF TakeSnapshot, TakeRemotes
    <3>2. ReadFrom(NoPin)[r] = Reaches(remotes[r])
      BY <1>2, <2>3, <2>5 DEF ReadFrom
    <3>3. b.branches.refs[r] = IF ReadFrom(NoPin)[r] = None THEN NoRefs[r] ELSE servers[ReadFrom(NoPin)[r]]
      BY <2>5 DEF TakeSnapshot, TakeBranches, NoBranches
    <3> QED BY <3>1, <3>2, <3>3, <2>5
  <2>6. b.pulls.ok => b.pulls.repo \in Url /\ b.pulls.open = pulls[b.pulls.repo]
    BY <1>3, GHRepoType DEF TakeSnapshot, TakePullRequests, NoPulls
  <2>7. began' = World
    BY DEF BeginLeg
  <2> QED BY <1>b, <2>1, <2>2, <2>4, <2>5, <2>6, <2>7 DEF BeforeIs, World
<1>6. PinIs(leg.before)'
  <2>1. ASSUME Guarded PROVE pin' = TakePin /\ began' = World
    BY <2>1 DEF BeginLeg
  <2>2. b.remotes.ok <=> config # "broken"
    BY DEF TakeSnapshot, TakeRemotes, NoRemotes
  <2>3. ASSUME NEW r \in Remote PROVE TakePin.urls[r] = b.remotes.at[r]
    BY DEF TakeSnapshot, TakeRemotes, NoRemotes, TakePin, NoPin
  <2>4. TakePin.urls \in Configured
    BY <1>3, ReachesType DEF TakePin, NoPin, Configured, WorldOK
  <2>5. config = "rewritten" => \A r \in Remote : TakePin.urls[r] \in {None, Mirror}
    BY <1>3, ReachesType DEF TakePin, NoPin, Configured, WorldOK
  <2>6. TakePin.config = config /\ TakePin.shallow = shallow /\ World.shallow = shallow
    BY DEF TakePin, World
  <2>7. ~Guarded => pin' = NoPin
    BY DEF BeginLeg
  <2> QED BY <1>3, <1>b, <2>1, <2>2, <2>3, <2>4, <2>5, <2>6, <2>7 DEF PinIs, WorldOK
<1>7. remoteLegs' > 1 => Names(between')
  <2>1. remoteLegs' > 1 => remoteLegs # 0
    BY DEF RemoteInv, BeginLeg
  <2>2. Names(DiffRemoteSnapshots(leg.after, b, NothingAttributed))
    BY <1>3, DiffParts DEF RemoteInv
  <2>3. Names([NoDiff EXCEPT !.skipped = {<<p, None>> : p \in Part}])
    BY DEF Names, NoDiff
  <2> QED BY <1>1, <2>1, <2>2, <2>3 DEF BetweenLegs
<1>8. bracket' = "leg" /\ exit' = "none" /\ remoteLegs' \in Nat /\ remoteLegs' > 0
  <2>1. remoteLegs \in Nat
    BY DEF RemoteInv
  <2> QED BY <2>1 DEF BeginLeg
<1>9. leg' = [before |-> b, ended |-> FALSE, after |-> Unavailable, changes |-> NoDiff]
  BY <1>1 DEF RecordLeg
<1> HIDE DEF b
<1>10. leg'.before \in SnapshotType /\ leg'.after \in SnapshotType /\ leg'.ended = FALSE
      /\ leg' = [before |-> leg'.before, ended |-> leg'.ended, after |-> leg'.after, changes |-> leg'.changes]
  BY <1>3, <1>9, NoneTyped
<1> QED BY <1>4, <1>5, <1>6, <1>7, <1>8, <1>10 DEF RemoteInv

LEMMA PinTyped ==
    ASSUME RemoteInv, bracket = "leg" PROVE pin.urls \in Configured
<1>1. NoPin.urls \in Configured
  BY DEF NoPin, Configured
<1> QED BY <1>1 DEF RemoteInv, PinIs

\* What FinishLeg makes of its after snapshot.
FoundBy(after, failed) ==
    IF Guarded
    THEN Noted(DiffGuardedRemoteSnapshots(leg.before, after, Attributable(failed)), failed)
    ELSE DiffRemoteSnapshots(leg.before, after, Attributable(failed))
Verdict(diff) == IF Guarded /\ \E e \in diff.entries : Forbidden(e) THEN "forbidden" ELSE "as scheduled"

\* What happens in the world leaves the leg as it is.
LEMMA EventKeeps ==
    ASSUME RemoteInv, Event, WorldOK' PROVE RemoteInv'
<1>1. UNCHANGED <<bracket, pin, leg, between, exit, began, remoteLegs>>
  BY DEF Event
<1>2. BeforeIs(leg.before)' <=> BeforeIs(leg.before)
  BY <1>1 DEF BeforeIs
<1>3. PinIs(leg.before)' <=> PinIs(leg.before)
  BY <1>1 DEF PinIs
<1> QED BY <1>1, <1>2, <1>3 DEF RemoteInv

LEMMA RemoteStep ==
    ASSUME RemoteInv, [RemoteNext]_remoteVars
    PROVE  RemoteInv'
<1>1. ASSUME NEW u \in Url, NEW b \in Branch, NEW c \in RemoteCommit \cup {None}, Push(u, b, c)
      PROVE  RemoteInv'
  <2>1. WorldOK'
    BY <1>1 DEF RemoteInv, Push, Event, WorldOK
  <2> QED BY <1>1, <2>1, EventKeeps DEF Push
<1>2. ASSUME NEW u \in Url, NEW c \in {"ours", "theirs", None}, PullRequest(u, c)
      PROVE  RemoteInv'
  <2>1. WorldOK'
    BY <1>2 DEF RemoteInv, PullRequest, Event, WorldOK, RemoteCommit
  <2> QED BY <1>2, <2>1, EventKeeps DEF PullRequest
<1>3. ASSUME NEW r \in Remote, NEW u \in Url \cup {None}, Configure(r, u)
      PROVE  RemoteInv'
  <2>1. WorldOK'
    BY <1>3 DEF RemoteInv, Configure, Event, WorldOK, Configured
  <2> QED BY <1>3, <2>1, EventKeeps DEF Configure
<1>4. ASSUME Tamper PROVE RemoteInv'
  <2>1. WorldOK'
    BY <1>4 DEF RemoteInv, Tamper, Event, WorldOK
  <2> QED BY <1>4, <2>1, EventKeeps DEF Tamper
<1>5. ASSUME BeginLeg PROVE RemoteInv'
  BY <1>5, BeginKeeps
<1>6. ASSUME NEW after \in SnapshotType, NEW diff, NEW how, EndWith(after, diff, how), bracket = "leg",
             how # "none", how = "interrupted" => after = Unavailable
      PROVE  RemoteInv'
  <2>1. leg' = [leg EXCEPT !.ended = TRUE, !.after = after, !.changes = diff] /\ exit' = how /\ bracket' = "gone"
        /\ between' = between /\ remoteLegs' = remoteLegs
    BY <1>6 DEF EndWith
  <2>2. WorldOK'
    BY <1>6 DEF EndWith, RemoteInv, WorldOK, World, Past, world
  <2>3. leg' = [before |-> leg.before, ended |-> TRUE, after |-> after, changes |-> diff]
    BY <2>1 DEF RemoteInv
  <2> QED BY <1>6, <2>1, <2>2, <2>3 DEF RemoteInv
<1>7. ASSUME FinishLeg PROVE RemoteInv'
  <2>1. bracket = "leg"
    BY <1>7 DEF FinishLeg
  <2>2. pin.urls \in Configured
    BY <2>1, PinTyped
  <2>3. PICK down \in SUBSET Url, answers \in BOOLEAN, failed \in BOOLEAN :
          EndWith(TakeSnapshot(pin, down, answers), FoundBy(TakeSnapshot(pin, down, answers), failed),
                  Verdict(FoundBy(TakeSnapshot(pin, down, answers), failed)))
    BY <1>7 DEF FinishLeg, FoundBy, Verdict
  <2>4. TakeSnapshot(pin, down, answers) \in SnapshotType
    BY <2>2, SnapshotTyped DEF RemoteInv
  <2>5. \A diff : Verdict(diff) \notin {"none", "interrupted"}
    BY DEF Verdict
  <2> QED BY <1>6, <2>1, <2>3, <2>4, <2>5
<1>8. ASSUME Interrupt PROVE RemoteInv'
  BY <1>6, <1>8, NoneTyped DEF Interrupt, InterruptedRemoteSnapshot
<1>9. ASSUME RemoteCrash PROVE RemoteInv'
  BY <1>9 DEF RemoteCrash, RemoteInv, WorldOK, world
<1>10. ASSUME UNCHANGED remoteVars PROVE RemoteInv'
  BY <1>10 DEF remoteVars, world, RemoteInv, WorldOK, BeforeIs, PinIs
<1> QED BY <1>1, <1>2, <1>3, <1>4, <1>5, <1>7, <1>8, <1>9, <1>10 DEF RemoteNext
----------------------------------------------------------------------------
(* The entries of a diff. *)

RemoteEntry(b, a, r) ==
    Entry(IF b.at[r] = None THEN "remote_added" ELSE IF a.at[r] = None THEN "remote_removed" ELSE "remote_url_changed",
          <<r>>, b.at[r], a.at[r], FALSE)
BranchEntry(b, a, attributed, r, br) ==
    Entry(IF b.branches.refs[r][br] = None THEN "branch_created"
          ELSE IF a.branches.refs[r][br] = None THEN "branch_deleted" ELSE "branch_moved",
          <<r, br>>, b.branches.refs[r][br], a.branches.refs[r][br], a.branches.refs[r][br] \in attributed)
PullEntry(b, a, attributed) ==
    Entry(IF b.open = None THEN "pr_opened" ELSE IF a.open = None THEN "pr_no_longer_open" ELSE "pr_updated",
          <<b.repo>>, b.open, a.open, a.open \in attributed)

LEMMA RemoteEntries ==
    ASSUME NEW b, NEW a
    PROVE  DiffRemotes(b, a) = {RemoteEntry(b, a, r) : r \in {r \in Remote : b.at[r] # a.at[r]}}
BY DEF DiffRemotes, RemoteEntry

LEMMA BranchEntries ==
    ASSUME NEW b, NEW a, NEW attributed
    PROVE  \A e : e \in DiffBranches(b, a, attributed) <=>
              \E r \in Compared(b, a), br \in Branch :
                b.branches.refs[r][br] # a.branches.refs[r][br] /\ e = BranchEntry(b, a, attributed, r, br)
<1> DEFINE Moved == {rb \in Compared(b, a) \X Branch : b.branches.refs[rb[1]][rb[2]] # a.branches.refs[rb[1]][rb[2]]}
           Of(rb) == Entry(IF b.branches.refs[rb[1]][rb[2]] = None THEN "branch_created"
                           ELSE IF a.branches.refs[rb[1]][rb[2]] = None THEN "branch_deleted" ELSE "branch_moved",
                           rb, b.branches.refs[rb[1]][rb[2]], a.branches.refs[rb[1]][rb[2]],
                           a.branches.refs[rb[1]][rb[2]] \in attributed)
<1>1. DiffBranches(b, a, attributed) = {Of(rb) : rb \in Moved}
  BY DEF DiffBranches
<1>2. ASSUME NEW rb \in Moved
      PROVE  /\ rb[1] \in Compared(b, a) /\ rb[2] \in Branch /\ rb = <<rb[1], rb[2]>>
             /\ b.branches.refs[rb[1]][rb[2]] # a.branches.refs[rb[1]][rb[2]]
             /\ Of(rb) = BranchEntry(b, a, attributed, rb[1], rb[2])
  BY DEF BranchEntry
<1>3. ASSUME NEW r \in Compared(b, a), NEW br \in Branch, b.branches.refs[r][br] # a.branches.refs[r][br]
      PROVE  <<r, br>> \in Moved /\ Of(<<r, br>>) = BranchEntry(b, a, attributed, r, br)
  BY <1>3 DEF BranchEntry
<1> HIDE DEF Moved, Of
<1>4. ASSUME NEW e, e \in DiffBranches(b, a, attributed)
      PROVE  \E r \in Compared(b, a), br \in Branch :
                b.branches.refs[r][br] # a.branches.refs[r][br] /\ e = BranchEntry(b, a, attributed, r, br)
  <2>1. PICK rb \in Moved : e = Of(rb)
    BY <1>1, <1>4
  <2> QED BY <1>2, <2>1
<1>5. ASSUME NEW e, NEW r \in Compared(b, a), NEW br \in Branch,
             b.branches.refs[r][br] # a.branches.refs[r][br], e = BranchEntry(b, a, attributed, r, br)
      PROVE  e \in DiffBranches(b, a, attributed)
  BY <1>1, <1>3, <1>5
<1> QED BY <1>4, <1>5

\* The entries of one part are those of that part's diff.
LEMMA EntriesByPart ==
    ASSUME NEW b \in SnapshotType, NEW a \in SnapshotType, NEW attributed, NEW e
    PROVE  LET d == DiffRemoteSnapshots(b, a, attributed) IN
           /\ e \in d.entries /\ e.kind \in EntryKinds.remotes <=>
                "remotes" \in d.observed /\ e \in DiffRemotes(b.remotes, a.remotes)
           /\ e \in d.entries /\ e.kind \in EntryKinds.branches <=>
                "branches" \in d.observed /\ e \in DiffBranches(b, a, attributed)
           /\ e \in d.entries /\ e.kind \in EntryKinds.pull_requests <=>
                /\ "pull_requests" \in d.observed /\ b.pulls.open # a.pulls.open
                /\ e = PullEntry(b.pulls, a.pulls, attributed)
           /\ e \in d.entries => e.kind \in EntryKinds.remotes \cup EntryKinds.branches \cup EntryKinds.pull_requests
<1> DEFINE d == DiffRemoteSnapshots(b, a, attributed)
           inR == e \in DiffRemotes(b.remotes, a.remotes)
           inB == e \in DiffBranches(b, a, attributed)
           inP == b.pulls.open # a.pulls.open /\ e = PullEntry(b.pulls, a.pulls, attributed)
<1>1. inR => e.kind \in {"remote_added", "remote_removed", "remote_url_changed"}
  BY RemoteEntries DEF RemoteEntry, Entry
<1>2. inB => e.kind \in {"branch_created", "branch_moved", "branch_deleted"}
  BY BranchEntries DEF BranchEntry, Entry
<1>3. inP => e.kind \in {"pr_opened", "pr_updated", "pr_no_longer_open"}
  BY DEF PullEntry, Entry
<1>4. e \in d.entries <=> \/ "remotes" \in d.observed /\ inR
                          \/ "branches" \in d.observed /\ inB
                          \/ "pull_requests" \in d.observed /\ inP
  <2>1. d.entries =
            (IF b.remotes.ok /\ a.remotes.ok THEN DiffRemotes(b.remotes, a.remotes) ELSE {})
            \cup (IF b.branches.ok /\ a.branches.ok /\ b.remotes.ok /\ a.remotes.ok
                  THEN DiffBranches(b, a, attributed) ELSE {})
            \cup (IF b.pulls.ok /\ a.pulls.ok /\ b.pulls.repo = a.pulls.repo
                  THEN DiffPullRequests(b.pulls, a.pulls, attributed) ELSE {})
    BY DEF DiffRemoteSnapshots
  <2>2. inP <=> e \in DiffPullRequests(b.pulls, a.pulls, attributed)
    BY DEF DiffPullRequests, PullEntry
  <2>3. /\ "remotes" \in d.observed <=> b.remotes.ok /\ a.remotes.ok
        /\ "branches" \in d.observed <=> b.branches.ok /\ a.branches.ok /\ b.remotes.ok /\ a.remotes.ok
        /\ "pull_requests" \in d.observed <=> b.pulls.ok /\ a.pulls.ok /\ b.pulls.repo = a.pulls.repo
    BY DiffParts
  <2> HIDE DEF d, inP
  <2> QED BY <2>1, <2>2, <2>3
<1>5. /\ EntryKinds.remotes = {"remote_added", "remote_removed", "remote_url_changed"}
      /\ EntryKinds.branches = {"branch_created", "branch_moved", "branch_deleted"}
      /\ EntryKinds.pull_requests = {"pr_opened", "pr_updated", "pr_no_longer_open"}
  BY DEF EntryKinds
<1> SUFFICES /\ e \in d.entries /\ e.kind \in EntryKinds.remotes <=> "remotes" \in d.observed /\ inR
             /\ e \in d.entries /\ e.kind \in EntryKinds.branches <=> "branches" \in d.observed /\ inB
             /\ e \in d.entries /\ e.kind \in EntryKinds.pull_requests <=> "pull_requests" \in d.observed /\ inP
             /\ e \in d.entries => e.kind \in EntryKinds.remotes \cup EntryKinds.branches \cup EntryKinds.pull_requests
  OBVIOUS
<1> HIDE DEF d, inR, inB, inP
<1>6. CASE e \in d.entries
  BY <1>1, <1>2, <1>3, <1>4, <1>5, <1>6
<1>7. CASE e \notin d.entries
  BY <1>4, <1>7
<1> QED BY <1>6, <1>7

\* A diff's entries are exact on what it compared, and one per piece.
LEMMA DiffIsExact ==
    ASSUME NEW b \in SnapshotType, NEW a \in SnapshotType, NEW attributed
    PROVE  Exact(b, a, DiffRemoteSnapshots(b, a, attributed))
<1> DEFINE d == DiffRemoteSnapshots(b, a, attributed)
<1>1. ASSUME "remotes" \in d.observed, NEW r \in Remote
      PROVE  a.remotes.at[r] = Patched(d, "remotes", <<r>>, b.remotes.at[r])
  <2>1. \A e : e \in About(d, "remotes", <<r>>) <=>
            b.remotes.at[r] # a.remotes.at[r] /\ e = RemoteEntry(b.remotes, a.remotes, r)
    <3>1. \A e : e \in About(d, "remotes", <<r>>) <=>
                e \in DiffRemotes(b.remotes, a.remotes) /\ e.on = <<r>>
      BY <1>1, EntriesByPart DEF About
    <3>2. \A q : RemoteEntry(b.remotes, a.remotes, q).on = <<q>>
      BY DEF RemoteEntry, Entry
    <3>3. \A q : <<q>> = <<r>> => q = r
      OBVIOUS
    <3> HIDE DEF d
    <3> QED BY <3>1, <3>2, <3>3, RemoteEntries
  <2>2. RemoteEntry(b.remotes, a.remotes, r).new = a.remotes.at[r]
    BY DEF RemoteEntry, Entry
  <2> HIDE DEF d
  <2> QED BY <2>1, <2>2 DEF Patched
<1>2. ASSUME "branches" \in d.observed, NEW r \in Remote, NEW br \in Branch,
             <<"branches", r>> \notin d.skipped, b.remotes.at[r] # None
      PROVE  a.branches.refs[r][br] = Patched(d, "branches", <<r, br>>, b.branches.refs[r][br])
  <2>0. r \in Compared(b, a)
    BY <1>2, DiffParts DEF Skipped
  <2>1. \A e : e \in About(d, "branches", <<r, br>>) <=>
            b.branches.refs[r][br] # a.branches.refs[r][br] /\ e = BranchEntry(b, a, attributed, r, br)
    <3>1. \A e : e \in About(d, "branches", <<r, br>>) <=>
                e \in DiffBranches(b, a, attributed) /\ e.on = <<r, br>>
      BY <1>2, EntriesByPart DEF About
    <3>2. \A q, c : BranchEntry(b, a, attributed, q, c).on = <<q, c>>
      BY DEF BranchEntry, Entry
    <3>3. \A q, c : <<q, c>> = <<r, br>> => q = r /\ c = br
      OBVIOUS
    <3> HIDE DEF d
    <3> QED BY <2>0, <3>1, <3>2, <3>3, BranchEntries
  <2>2. BranchEntry(b, a, attributed, r, br).new = a.branches.refs[r][br]
    BY DEF BranchEntry, Entry
  <2> HIDE DEF d
  <2> QED BY <2>1, <2>2 DEF Patched
<1> HIDE DEF d
<1>3. Exact(b, a, d)
  BY <1>1, <1>2 DEF Exact
<1> QED BY <1>3 DEF d
----------------------------------------------------------------------------
(* The end of a leg. *)

\* What a reading says of remotes and pull requests is what they are.
LEMMA ReadAsItIs ==
    ASSUME WorldOK, NEW p, NEW down, NEW answers
    PROVE  LET t == TakeSnapshot(p, down, answers) IN
           /\ t.remotes.ok => config # "broken" /\ \A r \in Remote : t.remotes.at[r] = Reaches(remotes[r])
           /\ ~t.remotes.ok => \A r \in Remote : t.remotes.at[r] = None
           /\ t.pulls.ok => t.pulls.repo \in Url /\ t.pulls.open = pulls[t.pulls.repo]
BY GHRepoType DEF TakeSnapshot, TakeRemotes, TakePullRequests, NoRemotes, NoPulls

\* A snapshot to compare with, of the branches a reading found.
Stands(s, after) ==
    /\ s.branches = after.branches
    /\ s = after \/ Guarded
    /\ leg.before.remotes.ok /\ s.branches.ok

\* A branch that is compared was read at both ends from the same repository,
\* wherever its remote now points and whatever became of the config.
LEMMA ReadThere ==
    ASSUME RemoteInv, bracket = "leg", NEW down, NEW answers, NEW s, Stands(s, TakeSnapshot(pin, down, answers))
    PROVE  \A r \in Compared(leg.before, s) : s.branches.refs[r] = servers[leg.before.remotes.at[r]]
<1> SUFFICES ASSUME NEW r \in Remote, r \in Compared(leg.before, s)
             PROVE  s.branches.refs[r] = servers[leg.before.remotes.at[r]]
  BY DEF Compared
<1> DEFINE after == TakeSnapshot(pin, down, answers)
           was == leg.before.remotes.at[r]
<1>0. s.branches = after.branches /\ leg.before.remotes.ok /\ after.branches.ok
  BY DEF Stands
<1>1. was # None /\ PinIs(leg.before) /\ WorldOK /\ was \in Url \cup {None}
  BY DEF Compared, RemoteInv, SnapshotType, Configured
<1>2. after.branches.ok => after.branches.refs[r] = IF ReadFrom(pin)[r] = None THEN NoRefs[r] ELSE servers[ReadFrom(pin)[r]]
  BY DEF TakeSnapshot, TakeBranches, NoBranches
<1>3. CASE Guarded
  <2>1. pin.urls[r] = was /\ r \in Pinned(pin)
    BY <1>1, <1>3 DEF PinIs, Pinned
  <2>2. pin.config = "rewritten" => was = Mirror
    BY <1>1, <1>3, <2>1 DEF PinIs
  <2>3. pin.config \in {"launched", "rewritten"}
    BY <1>0, <1>1, <1>3 DEF PinIs
  <2>4. ReadFrom(pin)[r] = was
    BY <1>1, <2>1, <2>2, <2>3 DEF ReadFrom, ReadOutsideRepo, Reaches
  <2> QED BY <1>0, <1>1, <1>2, <2>4
<1>4. CASE ~Guarded
  <2>1. pin = NoPin /\ s = after
    BY <1>1, <1>4 DEF PinIs, Stands
  <2>2. Pinned(pin) = {}
    BY <2>1 DEF Pinned, NoPin
  <2>3. r \notin after.branches.through
    BY <2>2 DEF TakeSnapshot, TakeBranches, NoBranches
  <2>4. after.remotes.at[r] = was
    BY <2>1, <2>3 DEF Compared
  <2>5. config # "broken" /\ Reaches(remotes[r]) = was
    BY <1>1, <2>4, ReadAsItIs
  <2>6. ReadFrom(pin)[r] = was
    BY <2>2, <2>5 DEF ReadFrom
  <2> QED BY <1>0, <1>1, <1>2, <2>1, <2>6
<1> QED BY <1>3, <1>4

\* What a finished leg records: a diff with some snapshot, the after one or,
\* under guard, one that stands in for it.
Finds(diff, s, after, failed) ==
    LET base == DiffRemoteSnapshots(leg.before, s, Attributable(failed)) IN
    /\ s \in SnapshotType /\ s.branches = after.branches /\ s.pulls = after.pulls
    /\ s = after \/ (Guarded /\ s.remotes = leg.before.remotes)
    /\ "remotes" \in diff.observed => s = after
    /\ diff.entries = base.entries /\ diff.observed \ {"remotes"} = base.observed \ {"remotes"}
    /\ diff.observed \subseteq base.observed /\ base.skipped \subseteq diff.skipped
    /\ Names(diff)
    /\ Guarded /\ AttributionUnavailable(failed) => GuardOfLeg(diff) \cap RunBranchPart = {}

LEMMA FinishFinds ==
    ASSUME RemoteInv, NEW after \in SnapshotType, NEW failed \in BOOLEAN
    PROVE  \E s : Finds(FoundBy(after, failed), s, after, failed)
<1> DEFINE b == leg.before
           att == Attributable(failed)
           standIn == [after EXCEPT !.remotes = b.remotes]
           plain == DiffRemoteSnapshots(b, after, att)
           stood == [DiffRemoteSnapshots(b, standIn, att) EXCEPT
                        !.observed = @ \ {"remotes"}, !.skipped = @ \cup {<<"remotes", None>>}]
<1>1. b \in SnapshotType
  BY DEF RemoteInv
<1>2. standIn \in SnapshotType /\ standIn.branches = after.branches /\ standIn.pulls = after.pulls
      /\ standIn.remotes = b.remotes
  BY <1>1 DEF SnapshotType
<1>3. Names(plain) /\ Names(DiffRemoteSnapshots(b, standIn, att))
  BY <1>1, <1>2, DiffParts
<1>4. /\ stood.entries = DiffRemoteSnapshots(b, standIn, att).entries
      /\ stood.observed = DiffRemoteSnapshots(b, standIn, att).observed \ {"remotes"}
      /\ stood.skipped = DiffRemoteSnapshots(b, standIn, att).skipped \cup {<<"remotes", None>>}
  BY DEF DiffRemoteSnapshots
<1>5. Names(stood)
  <2> HIDE DEF stood, standIn
  <2> QED BY <1>3, <1>4 DEF Names, Part
<1>6. DiffGuardedRemoteSnapshots(b, after, att) \in {plain, stood}
  BY DEF DiffGuardedRemoteSnapshots
<1>7. ASSUME NEW d, NEW s, (d = plain /\ s = after) \/ (Guarded /\ d = stood /\ s = standIn)
      PROVE  /\ s \in SnapshotType /\ s.branches = after.branches /\ s.pulls = after.pulls
             /\ s = after \/ (Guarded /\ s.remotes = b.remotes)
             /\ "remotes" \in d.observed => s = after
             /\ d.entries = DiffRemoteSnapshots(b, s, att).entries
             /\ d.observed \ {"remotes"} = DiffRemoteSnapshots(b, s, att).observed \ {"remotes"}
             /\ d.observed \subseteq DiffRemoteSnapshots(b, s, att).observed
             /\ DiffRemoteSnapshots(b, s, att).skipped \subseteq d.skipped
             /\ Names(d)
  <2> HIDE DEF stood, standIn, plain
  <2>1. CASE d = plain /\ s = after
    BY <1>3, <2>1 DEF plain
  <2>2. CASE Guarded /\ d = stood /\ s = standIn
    BY <1>2, <1>4, <1>5, <2>2
  <2> QED BY <1>7, <2>1, <2>2
<1>8. CASE ~Guarded
  <2>1. FoundBy(after, failed) = plain
    BY <1>8 DEF FoundBy
  <2> HIDE DEF stood, standIn, plain
  <2>2. Finds(plain, after, after, failed)
    BY <1>7, <1>8 DEF Finds
  <2> QED BY <2>1, <2>2
<1>9. CASE Guarded
  <2>1. PICK d, s : /\ (d = plain /\ s = after) \/ (Guarded /\ d = stood /\ s = standIn)
                    /\ FoundBy(after, failed) = Noted(d, failed)
    <3>1. FoundBy(after, failed) = Noted(DiffGuardedRemoteSnapshots(b, after, att), failed)
      BY <1>9 DEF FoundBy
    <3> HIDE DEF stood, standIn, plain
    <3> QED BY <1>6, <1>9, <3>1
  <2> DEFINE n == Noted(d, failed)
             noted == {<<p, None>> : p \in d.observed \cap RunBranchPart}
  <2>2. d = [observed |-> d.observed, entries |-> d.entries, skipped |-> d.skipped]
    <3>1. plain = [observed |-> plain.observed, entries |-> plain.entries, skipped |-> plain.skipped]
      BY DEF DiffRemoteSnapshots
    <3>2. stood = [observed |-> stood.observed, entries |-> stood.entries, skipped |-> stood.skipped]
      <4> DEFINE base == DiffRemoteSnapshots(b, standIn, att)
      <4>1. base = [observed |-> base.observed, entries |-> base.entries, skipped |-> base.skipped]
        BY DEF DiffRemoteSnapshots
      <4>2. stood = [base EXCEPT !.observed = @ \ {"remotes"}, !.skipped = @ \cup {<<"remotes", None>>}]
        OBVIOUS
      <4> HIDE DEF stood, base, standIn
      <4>3. stood = [observed |-> base.observed \ {"remotes"}, entries |-> base.entries,
                     skipped |-> base.skipped \cup {<<"remotes", None>>}]
        BY <4>1, <4>2
      <4> QED BY <4>3
    <3> HIDE DEF stood, plain, standIn
    <3> QED BY <2>1, <3>1, <3>2
  <2>3. /\ n.entries = d.entries /\ n.observed = d.observed
        /\ n.skipped = IF AttributionUnavailable(failed) THEN d.skipped \cup noted ELSE d.skipped
    BY <2>2 DEF Noted
  <2> HIDE DEF stood, standIn, plain, n, noted
  <2>4. Names(n)
    <3>1. Names(d)
      BY <1>7, <2>1
    <3>2. \A x \in noted : x[1] \in Part
      BY DEF noted, RunBranchPart, Part
    <3> QED BY <2>3, <3>1, <3>2 DEF Names
  <2>5. AttributionUnavailable(failed) => GuardOfLeg(n) \cap RunBranchPart = {}
    <3> SUFFICES ASSUME AttributionUnavailable(failed), NEW p \in GuardOfLeg(n), p \in RunBranchPart PROVE FALSE
      OBVIOUS
    <3>1. <<p, None>> \in n.skipped
      BY <2>3 DEF GuardOfLeg, noted
    <3> QED BY <3>1 DEF GuardOfLeg
  <2>6. Finds(n, s, after, failed)
    BY <1>7, <1>9, <2>1, <2>3, <2>4, <2>5 DEF Finds
  <2> QED BY <2>1, <2>6 DEF n
<1> QED BY <1>8, <1>9
ComparedIs(diff, s) ==
    LET b == leg.before IN
    /\ "remotes" \in diff.observed =>
         /\ b.remotes.ok /\ s.remotes.ok
         /\ \A r \in Remote : s.remotes.at[r] = Reaches(remotes[r])
    /\ "branches" \in diff.observed =>
         /\ b.remotes.ok /\ s.remotes.ok /\ b.branches.ok /\ s.branches.ok
         /\ \A r \in Compared(b, s) :
               /\ r \in Remote /\ b.remotes.at[r] \in Url
               /\ b.branches.refs[r] = began.servers[b.remotes.at[r]]
               /\ s.branches.refs[r] = servers[b.remotes.at[r]]
         /\ \A r \in Remote : b.remotes.at[r] # None /\ <<"branches", r>> \notin diff.skipped => r \in Compared(b, s)
    /\ "pull_requests" \in diff.observed =>
         /\ b.pulls.ok /\ s.pulls.ok /\ b.pulls.repo = s.pulls.repo /\ b.pulls.repo \in Url
         /\ b.pulls.open = began.pulls[b.pulls.repo] /\ s.pulls.open = pulls[b.pulls.repo]

\* What a finished leg compared, it compared with what the leg began with.
LEMMA ComparedThere ==
    ASSUME RemoteInv, bracket = "leg", NEW down \in SUBSET Url, NEW answers \in BOOLEAN, NEW failed \in BOOLEAN, NEW diff, NEW s,
           Finds(diff, s, TakeSnapshot(pin, down, answers), failed)
    PROVE  ComparedIs(diff, s)
<1> DEFINE b == leg.before
           after == TakeSnapshot(pin, down, answers)
           base == DiffRemoteSnapshots(b, s, Attributable(failed))
<1>1. b \in SnapshotType /\ WorldOK /\ BeforeIs(b)
  BY DEF RemoteInv
<1>2. /\ s \in SnapshotType /\ s.branches = after.branches /\ s.pulls = after.pulls
      /\ s = after \/ Guarded
      /\ "remotes" \in diff.observed => s = after
      /\ diff.observed \subseteq base.observed /\ base.skipped \subseteq diff.skipped
  BY DEF Finds
<1> HIDE DEF base
<1>3. ASSUME "remotes" \in diff.observed
      PROVE  b.remotes.ok /\ s.remotes.ok /\ \A r \in Remote : s.remotes.at[r] = Reaches(remotes[r])
  <2>1. b.remotes.ok /\ s.remotes.ok
    BY <1>1, <1>2, <1>3, DiffParts DEF base
  <2> QED BY <1>1, <1>2, <1>3, <2>1, ReadAsItIs
<1>4. ASSUME "branches" \in diff.observed
      PROVE  /\ b.remotes.ok /\ s.remotes.ok /\ b.branches.ok /\ s.branches.ok
             /\ \A r \in Compared(b, s) :
                   /\ r \in Remote /\ b.remotes.at[r] \in Url
                   /\ b.branches.refs[r] = began.servers[b.remotes.at[r]]
                   /\ s.branches.refs[r] = servers[b.remotes.at[r]]
             /\ \A r \in Remote : b.remotes.at[r] # None /\ <<"branches", r>> \notin diff.skipped => r \in Compared(b, s)
  <2>1. b.remotes.ok /\ s.remotes.ok /\ b.branches.ok /\ s.branches.ok /\ "branches" \in base.observed
    BY <1>1, <1>2, <1>4, DiffParts DEF base
  <2>2. ASSUME NEW r \in Compared(b, s)
        PROVE  r \in Remote /\ b.remotes.at[r] # None /\ b.remotes.at[r] \in Url
    <3>1. r \in Remote /\ b.remotes.at[r] # None
      BY DEF Compared
    <3>2. b.remotes.at \in [Remote -> Url \cup {None}]
      BY <1>1 DEF SnapshotType, Configured
    <3> QED BY <3>1, <3>2
  <2>5. \A r \in Compared(b, s) : s.branches.refs[r] = servers[b.remotes.at[r]]
    <3>1. Stands(s, after)
      BY <1>2, <2>1 DEF Stands
    <3> QED BY <3>1, ReadThere
  <2>3. ASSUME NEW r \in Compared(b, s)
        PROVE  b.branches.refs[r] = began.servers[b.remotes.at[r]] /\ s.branches.refs[r] = servers[b.remotes.at[r]]
    <3>1. b.branches.refs[r] = began.servers[b.remotes.at[r]]
      BY <1>1, <2>1, <2>2 DEF BeforeIs
    <3>2. s.branches.refs[r] = servers[b.remotes.at[r]]
      BY <2>5
    <3> QED BY <3>1, <3>2
  <2>4. ASSUME NEW r \in Remote, b.remotes.at[r] # None, <<"branches", r>> \notin diff.skipped
        PROVE  r \in Compared(b, s)
    <3>1. <<"branches", r>> \notin base.skipped
      BY <1>2, <2>4
    <3>2. r \notin Skipped(b, s)
      BY <1>1, <1>2, <2>1, <3>1, DiffParts DEF base
    <3> QED BY <2>4, <3>2 DEF Skipped
  <2> QED BY <2>1, <2>2, <2>3, <2>4
<1>5. ASSUME "pull_requests" \in diff.observed
      PROVE  /\ b.pulls.ok /\ s.pulls.ok /\ b.pulls.repo = s.pulls.repo /\ b.pulls.repo \in Url
             /\ b.pulls.open = began.pulls[b.pulls.repo] /\ s.pulls.open = pulls[b.pulls.repo]
  <2>1. b.pulls.ok /\ s.pulls.ok /\ b.pulls.repo = s.pulls.repo
    BY <1>1, <1>2, <1>5, DiffParts DEF base
  <2>2. s.pulls.open = pulls[s.pulls.repo]
    BY <1>1, <1>2, <2>1, ReadAsItIs
  <2> QED BY <1>1, <2>1, <2>2 DEF BeforeIs
<1> QED BY <1>3, <1>4, <1>5 DEF ComparedIs

\* A guarded leg that passes hid nothing of what it claims, and one that fails
\* has something to show.
LEMMA GuardTells ==
    ASSUME RemoteInv, bracket = "leg", Guarded,
           NEW down \in SUBSET Url, NEW answers \in BOOLEAN, NEW failed \in BOOLEAN, NEW diff, NEW s,
           Finds(diff, s, TakeSnapshot(pin, down, answers), failed)
    PROVE  /\ ~began.shallow /\ (\A e \in diff.entries : ~Forbidden(e)) => NothingHidden(leg.before, GuardOfLeg(diff))
           /\ (\E e \in diff.entries : Forbidden(e)) =>
                \/ \E u \in Url, b \in Branch : began.servers[u][b] = None /\ servers[u][b] = "ours"
                \/ \E u \in Url : began.pulls[u] = None /\ pulls[u] = "ours"
                \/ \E r \in Remote : began.remotes[r] = None /\ remotes[r] # None
<1> DEFINE b == leg.before
           att == Attributable(failed)
           base == DiffRemoteSnapshots(b, s, att)
<1>1. b \in SnapshotType /\ WorldOK /\ BeforeIs(b) /\ pin.shallow = began.shallow
  BY DEF RemoteInv, PinIs
<1>2. /\ s \in SnapshotType
      /\ diff.entries = base.entries /\ diff.observed \subseteq base.observed
      /\ "branches" \in base.observed => "branches" \in diff.observed
      /\ "pull_requests" \in base.observed => "pull_requests" \in diff.observed
      /\ "remotes" \in diff.observed => s = TakeSnapshot(pin, down, answers)
      /\ s = TakeSnapshot(pin, down, answers) \/ s.remotes = b.remotes
      /\ AttributionUnavailable(failed) => GuardOfLeg(diff) \cap RunBranchPart = {}
  BY DEF Finds
<1>3. /\ \A e : e \in base.entries /\ e.kind \in EntryKinds.remotes <=>
                "remotes" \in base.observed /\ e \in DiffRemotes(b.remotes, s.remotes)
      /\ \A e : e \in base.entries /\ e.kind \in EntryKinds.branches <=>
                "branches" \in base.observed /\ e \in DiffBranches(b, s, att)
      /\ \A e : e \in base.entries /\ e.kind \in EntryKinds.pull_requests <=>
                /\ "pull_requests" \in base.observed /\ b.pulls.open # s.pulls.open
                /\ e = PullEntry(b.pulls, s.pulls, att)
  BY <1>1, <1>2, EntriesByPart
<1>c. ComparedIs(diff, s)
  BY ComparedThere
<1>4. att \subseteq {"ours"}
  BY DEF Attributable
<1> HIDE DEF base, att
<1>5. ASSUME ~began.shallow, \A e \in diff.entries : ~Forbidden(e), NEW p \in GuardOfLeg(diff)
      PROVE  /\ p \in diff.observed /\ p \in base.observed /\ \A x \in diff.skipped : x[1] # p
             /\ p \in RunBranchPart => "ours" \in att
  <2>1. p \in RunBranchPart => ~AttributionUnavailable(failed)
    BY <1>2
  <2>2. p \in RunBranchPart => "ours" \in att
    BY <1>1, <1>5, <2>1 DEF AttributionUnavailable, Attributable, att
  <2> QED BY <1>2, <2>2 DEF GuardOfLeg
<1>6. ASSUME ~began.shallow, \A e \in diff.entries : ~Forbidden(e), "branches" \in GuardOfLeg(diff),
             NEW r \in Remote, NEW br \in Branch, b.remotes.at[r] # None,
             began.servers[b.remotes.at[r]][br] = None, servers[b.remotes.at[r]][br] = "ours"
      PROVE  FALSE
  <2>1. "branches" \in diff.observed /\ "branches" \in base.observed /\ "ours" \in att /\ <<"branches", r>> \notin diff.skipped
    BY <1>5, <1>6 DEF RunBranchPart
  <2>2. r \in Compared(b, s) /\ b.branches.refs[r][br] = None /\ s.branches.refs[r][br] = "ours"
    BY <1>6, <1>c, <2>1 DEF ComparedIs
  <2>3. BranchEntry(b, s, att, r, br) \in DiffBranches(b, s, att)
    BY <2>2, BranchEntries DEF None
  <2>4. Forbidden(BranchEntry(b, s, att, r, br))
    BY <2>1, <2>2 DEF BranchEntry, Entry, Forbidden, None
  <2> QED BY <1>2, <1>3, <1>6, <2>1, <2>3, <2>4
<1>7. ASSUME ~began.shallow, \A e \in diff.entries : ~Forbidden(e), "pull_requests" \in GuardOfLeg(diff),
             began.pulls[b.pulls.repo] = None, pulls[b.pulls.repo] = "ours"
      PROVE  FALSE
  <2>1. "pull_requests" \in diff.observed /\ "pull_requests" \in base.observed /\ "ours" \in att
    BY <1>5, <1>7 DEF RunBranchPart
  <2>2. b.pulls.open = None /\ s.pulls.open = "ours"
    BY <1>7, <1>c, <2>1 DEF ComparedIs
  <2>3. Forbidden(PullEntry(b.pulls, s.pulls, att)) /\ b.pulls.open # s.pulls.open
    BY <2>1, <2>2 DEF PullEntry, Entry, Forbidden, None
  <2> QED BY <1>2, <1>3, <1>7, <2>1, <2>3
<1>8. ASSUME ~began.shallow, \A e \in diff.entries : ~Forbidden(e), "remotes" \in GuardOfLeg(diff),
             NEW r \in Remote, b.remotes.at[r] = None, remotes[r] # None
      PROVE  FALSE
  <2>1. "remotes" \in diff.observed /\ "remotes" \in base.observed
    BY <1>5, <1>8
  <2>2. s.remotes.at[r] = Reaches(remotes[r])
    BY <1>c, <2>1 DEF ComparedIs
  <2>3. s.remotes.at[r] # None
    BY <1>1, <1>8, <2>2, ReachesType DEF WorldOK, Configured
  <2>4. RemoteEntry(b.remotes, s.remotes, r) \in DiffRemotes(b.remotes, s.remotes)
    BY <1>8, <2>3, RemoteEntries
  <2>5. Forbidden(RemoteEntry(b.remotes, s.remotes, r))
    BY <1>8 DEF RemoteEntry, Entry, Forbidden
  <2> QED BY <1>2, <1>3, <1>8, <2>1, <2>4, <2>5
<1>9. ~began.shallow /\ (\A e \in diff.entries : ~Forbidden(e)) => NothingHidden(b, GuardOfLeg(diff))
  BY <1>6, <1>7, <1>8 DEF NothingHidden
<1>10. ASSUME NEW e \in diff.entries, Forbidden(e)
       PROVE  \/ \E u \in Url, br \in Branch : began.servers[u][br] = None /\ servers[u][br] = "ours"
              \/ \E u \in Url : began.pulls[u] = None /\ pulls[u] = "ours"
              \/ \E r \in Remote : began.remotes[r] = None /\ remotes[r] # None
  <2>1. CASE e.kind = "remote_added"
    <3>1. "remotes" \in base.observed /\ e \in DiffRemotes(b.remotes, s.remotes)
      BY <1>2, <1>3, <2>1 DEF EntryKinds
    <3>2. PICK r \in Remote : b.remotes.at[r] # s.remotes.at[r] /\ e = RemoteEntry(b.remotes, s.remotes, r)
      BY <3>1, RemoteEntries
    <3>3. b.remotes.at[r] = None
      BY <2>1, <3>2 DEF RemoteEntry, Entry
    <3>4. s = TakeSnapshot(pin, down, answers)
      BY <1>2, <3>2
    <3>5. b.remotes.ok /\ s.remotes.ok
      BY <1>1, <1>2, <3>1, DiffParts DEF base
    <3>6. s.remotes.at[r] = Reaches(remotes[r]) /\ began.remotes[r] = None
      BY <1>1, <3>3, <3>4, <3>5, ReadAsItIs DEF BeforeIs
    <3>7. remotes[r] # None
      BY <1>1, <3>2, <3>3, <3>6, ReachesType DEF WorldOK, Configured
    <3> QED BY <3>6, <3>7
  <2>2. CASE e.kind = "branch_created" /\ e.run
    <3>1. "branches" \in base.observed /\ e \in DiffBranches(b, s, att)
      BY <1>2, <1>3, <2>2 DEF EntryKinds
    <3>2. PICK r \in Compared(b, s), br \in Branch : e = BranchEntry(b, s, att, r, br)
      BY <3>1, BranchEntries
    <3>3. b.branches.refs[r][br] = None /\ s.branches.refs[r][br] \in att
      BY <2>2, <3>2 DEF BranchEntry, Entry
    <3>4. b.branches.refs[r] = began.servers[b.remotes.at[r]] /\ s.branches.refs[r] = servers[b.remotes.at[r]]
          /\ b.remotes.at[r] \in Url
      BY <1>2, <1>c, <3>1 DEF ComparedIs
    <3> QED BY <1>4, <3>3, <3>4
  <2>3. CASE e.kind = "pr_opened" /\ e.run
    <3>1. "pull_requests" \in base.observed /\ e = PullEntry(b.pulls, s.pulls, att)
      BY <1>2, <1>3, <2>3 DEF EntryKinds
    <3>2. b.pulls.open = None /\ s.pulls.open \in att
      BY <2>3, <3>1 DEF PullEntry, Entry
    <3>3. b.pulls.repo \in Url /\ b.pulls.open = began.pulls[b.pulls.repo] /\ s.pulls.open = pulls[b.pulls.repo]
      BY <1>2, <1>c, <3>1 DEF ComparedIs
    <3> QED BY <1>4, <3>2, <3>3
  <2> QED BY <1>10, <2>1, <2>2, <2>3 DEF Forbidden
<1> QED BY <1>9, <1>10
\* Between them, the parts compared and those named as not compared are all.
LEMMA BlockNamesAll ==
    ASSUME RemoteInv, NEW l, l.ended, Names(l.changes)
    PROVE  LET block == RemoteChangesBlock(l, between) IN
           /\ block.compared \cup block.notCompared = Part
           /\ \A p \in block.compared : p \in l.changes.observed /\ p \notin NotCompared(l.changes)
           /\ l.changes.entries \subseteq block.entries
<1> DEFINE sources == RemoteDiffSources(l, between)
           block == RemoteChangesBlock(l, between)
<1>1. l.changes \in sources
  BY DEF RemoteDiffSources, OwnDiff
<1>2. \A d \in sources : Names(d)
  BY DEF RemoteDiffSources, OwnDiff, RemoteInv
<1> HIDE DEF sources
<1>3. /\ block.compared = {p \in Part : \A d \in sources : p \in d.observed \ NotCompared(d)}
      /\ block.notCompared = UNION {NotCompared(d) : d \in sources}
      /\ block.entries = UNION {d.entries : d \in sources}
  BY DEF RemoteChangesBlock, sources
<1> HIDE DEF block
<1>4. ASSUME NEW d \in sources PROVE NotCompared(d) \subseteq Part
  BY <1>2 DEF NotCompared, Names
<1>5. ASSUME NEW d \in sources, NEW p \in Part, p \notin d.observed
      PROVE  p \in NotCompared(d)
  <2>1. <<p, None>> \in d.skipped
    BY <1>2, <1>5 DEF Names
  <2>2. <<p, None>> \notin NotAttributable(d) /\ <<p, None>>[1] = p
    BY <1>5 DEF NotAttributable
  <2> QED BY <2>1, <2>2 DEF NotCompared
<1>6. block.compared \cup block.notCompared = Part
  BY <1>3, <1>4, <1>5
<1> QED BY <1>1, <1>3, <1>6 DEF block

LEMMA AssessorSees ==
    ASSUME RemoteInv, bracket = "leg",
           NEW down \in SUBSET Url, NEW answers \in BOOLEAN, NEW failed \in BOOLEAN, NEW diff, NEW s,
           Finds(diff, s, TakeSnapshot(pin, down, answers), failed), NEW l, l.ended, l.changes = diff
    PROVE  NothingMoved(leg.before, RemoteChangesBlock(l, between))
<1> DEFINE b == leg.before
           att == Attributable(failed)
           base == DiffRemoteSnapshots(b, s, att)
           block == RemoteChangesBlock(l, between)
<1>1. b \in SnapshotType /\ WorldOK
  BY DEF RemoteInv
<1>2. s \in SnapshotType /\ diff.entries = base.entries /\ diff.observed \subseteq base.observed /\ Names(diff)
  BY DEF Finds
<1>3. /\ \A e : e \in base.entries /\ e.kind \in EntryKinds.remotes <=>
                "remotes" \in base.observed /\ e \in DiffRemotes(b.remotes, s.remotes)
      /\ \A e : e \in base.entries /\ e.kind \in EntryKinds.branches <=>
                "branches" \in base.observed /\ e \in DiffBranches(b, s, att)
      /\ \A e : e \in base.entries /\ e.kind \in EntryKinds.pull_requests <=>
                /\ "pull_requests" \in base.observed /\ b.pulls.open # s.pulls.open
                /\ e = PullEntry(b.pulls, s.pulls, att)
  BY <1>1, <1>2, EntriesByPart
<1>c. ComparedIs(diff, s)
  BY ComparedThere
<1>b. /\ block.compared \cup block.notCompared = Part
      /\ \A p \in block.compared : p \in diff.observed /\ p \notin NotCompared(diff)
      /\ diff.entries \subseteq block.entries
  BY <1>2, BlockNamesAll
<1> HIDE DEF base, att, block
<1>4. ASSUME NEW p, Silent(block, p)
      PROVE  /\ p \in diff.observed /\ p \in base.observed /\ p \notin NotCompared(diff)
             /\ \A e \in base.entries : e.kind \notin EntryKinds[p]
  BY <1>2, <1>4, <1>b DEF Silent
<1>5. ASSUME Silent(block, "remotes"), NEW r \in Remote
      PROVE  Reaches(remotes[r]) = b.remotes.at[r]
  <2>1. s.remotes.at[r] = Reaches(remotes[r])
    BY <1>4, <1>5, <1>c DEF ComparedIs
  <2>2. \A e : e \notin DiffRemotes(b.remotes, s.remotes)
    BY <1>3, <1>4, <1>5
  <2> QED BY <2>1, <2>2, RemoteEntries
<1>6. ASSUME Silent(block, "branches"), NEW r \in Remote, b.remotes.at[r] # None
      PROVE  servers[b.remotes.at[r]] = began.servers[b.remotes.at[r]]
  <2>1. <<"branches", r>> \notin diff.skipped
    <3> SUFFICES ASSUME <<"branches", r>> \in diff.skipped PROVE FALSE
      OBVIOUS
    <3>1. r # None
      BY RemoteAssumption DEF None
    <3>2. <<"branches", r>> \notin NotAttributable(diff) /\ <<"branches", r>>[1] = "branches"
      BY <3>1 DEF NotAttributable
    <3>3. "branches" \in NotCompared(diff)
      BY <3>2 DEF NotCompared
    <3> QED BY <1>4, <1>6, <3>3
  <2>2. /\ r \in Compared(b, s) /\ b.remotes.at[r] \in Url
        /\ b.branches.refs[r] = began.servers[b.remotes.at[r]] /\ s.branches.refs[r] = servers[b.remotes.at[r]]
    BY <1>4, <1>6, <1>c, <2>1 DEF ComparedIs
  <2>3. \A e : e \notin DiffBranches(b, s, att)
    BY <1>3, <1>4, <1>6
  <2>4. \A br \in Branch : b.branches.refs[r][br] = s.branches.refs[r][br]
    <3> SUFFICES ASSUME NEW br \in Branch, b.branches.refs[r][br] # s.branches.refs[r][br] PROVE FALSE
      OBVIOUS
    <3>1. BranchEntry(b, s, att, r, br) \in DiffBranches(b, s, att)
      <4>1. \A e : e \in DiffBranches(b, s, att) <=>
              \E q \in Compared(b, s), br1 \in Branch :
                b.branches.refs[q][br1] # s.branches.refs[q][br1] /\ e = BranchEntry(b, s, att, q, br1)
        BY BranchEntries
      <4> QED BY <2>2, <4>1
    <3> QED BY <2>3, <3>1
  <2>5. servers[b.remotes.at[r]] \in [Branch -> RemoteCommit \cup {None}]
         /\ began.servers[b.remotes.at[r]] \in [Branch -> RemoteCommit \cup {None}]
    BY <1>1, <2>2 DEF WorldOK, Past
  <2>6. \A br \in Branch : servers[b.remotes.at[r]][br] = began.servers[b.remotes.at[r]][br]
    BY <2>2, <2>4
  <2>7. ASSUME NEW f \in [Branch -> RemoteCommit \cup {None}], NEW g \in [Branch -> RemoteCommit \cup {None}],
               \A br \in Branch : f[br] = g[br]
        PROVE  f = g
    BY <2>7
  <2> QED BY <2>5, <2>6, <2>7
<1>7. ASSUME Silent(block, "pull_requests")
      PROVE  pulls[b.pulls.repo] = began.pulls[b.pulls.repo]
  <2>1. b.pulls.open = began.pulls[b.pulls.repo] /\ s.pulls.open = pulls[b.pulls.repo]
    BY <1>4, <1>7, <1>c DEF ComparedIs
  <2>2. PullEntry(b.pulls, s.pulls, att).kind \in EntryKinds.pull_requests
    BY DEF PullEntry, Entry, EntryKinds
  <2>3. b.pulls.open = s.pulls.open
    BY <1>3, <1>4, <1>7, <2>2
  <2> QED BY <2>1, <2>3
<1> QED BY <1>5, <1>6, <1>7, <1>b DEF NothingMoved, block

\* A record with the entries of an exact one, which names no more as compared.
LEMMA ExactOfRead ==
    ASSUME RemoteInv, NEW after \in SnapshotType, NEW failed \in BOOLEAN, NEW diff, NEW s, Finds(diff, s, after, failed)
    PROVE  Exact(leg.before, after, diff)
<1> DEFINE base == DiffRemoteSnapshots(leg.before, s, Attributable(failed))
<1>1. Exact(leg.before, s, base)
  BY DiffIsExact DEF Finds, RemoteInv
<1>2. /\ s.branches = after.branches
      /\ "remotes" \in diff.observed => s = after
      /\ diff.entries = base.entries /\ diff.observed \subseteq base.observed /\ base.skipped \subseteq diff.skipped
  BY DEF Finds
<1> HIDE DEF base
<1>3. \A p, on, was : Patched(diff, p, on, was) = Patched(base, p, on, was)
  BY <1>2 DEF Patched, About
<1>4. ASSUME "remotes" \in diff.observed, NEW r \in Remote
      PROVE  after.remotes.at[r] = Patched(diff, "remotes", <<r>>, leg.before.remotes.at[r])
  <2>1. s.remotes.at[r] = Patched(base, "remotes", <<r>>, leg.before.remotes.at[r])
    BY <1>1, <1>2, <1>4 DEF Exact
  <2> QED BY <1>2, <1>3, <1>4, <2>1
<1>5. ASSUME "branches" \in diff.observed, NEW r \in Remote, NEW br \in Branch
      PROVE  \/ <<"branches", r>> \in diff.skipped \/ leg.before.remotes.at[r] = None
             \/ after.branches.refs[r][br] =
                   Patched(diff, "branches", <<r, br>>, leg.before.branches.refs[r][br])
  <2>1. \/ <<"branches", r>> \in base.skipped \/ leg.before.remotes.at[r] = None
        \/ s.branches.refs[r][br] =
              Patched(base, "branches", <<r, br>>, leg.before.branches.refs[r][br])
    BY <1>1, <1>2, <1>5 DEF Exact
  <2>2. Patched(diff, "branches", <<r, br>>, leg.before.branches.refs[r][br])
          = Patched(base, "branches", <<r, br>>, leg.before.branches.refs[r][br])
    BY <1>3
  <2> QED BY <1>2, <2>1, <2>2
<1> QED BY <1>4, <1>5 DEF Exact

Judged == GuardHolds /\ RecordIsExact /\ AssessorTold

LEMMA JudgedStep ==
    ASSUME RemoteInv, [RemoteNext]_remoteVars
    PROVE  Judged
<1>1. ASSUME leg' = leg, remoteLegs' = remoteLegs PROVE Judged
  BY <1>1 DEF Judged, GuardHolds, RecordIsExact, AssessorTold, Ends, Begins
<1>2. ASSUME BeginLeg PROVE Judged
  <2>1. PICK down \in SUBSET Url, answers \in BOOLEAN :
          /\ leg' = RecordLeg(TakeSnapshot(NoPin, down, answers))
          /\ between' = IF remoteLegs = 0 THEN NoDiff ELSE BetweenLegs(TakeSnapshot(NoPin, down, answers))
    BY <1>2 DEF BeginLeg
  <2> DEFINE b == TakeSnapshot(NoPin, down, answers)
             gap == DiffRemoteSnapshots(leg.after, b, NothingAttributed)
  <2>2. b \in SnapshotType /\ leg.after \in SnapshotType
    <3>1. NoPin.urls \in Configured
      BY DEF NoPin, Configured
    <3> QED BY <3>1, SnapshotTyped DEF RemoteInv
  <2>3. ~Ends /\ leg'.before = b
    BY <2>1 DEF Ends, RecordLeg
  <2>4. Exact(leg.after, b, gap)
    BY <2>2, DiffIsExact
  <2>5. exit = "interrupted" => gap.observed = {}
    <3> SUFFICES ASSUME exit = "interrupted" PROVE gap.observed = {}
      OBVIOUS
    <3>1. ~leg.after.remotes.ok /\ ~leg.after.branches.ok /\ ~leg.after.pulls.ok
      BY DEF RemoteInv, Unavailable, NoRemotes, NoBranches, NoPulls
    <3>2. "remotes" \notin gap.observed /\ "branches" \notin gap.observed /\ "pull_requests" \notin gap.observed
          /\ gap.observed \subseteq Part
      BY <2>2, <3>1, DiffParts DEF Names
    <3> QED BY <3>2 DEF Part
  <2>6. \A e \in gap.entries : ~e.run
    <3> SUFFICES ASSUME NEW e \in gap.entries PROVE ~e.run
      OBVIOUS
    <3>1. \/ e \in DiffRemotes(leg.after.remotes, b.remotes)
          \/ e \in DiffBranches(leg.after, b, NothingAttributed)
          \/ e = PullEntry(leg.after.pulls, b.pulls, NothingAttributed)
      BY <2>2, EntriesByPart
    <3>2. ASSUME e \in DiffRemotes(leg.after.remotes, b.remotes) PROVE ~e.run
      BY <3>2, RemoteEntries DEF RemoteEntry, Entry
    <3>3. ASSUME e \in DiffBranches(leg.after, b, NothingAttributed) PROVE ~e.run
      <4>1. PICK r \in Compared(leg.after, b), br \in Branch :
              e = BranchEntry(leg.after, b, NothingAttributed, r, br)
        BY <3>3, BranchEntries
      <4> HIDE DEF b, gap
      <4>2. e.run = (b.branches.refs[r][br] \in {})
        BY <4>1 DEF BranchEntry, Entry, NothingAttributed
      <4> QED BY <4>2
    <3>4. ASSUME e = PullEntry(leg.after.pulls, b.pulls, NothingAttributed) PROVE ~e.run
      BY <3>4 DEF PullEntry, Entry, NothingAttributed
    <3> QED BY <3>1, <3>2, <3>3, <3>4
  <2> HIDE DEF b, gap
  <2>7. ASSUME remoteLegs > 0, leg.ended
        PROVE  between' = gap
    <3>1. remoteLegs # 0
      BY <2>7 DEF RemoteInv
    <3> QED BY <2>1, <2>7, <3>1 DEF BetweenLegs, b, gap
  <2>8. ASSUME remoteLegs > 0, ~leg.ended
        PROVE  between'.observed = {} /\ between'.entries = {}
    <3>1. remoteLegs # 0
      BY <2>8 DEF RemoteInv
    <3>2. between' = [NoDiff EXCEPT !.skipped = {<<p, None>> : p \in Part}]
      BY <2>1, <2>8, <3>1 DEF BetweenLegs
    <3> QED BY <3>2 DEF NoDiff
  <2>9. ASSUME Begins
        PROVE  /\ leg.ended => Exact(leg.after, leg'.before, between')
               /\ exit \in {"interrupted", "none"} => between'.observed = {}
               /\ \A e \in between'.entries : ~e.run
    <3>1. leg.ended \in BOOLEAN /\ (exit = "none" => ~leg.ended)
      BY DEF RemoteInv
    <3> QED BY <2>3, <2>4, <2>5, <2>6, <2>7, <2>8, <2>9, <3>1 DEF Begins
  <2> QED BY <2>3, <2>9 DEF Judged, GuardHolds, RecordIsExact, AssessorTold
<1>3. ASSUME FinishLeg PROVE Judged
  <2>1. bracket = "leg" /\ pin.urls \in Configured
    BY <1>3, PinTyped DEF FinishLeg
  <2>2. PICK down \in SUBSET Url, answers \in BOOLEAN, failed \in BOOLEAN :
          EndWith(TakeSnapshot(pin, down, answers), FoundBy(TakeSnapshot(pin, down, answers), failed),
                  Verdict(FoundBy(TakeSnapshot(pin, down, answers), failed)))
    BY <1>3 DEF FinishLeg, FoundBy, Verdict
  <2> DEFINE after == TakeSnapshot(pin, down, answers)
             diff == FoundBy(after, failed)
  <2>3. after \in SnapshotType
    BY <2>1, SnapshotTyped DEF RemoteInv
  <2>4. PICK s : Finds(diff, s, after, failed)
    BY <2>3, FinishFinds
  <2>5. /\ leg' = [leg EXCEPT !.ended = TRUE, !.after = after, !.changes = diff]
        /\ exit' = Verdict(diff) /\ between' = between /\ remoteLegs' = remoteLegs
    BY <2>2 DEF EndWith
  <2> HIDE DEF diff
  <2>6. leg'.ended = TRUE /\ leg'.after = after /\ leg'.changes = diff
    BY <2>5 DEF RemoteInv
  <2>7. Guarded => /\ exit' = "as scheduled" /\ ~began.shallow => NothingHidden(leg.before, GuardOfLeg(diff))
                   /\ exit' = "forbidden" =>
                        \/ \E u \in Url, b \in Branch : began.servers[u][b] = None /\ servers[u][b] = "ours"
                        \/ \E u \in Url : began.pulls[u] = None /\ pulls[u] = "ours"
                        \/ \E r \in Remote : began.remotes[r] = None /\ remotes[r] # None
    <3> SUFFICES ASSUME Guarded
                 PROVE  /\ exit' = "as scheduled" /\ ~began.shallow => NothingHidden(leg.before, GuardOfLeg(diff))
                        /\ exit' = "forbidden" =>
                             \/ \E u \in Url, b \in Branch : began.servers[u][b] = None /\ servers[u][b] = "ours"
                             \/ \E u \in Url : began.pulls[u] = None /\ pulls[u] = "ours"
                             \/ \E r \in Remote : began.remotes[r] = None /\ remotes[r] # None
      OBVIOUS
    <3>1. exit' = "as scheduled" => \A e \in diff.entries : ~Forbidden(e)
      BY <2>5 DEF Verdict
    <3>2. exit' = "forbidden" => \E e \in diff.entries : Forbidden(e)
      BY <2>5 DEF Verdict
    <3> QED BY <2>1, <2>4, <3>1, <3>2, GuardTells
  <2>8. Exact(leg.before, after, diff)
    BY <2>3, <2>4, ExactOfRead
  <2>9. NothingMoved(leg.before, RemoteChangesBlock(leg', between'))
    <3>1. leg'.ended
      BY <2>6
    <3>2. NothingMoved(leg.before, RemoteChangesBlock(leg', between))
      BY <2>1, <2>4, <2>6, <3>1, AssessorSees
    <3> QED BY <2>5, <3>2
  <2>10. ~Begins /\ exit' # "interrupted"
    BY <2>5 DEF Begins, Verdict
  <2> QED BY <2>6, <2>7, <2>8, <2>9, <2>10 DEF Judged, GuardHolds, RecordIsExact, AssessorTold
<1>4. ASSUME Interrupt PROVE Judged
  <2> DEFINE diff == DiffRemoteSnapshots(leg.before, Unavailable, {})
  <2>1. /\ leg' = [leg EXCEPT !.ended = TRUE, !.after = Unavailable, !.changes = diff]
        /\ exit' = "interrupted" /\ between' = between /\ remoteLegs' = remoteLegs
    BY <1>4 DEF Interrupt, EndWith, InterruptedRemoteSnapshot
  <2>2. leg.before \in SnapshotType
    BY DEF RemoteInv
  <2>3. ~Unavailable.remotes.ok /\ ~Unavailable.branches.ok /\ ~Unavailable.pulls.ok
    BY DEF Unavailable, NoRemotes, NoBranches, NoPulls
  <2>4. Names(diff) /\ Exact(leg.before, Unavailable, diff)
    BY <2>2, NoneTyped, DiffParts, DiffIsExact
  <2>5. diff.observed = {}
    <3>1. "remotes" \notin diff.observed /\ "branches" \notin diff.observed /\ "pull_requests" \notin diff.observed
      BY <2>2, <2>3, NoneTyped, DiffParts
    <3> QED BY <2>4, <3>1 DEF Names, Part
  <2> HIDE DEF diff
  <2>6. leg'.ended = TRUE /\ leg'.after = Unavailable /\ leg'.changes = diff
    BY <2>1 DEF RemoteInv
  <2>7. NothingMoved(leg.before, RemoteChangesBlock(leg', between'))
    <3> DEFINE block == RemoteChangesBlock(leg', between)
    <3>1. leg'.ended /\ Names(leg'.changes)
      BY <2>4, <2>6
    <3>2. /\ block.compared \cup block.notCompared = Part
          /\ \A p \in block.compared : p \in leg'.changes.observed
      BY <3>1, BlockNamesAll
    <3> HIDE DEF block
    <3>3. NothingMoved(leg.before, block)
      BY <2>5, <2>6, <3>2 DEF NothingMoved, Silent
    <3> QED BY <2>1, <3>3 DEF block
  <2>8. ~Begins
    BY <2>1 DEF Begins
  <2> QED BY <2>1, <2>4, <2>5, <2>6, <2>7, <2>8 DEF Judged, GuardHolds, RecordIsExact, AssessorTold
<1>5. RemoteNext => BeginLeg \/ FinishLeg \/ Interrupt \/ (leg' = leg /\ remoteLegs' = remoteLegs)
  BY DEF RemoteNext, Push, PullRequest, Configure, Tamper, Event, RemoteCrash
<1>6. UNCHANGED remoteVars => leg' = leg /\ remoteLegs' = remoteLegs
  BY DEF remoteVars
<1> QED BY <1>1, <1>2, <1>3, <1>4, <1>5, <1>6

\* A guarded leg that passes hid nothing it claims, whatever its nodes did to
\* remotes, config and shallow boundary; a failed one has something to show;
\* records are exact and the assessor is told no less: for any remotes, servers,
\* branches, events and legs (finish, DiffRemoteSnapshots, remoteChangesBlock).
THEOREM RemotesAreJudged == RemoteSpec => RemotesJudged
<1>1. RemoteInit => RemoteInv
  BY RemoteInitial
<1>2. RemoteInv /\ [RemoteNext]_remoteVars => RemoteInv'
  BY RemoteStep
<1>3. RemoteInv /\ [RemoteNext]_remoteVars => [GuardHolds /\ RecordIsExact /\ AssessorTold]_remoteVars
  BY JudgedStep DEF Judged
<1> QED BY <1>1, <1>2, <1>3, PTL DEF RemoteSpec, RemotesJudged

----------------------------------------------------------------------------
(* The stream of events. *)

Emitted == [kind : Kind, leg : 1..MaxFeedLegs, fate : {"begun", "written", "torn"}]
FeedLine == [text : Seq(Fragment), ended : BOOLEAN]

\* The types, with what a writer and a line are when they are there.
StreamInv ==
    /\ lines \in Seq(FeedLine)
    /\ \A i \in DOMAIN lines : Len(lines[i].text) > 0 /\ (i < Len(lines) => lines[i].ended)
    /\ emitted \in Seq(Emitted) /\ Len(emitted) <= MaxEmits
    /\ tears \in 0..MaxTears
    /\ writer \in [at : {"out", "ready", "writing"}, next : Kind, leg : 0..MaxFeedLegs]
    /\ writer.at # "out" => writer.leg > 0
    /\ follower \in [handed : Seq(Seq(Fragment)), pending : Seq(Fragment)]

\* Every event has its place in the file, and the places are in the order of the events:
\* what shares a line was emitted one after the other.
At(i, k) == lines[i].text[k].event
PlaceInv ==
    /\ \A i \in DOMAIN lines : \A k \in DOMAIN lines[i].text : At(i, k) <= Len(emitted)
    /\ \A i, j \in DOMAIN lines : \A k \in DOMAIN lines[i].text, l \in DOMAIN lines[j].text :
          i < j \/ (i = j /\ k < l) => At(i, k) < At(j, l)
    /\ \A i \in DOMAIN lines : \A k \in DOMAIN lines[i].text : k > 1 => At(i, k) = At(i, k - 1) + 1
    /\ \A e \in DOMAIN emitted : \E i \in DOMAIN lines : \E k \in DOMAIN lines[i].text : At(i, k) = e

\* What is followed on its own line was torn; a line is ended with the event that was
\* written whole; and the event being written is the last of the last line.
FateInv ==
    /\ \A i \in DOMAIN lines : \A k \in DOMAIN lines[i].text :
          k < Len(lines[i].text) => emitted[At(i, k)].fate = "torn"
    /\ \A i \in DOMAIN lines : LET k == Len(lines[i].text) IN
          /\ lines[i].ended => lines[i].text[k].whole /\ emitted[At(i, k)].fate = "written"
          /\ ~lines[i].ended => emitted[At(i, k)].fate # "written"
    /\ \A e \in DOMAIN emitted : emitted[e].fate = "begun" <=> writer.at = "writing" /\ e = Len(emitted)
    /\ writer.at = "writing" =>
          /\ Len(lines) > 0 /\ Len(emitted) > 0
          /\ ~lines[Len(lines)].ended
          /\ At(Len(lines), Len(lines[Len(lines)].text)) = Len(emitted)
    /\ tears = 0 => \A e \in DOMAIN emitted : emitted[e].fate # "torn"

\* A leg that has said that it started, and what it has said since.
Opened(r) ==
    /\ emitted[r].kind = "run_started" /\ emitted[r].leg = writer.leg
    /\ \A j \in DOMAIN emitted : j > r =>
          /\ emitted[j].leg = writer.leg /\ emitted[j].kind # "run_started"
          /\ emitted[j].kind = "run_finished" => writer.at = "writing" /\ j = Len(emitted)
OpenInv ==
    /\ writer.at = "writing" => emitted[Len(emitted)].kind = writer.next
    /\ writer.at = "writing" \/ (writer.at = "ready" /\ writer.next # "run_started") =>
          \E r \in DOMAIN emitted : Opened(r)

\* What was handed on is what the lines that are ended say.
HandedInv ==
    /\ Len(follower.handed) <= Len(lines)
    /\ \A i \in DOMAIN follower.handed : follower.handed[i] = lines[i].text /\ lines[i].ended

FeedInv == StreamInv /\ PlaceInv /\ FateInv /\ OpenInv /\ HandedInv

\* No leg has opened the stream.
LEMMA FeedStarts == FeedInit => FeedInv
  BY FeedAssumption, SMTT(30) DEF FeedInit, FeedInv, StreamInv, PlaceInv, FateInv, OpenInv, HandedInv, Kind

\* What a write that begins leaves: the last line is new, or has one fragment more.
LEMMA Begun ==
    ASSUME StreamInv, NEW whole \in BOOLEAN, BeginWrite(whole)
    PROVE  LET f == [event |-> Len(emitted) + 1, whole |-> whole]  n == Len(lines')
           IN  /\ lines' \in Seq(FeedLine) /\ f \in Fragment
               /\ n > 0 /\ ~lines'[n].ended
               /\ \A i \in DOMAIN lines' : i < n => i \in DOMAIN lines /\ lines'[i] = lines[i] /\ lines[i].ended
               /\ \/ n = Len(lines) + 1 /\ lines'[n].text = <<f>>
                  \/ n = Len(lines) /\ ~lines[n].ended /\ lines'[n].text = Append(lines[n].text, f)
<1> DEFINE f == [event |-> Len(emitted) + 1, whole |-> whole]
<1>1. f \in Fragment
  BY FeedAssumption DEF StreamInv, BeginWrite, Fragment, Emission
<1>2. lines' = Appended(f)
  BY DEF BeginWrite
<1>3. lines \in Seq(FeedLine)
  BY DEF StreamInv
<1> HIDE DEF f
<1>4. CASE Len(lines) > 0 /\ ~Last(lines).ended
  <2> DEFINE n == Len(lines)
  <2>1. n \in DOMAIN lines /\ ~lines[n].ended /\ lines[n] \in FeedLine
    BY <1>3, <1>4 DEF Last
  <2>2. Append(lines[n].text, f) \in Seq(Fragment)
    BY <2>1, <1>1 DEF FeedLine
  <2>3. lines' = [lines EXCEPT ![n] = [text |-> Append(lines[n].text, f), ended |-> FALSE]]
    BY <1>2, <1>4 DEF Appended
  <2>4. lines' \in Seq(FeedLine) /\ Len(lines') = n /\ lines'[n] = [text |-> Append(lines[n].text, f), ended |-> FALSE]
        /\ \A i \in DOMAIN lines : i < n => lines'[i] = lines[i]
    BY <2>1, <2>2, <2>3, <1>3 DEF FeedLine
  <2> QED
    BY <2>1, <2>4, <1>1, <1>3 DEF StreamInv, f
<1>5. CASE ~(Len(lines) > 0 /\ ~Last(lines).ended)
  <2>1. lines' = Append(lines, [text |-> <<f>>, ended |-> FALSE])
    BY <1>2, <1>5 DEF Appended
  <2>2. [text |-> <<f>>, ended |-> FALSE] \in FeedLine
    BY <1>1 DEF FeedLine
  <2>3. lines' \in Seq(FeedLine) /\ Len(lines') = Len(lines) + 1 /\ lines'[Len(lines')] = [text |-> <<f>>, ended |-> FALSE]
        /\ \A i \in DOMAIN lines : lines'[i] = lines[i]
    BY <2>1, <2>2, <1>3
  <2>4. \A i \in DOMAIN lines : lines[i].ended
    BY <1>5, <1>3 DEF StreamInv, Last
  <2> QED
    BY <2>3, <2>4, <1>1, <1>3 DEF f
<1> QED
  BY <1>4, <1>5

\* A write that completes makes the last fragment whole and ends its line.
LEMMA Completed ==
    ASSUME StreamInv, FateInv, NEW next \in Kind, CompleteWrite(next)
    PROVE  LET n == Len(lines)  m == Len(lines[n].text)
           IN  /\ n \in DOMAIN lines /\ m \in DOMAIN lines[n].text
               /\ lines' \in Seq(FeedLine) /\ Len(lines') = n
               /\ \A i \in DOMAIN lines : i < n => lines'[i] = lines[i]
               /\ lines'[n].ended /\ Len(lines'[n].text) = m /\ lines'[n].text[m].whole
               /\ \A k \in 1..m : lines'[n].text[k].event = lines[n].text[k].event
<1> DEFINE n == Len(lines)
           m == Len(lines[n].text)
           text == [lines[n].text EXCEPT ![m].whole = TRUE]
<1>1. n \in DOMAIN lines /\ lines \in Seq(FeedLine) /\ lines[n] \in FeedLine
  BY DEF StreamInv, FateInv, CompleteWrite
<1>2. lines[n].text \in Seq(Fragment) /\ m \in DOMAIN lines[n].text /\ m \in Nat
  BY <1>1 DEF StreamInv, FeedLine
<1> DEFINE last == [lines[n].text[m] EXCEPT !.whole = TRUE]
<1>a. last \in Fragment /\ last.event = lines[n].text[m].event /\ last.whole
  <2>1. lines[n].text[m] \in Fragment
    BY <1>2
  <2> QED
    BY <2>1 DEF Fragment
<1>b. text = [lines[n].text EXCEPT ![m] = last]
  BY <1>2
<1> HIDE DEF last, text
<1>3. /\ text \in Seq(Fragment) /\ Len(text) = m /\ text[m].whole
      /\ \A k \in 1..m : text[k].event = lines[n].text[k].event
  BY <1>2, <1>a, <1>b
<1>4. lines' = [lines EXCEPT ![n] = [text |-> text, ended |-> TRUE]]
  BY DEF CompleteWrite, LineDone, text
<1>5. [text |-> text, ended |-> TRUE] \in FeedLine
  BY <1>3 DEF FeedLine
<1> QED
  BY <1>1, <1>2, <1>3, <1>4, <1>5

\* An event's fate is all that a write's end changes of it.
LEMMA FateTold ==
    ASSUME StreamInv, Len(emitted) > 0, NEW fate \in {"written", "torn"}, emitted' = Fate(fate)
    PROVE  /\ emitted' \in Seq(Emitted) /\ Len(emitted') = Len(emitted)
           /\ \A e \in DOMAIN emitted : emitted'[e].kind = emitted[e].kind /\ emitted'[e].leg = emitted[e].leg
           /\ \A e \in DOMAIN emitted : emitted'[e].fate = IF e = Len(emitted) THEN fate ELSE emitted[e].fate
<1> DEFINE n == Len(emitted)
           told == [emitted[n] EXCEPT !.fate = fate]
<1>1. emitted \in Seq(Emitted) /\ n \in DOMAIN emitted /\ n \in Nat
  BY DEF StreamInv
<1>2. emitted[n] \in Emitted
  BY <1>1
<1>3. told \in Emitted /\ told.kind = emitted[n].kind /\ told.leg = emitted[n].leg /\ told.fate = fate
  BY <1>2 DEF Emitted
<1>4. emitted' = [emitted EXCEPT ![n] = told]
  BY DEF Fate
<1> HIDE DEF told
<1> QED
  BY <1>1, <1>3, <1>4

\* A leg opens the stream.
LEMMA OpenStreamKeeps ==
    ASSUME FeedInv, OpenStream
    PROVE  FeedInv'
<1>1. StreamInv'
  BY FeedAssumption DEF FeedInv, StreamInv, OpenStream, Kind
<1>2. PlaceInv'
  BY DEF FeedInv, PlaceInv, At, OpenStream
<1>3. FateInv'
  BY DEF FeedInv, FateInv, At, OpenStream
<1>4. OpenInv' /\ HandedInv'
  BY DEF FeedInv, OpenInv, HandedInv, OpenStream
<1> QED
  BY <1>1, <1>2, <1>3, <1>4 DEF FeedInv

\* A follower hands on a line, or keeps what there is of one.
LEMMA ReadSliceKeeps ==
    ASSUME FeedInv, ReadSlice
    PROVE  FeedInv'
<1>1. /\ lines \in Seq(FeedLine) /\ follower \in [handed : Seq(Seq(Fragment)), pending : Seq(Fragment)]
      /\ Len(follower.handed) + 1 \in DOMAIN lines
  BY DEF FeedInv, StreamInv, HandedInv, ReadSlice
<1>2. Slice \in FeedLine
  BY <1>1 DEF Slice
<1>3. Slice.text \in Seq(Fragment)
  BY <1>2 DEF FeedLine
<1>4. follower' \in [handed : Seq(Seq(Fragment)), pending : Seq(Fragment)]
  <2>1. CASE Slice.ended
    <3>1. Append(follower.handed, Slice.text) \in Seq(Seq(Fragment)) /\ <<>> \in Seq(Fragment)
      BY <1>1, <1>3
    <3> QED
      BY <2>1, <3>1 DEF ReadSlice
  <2>2. CASE ~Slice.ended
    BY <1>1, <1>3, <2>2 DEF ReadSlice, Keep
  <2> QED
    BY <2>1, <2>2
<1>5. StreamInv'
  BY <1>4 DEF FeedInv, StreamInv, ReadSlice
<1>6. PlaceInv' /\ FateInv' /\ OpenInv'
  <2>1. UNCHANGED <<lines, writer, emitted, tears>>
    BY DEF ReadSlice
  <2>2. PlaceInv'
    BY <2>1 DEF FeedInv, PlaceInv, At
  <2>3. FateInv'
    BY <2>1 DEF FeedInv, FateInv, At
  <2>4. OpenInv'
    BY <2>1 DEF FeedInv, OpenInv, Opened
  <2> QED
    BY <2>2, <2>3, <2>4
<1>7. HandedInv'
  <2>1. CASE Slice.ended
    <3>1. follower'.handed = Append(follower.handed, Slice.text)
      BY <2>1 DEF ReadSlice
    <3> QED
      BY <1>1, <1>3, <2>1, <3>1 DEF FeedInv, HandedInv, ReadSlice, Slice
  <2>2. CASE ~Slice.ended
    <3>1. follower'.handed = follower.handed
      BY <1>1, <2>2 DEF ReadSlice, Keep
    <3> QED
      BY <3>1 DEF FeedInv, HandedInv, ReadSlice
  <2> QED
    BY <2>1, <2>2
<1> QED
  BY <1>5, <1>6, <1>7 DEF FeedInv

\* A write begins: at the end of the last line, or on a line of its own.
LEMMA BeginWriteKeeps ==
    ASSUME FeedInv, NEW whole \in BOOLEAN, BeginWrite(whole)
    PROVE  FeedInv'
<1> DEFINE f == [event |-> Len(emitted) + 1, whole |-> whole]
           n == Len(lines')
           new == [kind |-> writer.next, leg |-> writer.leg, fate |-> "begun"]
           m == Len(lines'[n].text)
<1>1. StreamInv /\ PlaceInv /\ FateInv /\ OpenInv /\ HandedInv
  BY DEF FeedInv
<1>2. /\ lines' \in Seq(FeedLine) /\ f \in Fragment
      /\ n > 0 /\ ~lines'[n].ended
      /\ \A i \in DOMAIN lines' : i < n => i \in DOMAIN lines /\ lines'[i] = lines[i] /\ lines[i].ended
      /\ \/ n = Len(lines) + 1 /\ lines'[n].text = <<f>>
         \/ n = Len(lines) /\ ~lines[n].ended /\ lines'[n].text = Append(lines[n].text, f)
  BY <1>1, Begun
<1>3. /\ writer.at = "ready" /\ writer \in [at : {"out", "ready", "writing"}, next : Kind, leg : 0..MaxFeedLegs]
      /\ writer.leg \in 1..MaxFeedLegs
  BY <1>1, FeedAssumption DEF StreamInv, BeginWrite
<1>4. new \in Emitted
  BY <1>3 DEF Emitted
<1>5. /\ emitted' = Append(emitted, new) /\ emitted \in Seq(Emitted) /\ Len(emitted) \in Nat
      /\ writer' = [writer EXCEPT !.at = "writing"] /\ UNCHANGED <<tears, follower>>
  BY <1>1 DEF BeginWrite, StreamInv
<1>6. /\ emitted' \in Seq(Emitted) /\ Len(emitted') = Len(emitted) + 1 /\ emitted'[Len(emitted')] = new
      /\ \A e \in DOMAIN emitted : e \in DOMAIN emitted' /\ e < Len(emitted') /\ emitted'[e] = emitted[e]
      /\ \A e \in DOMAIN emitted' : e = Len(emitted') \/ e \in DOMAIN emitted
  BY <1>4, <1>5
<1>w. writer'.at = "writing" /\ writer'.leg = writer.leg /\ writer'.next = writer.next
      /\ writer' \in [at : {"out", "ready", "writing"}, next : Kind, leg : 0..MaxFeedLegs]
  BY <1>3, <1>5
<1>t. \A i \in DOMAIN lines' : lines'[i].text \in Seq(Fragment) /\ i \in Nat /\ i <= n
  <2>1. \A i \in DOMAIN lines' : lines'[i] \in FeedLine
    BY <1>2
  <2> QED
    BY <2>1, <1>2 DEF FeedLine
\* The last line's fragments: those that it had, and the new one.
<1>7. /\ m \in Nat /\ m > 0 /\ lines'[n].text \in Seq(Fragment) /\ lines'[n].text[m] = f
      /\ n = Len(lines) + 1 => m = 1
      /\ n = Len(lines) => m = Len(lines[n].text) + 1 /\ n \in DOMAIN lines
      /\ \A k \in DOMAIN lines'[n].text : k # m =>
            n \in DOMAIN lines /\ k \in DOMAIN lines[n].text /\ lines'[n].text[k] = lines[n].text[k]
  <2>1. lines \in Seq(FeedLine) /\ lines'[n] \in FeedLine
    BY <1>1, <1>2 DEF StreamInv
  <2>2. lines'[n].text \in Seq(Fragment)
    BY <2>1 DEF FeedLine
  <2>3. CASE n = Len(lines) + 1 /\ lines'[n].text = <<f>>
    BY <2>1, <2>2, <2>3
  <2>4. CASE n = Len(lines) /\ ~lines[n].ended /\ lines'[n].text = Append(lines[n].text, f)
    <3>1. n \in DOMAIN lines /\ lines[n] \in FeedLine
      BY <2>1, <2>4, <1>2
    <3>2. lines[n].text \in Seq(Fragment)
      BY <3>1 DEF FeedLine
    <3> HIDE DEF f
    <3> QED
      BY <2>2, <2>4, <3>1, <3>2
  <2> QED
    BY <2>3, <2>4, <1>2
<1>8. StreamInv'
  <2>1. \A i \in DOMAIN lines' : Len(lines'[i].text) > 0 /\ (i < n => lines'[i].ended)
    <3> SUFFICES ASSUME NEW i \in DOMAIN lines' PROVE Len(lines'[i].text) > 0 /\ (i < n => lines'[i].ended)
      OBVIOUS
    <3>1. CASE i < n
      BY <3>1, <1>1, <1>2 DEF StreamInv
    <3>2. CASE i = n
      BY <3>2, <1>7
    <3> QED
      BY <3>1, <3>2, <1>2
  <2>2. Len(emitted') <= MaxEmits
    BY <1>1, <1>6, FeedAssumption DEF BeginWrite, StreamInv
  <2> QED
    BY <2>1, <2>2, <1>1, <1>2, <1>3, <1>5, <1>6, <1>w DEF StreamInv
\* A place that was there before says what it said.
<1>9. \A i \in DOMAIN lines' : \A k \in DOMAIN lines'[i].text :
         \/ i = n /\ k = m /\ At(i, k)' = Len(emitted')
         \/ /\ i \in DOMAIN lines /\ k \in DOMAIN lines[i].text /\ (i < n \/ k < m)
            /\ At(i, k)' = At(i, k) /\ lines'[i].text[k] = lines[i].text[k]
            /\ At(i, k) \in Nat /\ At(i, k) <= Len(emitted) /\ At(i, k) \in DOMAIN emitted
  <2> SUFFICES ASSUME NEW i \in DOMAIN lines', NEW k \in DOMAIN lines'[i].text
               PROVE  \/ i = n /\ k = m /\ At(i, k)' = Len(emitted')
                      \/ /\ i \in DOMAIN lines /\ k \in DOMAIN lines[i].text /\ (i < n \/ k < m)
                         /\ At(i, k)' = At(i, k) /\ lines'[i].text[k] = lines[i].text[k]
                         /\ At(i, k) \in Nat /\ At(i, k) <= Len(emitted) /\ At(i, k) \in DOMAIN emitted
    OBVIOUS
  <2>1. CASE i = n /\ k = m
    BY <2>1, <1>6, <1>7 DEF At
  <2>2. CASE i < n \/ k # m
    <3>1. i <= n /\ k \in Nat /\ m \in Nat /\ (i = n => k <= m)
      BY <1>2, <1>7, <1>t
    <3>2. i \in DOMAIN lines /\ k \in DOMAIN lines[i].text /\ lines'[i].text[k] = lines[i].text[k] /\ (i < n \/ k < m)
      BY <3>1, <2>2, <1>2, <1>7
    <3>3. lines[i] \in FeedLine
      BY <3>2, <1>1 DEF StreamInv
    <3>4. lines[i].text[k] \in Fragment
      BY <3>2, <3>3 DEF FeedLine
    <3>5. At(i, k) \in Nat /\ At(i, k) > 0
      BY <3>4, FeedAssumption DEF At, Fragment, Emission
    <3>6. At(i, k) <= Len(emitted)
      BY <3>2, <1>1 DEF PlaceInv
    <3> QED
      BY <3>2, <3>5, <3>6, <1>5 DEF At
  <2> QED
    BY <2>1, <2>2, <1>2
<1>u. \A i \in DOMAIN lines' : \A k \in DOMAIN lines'[i].text : k \in Nat /\ (i = n => k <= m)
  <2>1. \A k \in DOMAIN lines'[n].text : k # m => k \in DOMAIN lines[n].text
    BY <1>7
  <2> QED
    BY <1>t, <1>7
<1>a. PlaceInv'
  <2>1. \A i \in DOMAIN lines' : \A k \in DOMAIN lines'[i].text : At(i, k)' <= Len(emitted')
    BY <1>9, <1>5, <1>6
  <2>2. ASSUME NEW i \in DOMAIN lines', NEW j \in DOMAIN lines',
               NEW k \in DOMAIN lines'[i].text, NEW l \in DOMAIN lines'[j].text, i < j \/ (i = j /\ k < l)
        PROVE  At(i, k)' < At(j, l)'
    <3>0. k \in Nat /\ l \in Nat /\ (j = n => l <= m)
      BY <1>u
    <3>1. ~(i = n /\ k = m)
      BY <2>2, <1>2, <3>0
    <3>2. i \in DOMAIN lines /\ k \in DOMAIN lines[i].text /\ At(i, k)' = At(i, k) /\ At(i, k) \in Nat /\ At(i, k) <= Len(emitted)
      BY <3>1, <1>9
    <3>3. CASE j = n /\ l = m /\ At(j, l)' = Len(emitted')
      BY <3>2, <3>3, <1>5, <1>6
    <3>4. CASE j \in DOMAIN lines /\ l \in DOMAIN lines[j].text /\ At(j, l)' = At(j, l)
      BY <3>2, <3>4, <2>2, <1>1 DEF PlaceInv
    <3> QED
      BY <3>3, <3>4, <1>9
  <2>3. ASSUME NEW i \in DOMAIN lines', NEW k \in DOMAIN lines'[i].text, k > 1
        PROVE  At(i, k)' = At(i, k - 1)' + 1
    <3>0. lines'[i] \in FeedLine
      BY <1>2
    <3>1. k - 1 \in DOMAIN lines'[i].text
      BY <2>3, <3>0 DEF FeedLine
    <3>2. CASE i = n /\ k = m /\ At(i, k)' = Len(emitted')
      \* The line was not ended: its last event is the last one.
      <4>1. n = Len(lines) /\ ~lines[n].ended /\ n \in DOMAIN lines /\ k - 1 = Len(lines[n].text) /\ k - 1 \in DOMAIN lines[n].text
        BY <3>0, <3>1, <3>2, <2>3, <1>2, <1>7
      <4>2. At(i, k - 1)' = At(i, k - 1) /\ At(i, k - 1) \in Nat /\ At(i, k - 1) <= Len(emitted)
        <5>1. ~(i = n /\ k - 1 = m)
          BY <3>2, <1>7
        <5> QED
          BY <3>1, <5>1, <1>9
      <4>3. At(i, k - 1) = Len(emitted)
        <5>1. Len(emitted) > 0
          BY <4>1, <4>2, <1>9, <3>1, <3>2, <1>7, <2>3
        <5>2. PICK i2 \in DOMAIN lines : \E k2 \in DOMAIN lines[i2].text : At(i2, k2) = Len(emitted)
          BY <5>1, <1>1, <1>5 DEF PlaceInv
        <5>3. PICK k2 \in DOMAIN lines[i2].text : At(i2, k2) = Len(emitted)
          BY <5>2
        <5>4. CASE i2 < n
          <6>1. At(i2, k2) < At(n, k - 1)
            BY <5>3, <5>4, <4>1, <1>1 DEF PlaceInv
          <6> QED
            BY <5>3, <6>1, <4>2, <3>2
        <5>5. CASE i2 = n
          <6>1. lines[n] \in FeedLine
            BY <4>1, <1>1 DEF StreamInv
          <6>2. k2 \in Nat /\ k2 <= k - 1
            BY <6>1, <5>5, <4>1 DEF FeedLine
          <6>3. CASE k2 = k - 1
            BY <6>3, <5>3, <5>5, <3>2
          <6>4. CASE k2 < k - 1
            <7>1. emitted[At(i, k2)].fate = "torn"
              BY <6>4, <5>5, <4>1, <3>2, <1>1 DEF FateInv
            <7>2. k - 1 > 1 /\ At(i, k - 1) > At(i, k2)
              BY <1>1, <6>2, <6>4, <4>1, <5>5, <3>2 DEF PlaceInv
            <7> QED
              BY <7>2, <5>3, <5>5, <4>2, <1>5, <3>2
          <6> QED
            BY <6>2, <6>3, <6>4, <4>1
        <5> QED
          BY <5>4, <5>5, <4>1, <1>1 DEF StreamInv
      <4> QED
        BY <4>2, <4>3, <3>2, <1>6
    <3>3. CASE i \in DOMAIN lines /\ k \in DOMAIN lines[i].text /\ (i < n \/ k < m) /\ At(i, k)' = At(i, k)
      <4>1. At(i, k - 1)' = At(i, k - 1)
        BY <3>1, <3>3, <1>9, <1>7, <3>0 DEF FeedLine
      <4> QED
        BY <4>1, <3>3, <2>3, <1>1 DEF PlaceInv
    <3> QED
      BY <3>2, <3>3, <1>9
  <2>4. ASSUME NEW e \in DOMAIN emitted'
        PROVE  \E i \in DOMAIN lines' : \E k \in DOMAIN lines'[i].text : At(i, k)' = e
    <3>1. CASE e = Len(emitted')
      <4>1. n \in DOMAIN lines' /\ m \in DOMAIN lines'[n].text
        BY <1>2, <1>7
      <4> QED
        BY <4>1, <3>1, <1>7, <1>6 DEF At
    <3>2. CASE e \in DOMAIN emitted
      <4>1. PICK i \in DOMAIN lines : \E k \in DOMAIN lines[i].text : At(i, k) = e
        BY <3>2, <1>1 DEF PlaceInv
      <4>2. PICK k \in DOMAIN lines[i].text : At(i, k) = e
        BY <4>1
      <4>3. lines[i] \in FeedLine /\ i \in DOMAIN lines' /\ lines \in Seq(FeedLine)
        BY <1>1, <1>2 DEF StreamInv
      <4>4. k \in DOMAIN lines'[i].text /\ lines'[i].text[k] = lines[i].text[k]
        <5>1. CASE i < n
          BY <5>1, <4>3, <1>2
        <5>2. CASE i = n
          <6>1. lines'[i].text = Append(lines[i].text, f)
            BY <5>2, <1>2, <4>3
          <6>2. lines[i].text \in Seq(Fragment)
            BY <4>3 DEF FeedLine
          <6> HIDE DEF f
          <6> QED
            BY <6>1, <6>2, <4>2
        <5> QED
          BY <5>1, <5>2, <4>3, <1>2
      <4> QED
        BY <4>2, <4>3, <4>4 DEF At
    <3> QED
      BY <3>1, <3>2, <1>6
  <2> QED
    BY <2>1, <2>2, <2>3, <2>4 DEF PlaceInv, At
<1>b. FateInv'
  <2>1. \A i \in DOMAIN lines' : \A k \in DOMAIN lines'[i].text :
           k < Len(lines'[i].text) => emitted'[At(i, k)'].fate = "torn"
    <3> SUFFICES ASSUME NEW i \in DOMAIN lines', NEW k \in DOMAIN lines'[i].text, k < Len(lines'[i].text)
                 PROVE  emitted'[At(i, k)'].fate = "torn"
      OBVIOUS
    <3>1. /\ i \in DOMAIN lines /\ k \in DOMAIN lines[i].text /\ (i < n \/ k < m)
          /\ At(i, k)' = At(i, k) /\ At(i, k) \in DOMAIN emitted
      BY <1>9, <1>7
    <3>2. emitted'[At(i, k)'] = emitted[At(i, k)]
      BY <3>1, <1>6
    <3>3. lines[i] \in FeedLine /\ lines \in Seq(FeedLine)
      BY <3>1, <1>1 DEF StreamInv
    <3>4. CASE k < Len(lines[i].text)
      BY <3>1, <3>2, <3>4, <1>1 DEF FateInv
    <3>5. CASE k = Len(lines[i].text)
      \* The last line was not ended, and nothing was being written.
      <4>1. i = n /\ n = Len(lines) /\ ~lines[i].ended
        BY <3>1, <3>5, <1>2, <1>7
      <4>2. emitted[At(i, k)].fate # "written" /\ emitted[At(i, k)].fate # "begun"
        BY <4>1, <3>1, <3>5, <1>3, <1>1 DEF FateInv
      <4>3. emitted[At(i, k)] \in Emitted
        BY <3>1, <1>5
      <4> QED
        BY <4>2, <4>3, <3>2 DEF Emitted
    <3> QED
      BY <3>1, <3>3, <3>4, <3>5 DEF FeedLine
  <2>2. ASSUME NEW i \in DOMAIN lines', NEW k, k = Len(lines'[i].text)
        PROVE  /\ lines'[i].ended => lines'[i].text[k].whole /\ emitted'[At(i, k)'].fate = "written"
               /\ ~lines'[i].ended => emitted'[At(i, k)'].fate # "written"
    <3>1. CASE i < n
      <4>1. i \in DOMAIN lines /\ lines'[i] = lines[i] /\ lines[i].ended /\ lines[i] \in FeedLine
        BY <3>1, <1>1, <1>2 DEF StreamInv
      <4>2. k \in DOMAIN lines'[i].text
        BY <2>2, <4>1, <1>1 DEF StreamInv, FeedLine
      <4>3. At(i, k)' = At(i, k) /\ At(i, k) \in DOMAIN emitted
        BY <4>2, <3>1, <1>2, <1>9
      <4>4. emitted'[At(i, k)'] = emitted[At(i, k)]
        BY <4>3, <1>6
      <4> QED
        BY <2>2, <4>1, <4>4, <4>3, <1>1 DEF FateInv
    <3>2. CASE i = n
      BY <2>2, <3>2, <1>2, <1>6, <1>7 DEF At
    <3> QED
      BY <3>1, <3>2, <1>2
  <2>3. \A e \in DOMAIN emitted' : emitted'[e].fate = "begun" <=> writer'.at = "writing" /\ e = Len(emitted')
    <3>1. \A e \in DOMAIN emitted : emitted[e].fate # "begun"
      BY <1>3, <1>1 DEF FateInv
    <3> QED
      BY <3>1, <1>6, <1>w
  <2>4. Len(lines') > 0 /\ Len(emitted') > 0 /\ ~lines'[Len(lines')].ended
        /\ lines'[n].text[m].event = Len(emitted')
    BY <1>2, <1>5, <1>6, <1>7
  <2>5. tears' = 0 => \A e \in DOMAIN emitted' : emitted'[e].fate # "torn"
    BY <1>1, <1>5, <1>6 DEF FateInv
  <2> QED
    BY <2>1, <2>2, <2>3, <2>4, <2>5 DEF FateInv, At
<1>c. OpenInv'
  <2>1. emitted'[Len(emitted')].kind = writer'.next /\ emitted'[Len(emitted')].leg = writer'.leg
    BY <1>6, <1>w
  <2>2. CASE writer.next = "run_started"
    <3>1. PICK r \in DOMAIN emitted' : r = Len(emitted')
      BY <1>5, <1>6
    <3>2. Opened(r)'
      BY <3>1, <2>1, <2>2, <1>5, <1>6, <1>w DEF Opened
    <3> QED
      BY <3>1, <3>2, <2>1 DEF OpenInv, Opened
  <2>3. CASE writer.next # "run_started"
    <3>1. PICK r \in DOMAIN emitted : Opened(r)
      BY <2>3, <1>3, <1>1 DEF OpenInv
    <3>2. r \in DOMAIN emitted' /\ emitted'[r] = emitted[r]
      BY <1>6
    <3>3. ASSUME NEW j \in DOMAIN emitted', j > r
          PROVE  /\ emitted'[j].leg = writer'.leg /\ emitted'[j].kind # "run_started"
                 /\ emitted'[j].kind = "run_finished" => writer'.at = "writing" /\ j = Len(emitted')
      <4>1. CASE j = Len(emitted')
        BY <4>1, <2>1, <2>3, <1>w
      <4>2. CASE j \in DOMAIN emitted
        BY <4>2, <3>1, <3>3, <1>3, <1>6, <1>w DEF Opened
      <4> QED
        BY <4>1, <4>2, <1>6
    <3>4. Opened(r)'
      BY <3>1, <3>2, <3>3, <1>w DEF Opened
    <3> QED
      BY <3>2, <3>4, <2>1 DEF OpenInv, Opened
  <2> QED
    BY <2>2, <2>3
<1>d. HandedInv'
  <2>1. follower' = follower /\ lines \in Seq(FeedLine) /\ follower.handed \in Seq(Seq(Fragment))
    BY <1>1, <1>5 DEF StreamInv
  <2>2. Len(follower.handed) <= n
    BY <2>1, <1>1, <1>2 DEF HandedInv
  <2>3. ASSUME NEW i \in DOMAIN follower.handed
        PROVE  follower.handed[i] = lines'[i].text /\ lines'[i].ended
    <3>1. i \in DOMAIN lines /\ follower.handed[i] = lines[i].text /\ lines[i].ended
      BY <2>1, <1>1 DEF HandedInv
    <3>2. i \in DOMAIN lines' /\ i < n
      BY <3>1, <2>1, <1>2
    <3> QED
      BY <3>1, <3>2, <1>2
  <2> QED
    BY <2>1, <2>2, <2>3 DEF HandedInv
<1> QED
  BY <1>8, <1>a, <1>b, <1>c, <1>d DEF FeedInv

\* A write is over: whole, and its line ended, or torn where it was.
Settled(fate) ==
    /\ writer.at = "writing" /\ emitted' = Fate(fate) /\ UNCHANGED follower
    /\ writer' \in [at : {"out", "ready"}, next : Kind, leg : {writer.leg}]
    /\ writer'.at = "ready" => writer.next # "run_finished"
    /\ \/ fate = "torn" /\ lines' = lines /\ tears < MaxTears /\ tears' = tears + 1
       \/ fate = "written" /\ tears' = tears /\ \E next \in Kind : CompleteWrite(next)

\* However a write ends.
LEMMA SettledKeeps ==
    ASSUME FeedInv, NEW fate \in {"written", "torn"}, Settled(fate)
    PROVE  FeedInv'
<1> DEFINE n == Len(lines)
           m == Len(lines[n].text)
           c == Len(emitted)
<1>1. StreamInv /\ PlaceInv /\ FateInv /\ OpenInv /\ HandedInv /\ writer.at = "writing"
  BY DEF FeedInv, Settled
<1>2. /\ lines \in Seq(FeedLine) /\ emitted \in Seq(Emitted)
      /\ n \in DOMAIN lines /\ n \in Nat /\ ~lines[n].ended /\ At(n, m) = c /\ c \in DOMAIN emitted /\ c \in Nat
  BY <1>1 DEF StreamInv, FateInv
<1>3. /\ emitted' \in Seq(Emitted) /\ Len(emitted') = c /\ DOMAIN emitted' = DOMAIN emitted
      /\ \A e \in DOMAIN emitted : emitted'[e].kind = emitted[e].kind /\ emitted'[e].leg = emitted[e].leg
      /\ \A e \in DOMAIN emitted : emitted'[e].fate = IF e = c THEN fate ELSE emitted[e].fate
  <2>1. emitted' = Fate(fate) /\ Len(emitted) > 0
    BY <1>2 DEF Settled
  <2> QED
    BY <2>1, <1>1, <1>2, FateTold
<1>4. /\ lines' \in Seq(FeedLine) /\ Len(lines') = n /\ DOMAIN lines' = DOMAIN lines
      /\ \A i \in DOMAIN lines : i < n => lines'[i] = lines[i]
      /\ Len(lines'[n].text) = m
      /\ lines'[n].ended <=> fate = "written"
      /\ fate = "written" => lines'[n].text[m].whole
      /\ \A k \in 1..m : lines'[n].text[k].event = lines[n].text[k].event
      /\ fate = "torn" => lines' = lines
  <2>1. CASE fate = "torn"
    BY <2>1, <1>2 DEF Settled
  <2>2. CASE fate = "written"
    <3>1. PICK next \in Kind : CompleteWrite(next)
      BY <2>2 DEF Settled
    <3> QED
      BY <2>2, <3>1, <1>1, <1>2, Completed
  <2> QED
    BY <2>1, <2>2
<1>5. \A i \in DOMAIN lines : /\ lines[i].text \in Seq(Fragment) /\ Len(lines[i].text) > 0 /\ i \in Nat /\ i <= n
                              /\ i < n => lines[i].ended
  <2>1. \A i \in DOMAIN lines : lines[i] \in FeedLine
    BY <1>2
  <2> QED
    BY <2>1, <1>1, <1>2 DEF FeedLine, StreamInv
\* Each place says what it said.
<1>6. \A i \in DOMAIN lines : /\ lines'[i].text \in Seq(Fragment) /\ Len(lines'[i].text) = Len(lines[i].text)
                              /\ DOMAIN lines'[i].text = DOMAIN lines[i].text
                              /\ \A k \in DOMAIN lines[i].text : lines'[i].text[k].event = lines[i].text[k].event
  <2> SUFFICES ASSUME NEW i \in DOMAIN lines
               PROVE  /\ lines'[i].text \in Seq(Fragment) /\ Len(lines'[i].text) = Len(lines[i].text)
                      /\ DOMAIN lines'[i].text = DOMAIN lines[i].text
                      /\ \A k \in DOMAIN lines[i].text : lines'[i].text[k].event = lines[i].text[k].event
    OBVIOUS
  <2>1. lines'[i] \in FeedLine
    BY <1>4
  <2>2. lines'[i].text \in Seq(Fragment)
    BY <2>1 DEF FeedLine
  <2>3. CASE i < n
    BY <2>2, <2>3, <1>4
  <2>4. CASE i = n
    <3>1. lines[i].text \in Seq(Fragment) /\ Len(lines[i].text) = m
      BY <2>4, <1>5
    <3>2. Len(lines'[i].text) = m /\ \A k \in 1..m : lines'[i].text[k].event = lines[i].text[k].event
      BY <2>4, <1>4
    <3>3. DOMAIN lines[i].text = 1..m /\ DOMAIN lines'[i].text = 1..m
      BY <2>2, <3>1, <3>2
    <3> QED
      BY <2>2, <3>1, <3>2, <3>3
  <2> QED
    BY <2>3, <2>4, <1>5, <1>2
<1>7. \A i \in DOMAIN lines : \A k \in DOMAIN lines[i].text :
         /\ At(i, k)' = At(i, k) /\ At(i, k) \in DOMAIN emitted /\ k \in Nat /\ k <= Len(lines[i].text)
         /\ At(i, k) = c => i = n /\ k = m
  <2> SUFFICES ASSUME NEW i \in DOMAIN lines, NEW k \in DOMAIN lines[i].text
               PROVE  /\ At(i, k)' = At(i, k) /\ At(i, k) \in DOMAIN emitted /\ k \in Nat /\ k <= Len(lines[i].text)
                      /\ At(i, k) = c => i = n /\ k = m
    OBVIOUS
  <2>1. At(i, k)' = At(i, k)
    BY <1>6 DEF At
  <2>2. lines[i].text[k] \in Fragment /\ k \in Nat /\ k <= Len(lines[i].text) /\ i <= n
    BY <1>5
  <2>3. At(i, k) \in Nat /\ At(i, k) > 0 /\ At(i, k) <= c
    BY <2>2, <1>1, FeedAssumption DEF PlaceInv, At, Fragment, Emission
  <2>4. m \in DOMAIN lines[n].text
    BY <1>2, <1>5
  <2>5. At(i, k) = c => i = n /\ k = m
    <3>1. CASE i < n
      BY <3>1, <2>3, <2>4, <1>1, <1>2 DEF PlaceInv
    <3>2. CASE i = n /\ k < m
      BY <3>2, <2>3, <2>4, <1>1, <1>2 DEF PlaceInv
    <3> QED
      BY <3>1, <3>2, <2>2, <2>4, <1>2
  <2> QED
    BY <2>1, <2>2, <2>3, <2>5, <1>2
<1>8. StreamInv'
  <2>1. \A i \in DOMAIN lines' : Len(lines'[i].text) > 0 /\ (i < Len(lines') => lines'[i].ended)
    BY <1>4, <1>5, <1>6
  <2>2. writer' \in [at : {"out", "ready", "writing"}, next : Kind, leg : 0..MaxFeedLegs] /\ (writer'.at # "out" => writer'.leg > 0)
    BY <1>1 DEF Settled, StreamInv
  <2>3. tears' \in 0..MaxTears
    BY <1>1, FeedAssumption DEF Settled, StreamInv
  <2> QED
    BY <2>1, <2>2, <2>3, <1>1, <1>3, <1>4 DEF StreamInv, Settled
<1>9. PlaceInv'
  <2>1. \A i \in DOMAIN lines' : \A k \in DOMAIN lines'[i].text : At(i, k)' <= Len(emitted')
    BY <1>1, <1>3, <1>4, <1>6, <1>7 DEF PlaceInv
  <2>2. ASSUME NEW i \in DOMAIN lines', NEW j \in DOMAIN lines',
               NEW k \in DOMAIN lines'[i].text, NEW l \in DOMAIN lines'[j].text, i < j \/ (i = j /\ k < l)
        PROVE  At(i, k)' < At(j, l)'
    <3>1. i \in DOMAIN lines /\ j \in DOMAIN lines /\ k \in DOMAIN lines[i].text /\ l \in DOMAIN lines[j].text
      BY <1>4, <1>6
    <3> QED
      BY <3>1, <2>2, <1>1, <1>7 DEF PlaceInv
  <2>3. ASSUME NEW i \in DOMAIN lines', NEW k \in DOMAIN lines'[i].text, k > 1
        PROVE  At(i, k)' = At(i, k - 1)' + 1
    <3>1. i \in DOMAIN lines /\ k \in DOMAIN lines[i].text /\ k - 1 \in DOMAIN lines[i].text
      BY <2>3, <1>4, <1>5, <1>6
    <3> QED
      BY <3>1, <2>3, <1>1, <1>7 DEF PlaceInv
  <2>4. ASSUME NEW e \in DOMAIN emitted'
        PROVE  \E i \in DOMAIN lines' : \E k \in DOMAIN lines'[i].text : At(i, k)' = e
    <3>1. PICK i \in DOMAIN lines : \E k \in DOMAIN lines[i].text : At(i, k) = e
      BY <2>4, <1>1, <1>3 DEF PlaceInv
    <3>2. PICK k \in DOMAIN lines[i].text : At(i, k) = e
      BY <3>1
    <3>3. i \in DOMAIN lines' /\ k \in DOMAIN lines'[i].text /\ At(i, k)' = e
      BY <3>2, <1>4, <1>6, <1>7
    <3> QED
      BY <3>3
  <2> QED
    BY <2>1, <2>2, <2>3, <2>4 DEF PlaceInv, At
<1>a. FateInv'
  <2>1. ASSUME NEW i \in DOMAIN lines', NEW k \in DOMAIN lines'[i].text, k < Len(lines'[i].text)
        PROVE  emitted'[At(i, k)'].fate = "torn"
    <3>1. i \in DOMAIN lines /\ k \in DOMAIN lines[i].text /\ k < Len(lines[i].text)
      BY <2>1, <1>4, <1>6
    <3>2. At(i, k) # c
      BY <3>1, <1>7, <1>5
    <3> QED
      BY <3>1, <3>2, <1>1, <1>3, <1>7 DEF FateInv
  <2>2. ASSUME NEW i \in DOMAIN lines', NEW k, k = Len(lines'[i].text)
        PROVE  /\ lines'[i].ended => lines'[i].text[k].whole /\ emitted'[At(i, k)'].fate = "written"
               /\ ~lines'[i].ended => emitted'[At(i, k)'].fate # "written"
    <3>1. i \in DOMAIN lines /\ k \in DOMAIN lines[i].text /\ k = Len(lines[i].text)
      BY <2>2, <1>4, <1>5, <1>6
    <3>2. CASE i < n
      <4>1. lines'[i] = lines[i] /\ lines[i].ended /\ At(i, k) # c
        BY <3>1, <3>2, <1>4, <1>5, <1>7
      <4> QED
        BY <4>1, <3>1, <1>1, <1>3, <1>7 DEF FateInv
    <3>3. CASE i = n
      BY <3>1, <3>3, <1>2, <1>3, <1>4, <1>7
    <3> QED
      BY <3>1, <3>2, <3>3, <1>5
  <2>3. \A e \in DOMAIN emitted' : emitted'[e].fate = "begun" <=> writer'.at = "writing" /\ e = Len(emitted')
    <3>1. writer'.at # "writing"
      BY DEF Settled
    <3>2. \A e \in DOMAIN emitted : e # c => emitted[e].fate # "begun"
      BY <1>1 DEF FateInv
    <3> QED
      BY <3>1, <3>2, <1>3
  <2>4. writer'.at # "writing"
    BY DEF Settled
  <2>5. tears' = 0 => \A e \in DOMAIN emitted' : emitted'[e].fate # "torn"
    <3>1. CASE fate = "torn"
      BY <3>1, <1>1 DEF Settled, StreamInv
    <3>2. CASE fate = "written"
      BY <3>2, <1>1, <1>3 DEF Settled, FateInv
    <3> QED
      BY <3>1, <3>2
  <2> QED
    BY <2>1, <2>2, <2>3, <2>4, <2>5 DEF FateInv, At
<1>b. OpenInv'
  <2>1. writer'.at # "writing" /\ writer'.leg = writer.leg
    BY DEF Settled
  <2>2. CASE writer'.at = "ready"
    <3>1. PICK r \in DOMAIN emitted : Opened(r)
      BY <1>1 DEF OpenInv
    <3>2. emitted[c].kind # "run_finished"
      BY <2>2, <1>1 DEF OpenInv, Settled
    <3>3. Opened(r)'
      BY <3>1, <3>2, <2>1, <1>3 DEF Opened
    <3> QED
      BY <3>1, <3>3, <2>1, <1>3 DEF OpenInv
  <2> QED
    BY <2>1, <2>2 DEF OpenInv
<1>c. HandedInv'
  <2>1. follower' = follower /\ follower.handed \in Seq(Seq(Fragment))
    BY <1>1 DEF Settled, StreamInv
  <2>2. ASSUME NEW i \in DOMAIN follower.handed
        PROVE  follower.handed[i] = lines'[i].text /\ lines'[i].ended
    <3>1. i \in DOMAIN lines /\ follower.handed[i] = lines[i].text /\ lines[i].ended
      BY <2>1, <1>1, <1>2 DEF HandedInv
    <3>2. i < n
      BY <3>1, <1>2, <1>5
    <3> QED
      BY <3>1, <3>2, <1>4
  <2> QED
    BY <2>1, <2>2, <1>1, <1>4 DEF HandedInv
<1> QED
  BY <1>8, <1>9, <1>a, <1>b, <1>c DEF FeedInv

\* A write completes, or fails.
LEMMA WriteEndsKeep ==
    ASSUME FeedInv, NEW next \in Kind, CompleteWrite(next) \/ WriteFails(next)
    PROVE  FeedInv'
<1>1. /\ writer.at = "writing" /\ writer' = Advanced(next) /\ next \in Follows(writer.next)
      /\ writer \in [at : {"out", "ready", "writing"}, next : Kind, leg : 0..MaxFeedLegs]
  BY DEF CompleteWrite, WriteFails, FeedInv, StreamInv
<1>2. writer' \in [at : {"out", "ready"}, next : Kind, leg : {writer.leg}]
      /\ (writer'.at = "ready" => writer.next # "run_finished")
  BY <1>1 DEF Advanced
<1>3. CASE CompleteWrite(next)
  <2>1. Settled("written")
    BY <1>1, <1>2, <1>3 DEF Settled, CompleteWrite
  <2> QED
    BY <2>1, SettledKeeps
<1>4. CASE WriteFails(next)
  <2>1. Settled("torn")
    BY <1>1, <1>2, <1>4 DEF Settled, WriteFails
  <2> QED
    BY <2>1, SettledKeeps
<1> QED
  BY <1>3, <1>4

\* A leg dies, between two writes or in one.
LEMMA WriterDiesKeeps ==
    ASSUME FeedInv, WriterDies
    PROVE  FeedInv'
<1>1. /\ writer \in [at : {"out", "ready", "writing"}, next : Kind, leg : 0..MaxFeedLegs]
      /\ writer' = [writer EXCEPT !.at = "out"] /\ UNCHANGED <<lines, follower>>
  BY DEF WriterDies, FeedInv, StreamInv
<1>2. CASE writer.at = "writing"
  <2>1. Settled("torn")
    BY <1>1, <1>2 DEF Settled, WriterDies
  <2> QED
    BY <2>1, SettledKeeps
<1>3. CASE writer.at = "ready"
  <2>1. UNCHANGED <<lines, emitted, tears, follower>> /\ writer'.at = "out"
    BY <1>1, <1>3 DEF WriterDies
  <2>2. StreamInv'
    BY <1>1, <2>1 DEF FeedInv, StreamInv
  <2>3. PlaceInv'
    BY <2>1 DEF FeedInv, PlaceInv, At
  <2>4. FateInv'
    BY <2>1, <1>3 DEF FeedInv, FateInv, At
  <2>5. OpenInv' /\ HandedInv'
    BY <2>1 DEF FeedInv, OpenInv, HandedInv
  <2> QED
    BY <2>2, <2>3, <2>4, <2>5 DEF FeedInv
<1> QED
  BY <1>2, <1>3 DEF WriterDies

\* Every step.
LEMMA FeedKeeps ==
    ASSUME FeedInv, [FeedNext]_feedVars
    PROVE  FeedInv'
<1>1. CASE UNCHANGED feedVars
  <2>1. UNCHANGED <<lines, writer, emitted, tears, follower>>
    BY <1>1 DEF feedVars
  <2>2. StreamInv'
    BY <2>1 DEF FeedInv, StreamInv
  <2>3. PlaceInv'
    BY <2>1 DEF FeedInv, PlaceInv, At
  <2>4. FateInv'
    BY <2>1 DEF FeedInv, FateInv, At
  <2>5. OpenInv' /\ HandedInv'
    BY <2>1 DEF FeedInv, OpenInv, Opened, HandedInv
  <2> QED
    BY <2>2, <2>3, <2>4, <2>5 DEF FeedInv
<1> QED
  BY <1>1, OpenStreamKeeps, WriterDiesKeeps, ReadSliceKeeps, BeginWriteKeeps, WriteEndsKeep DEF FeedNext

\* The stream, its writer and its readers keep their types, whichever legs die and
\* whatever writes stop half way: NewStreamWriter, Emit, follow.
THEOREM FeedTypes == FeedSpec => []FeedTypeOK
<1>1. ASSUME FeedInv
      PROVE  FeedTypeOK
  <2>1. StreamInv
    BY <1>1 DEF FeedInv
  <2>2. \A i \in DOMAIN lines : lines[i] \in FeedLine
    BY <2>1 DEF StreamInv
  <2>3. \A i \in 1..Len(lines) : /\ lines[i].text \in Seq(Fragment) /\ Len(lines[i].text) > 0
                                 /\ lines[i].ended \in BOOLEAN /\ (i < Len(lines) => lines[i].ended)
    BY <2>1, <2>2 DEF StreamInv, FeedLine
  <2>4. \A i \in 1..Len(emitted) :
           emitted[i] \in [kind : Kind, leg : 1..MaxFeedLegs, fate : {"begun", "written", "torn"}]
    <3>1. emitted \in Seq(Emitted)
      BY <2>1 DEF StreamInv
    <3>2. \A i \in 1..Len(emitted) : emitted[i] \in Emitted
      BY <3>1
    <3> QED
      BY <3>2 DEF Emitted
  <2> QED
    BY <2>1, <2>3, <2>4 DEF FeedTypeOK, StreamInv
<1>2. FeedSpec => []FeedInv
  BY FeedStarts, FeedKeeps, PTL DEF FeedSpec
<1> QED
  BY <1>1, <1>2, PTL

\* What Walk yields: a line's one event, if it is whole.
LEMMA Walks ==
    ASSUME FeedInv
    PROVE  \A i \in DOMAIN Walk :
              /\ i \in DOMAIN lines /\ i \in Nat /\ 1 \in DOMAIN lines[i].text
              /\ Walk[i] = At(i, 1) /\ Walk[i] \in DOMAIN emitted
  <1> SUFFICES ASSUME NEW i \in DOMAIN Walk
               PROVE  /\ i \in DOMAIN lines /\ i \in Nat /\ 1 \in DOMAIN lines[i].text
                      /\ Walk[i] = At(i, 1) /\ Walk[i] \in DOMAIN emitted
    OBVIOUS
  <1>1. i \in DOMAIN lines /\ Texts[i] = lines[i].text /\ Decodes(lines[i].text) /\ Walk[i] = lines[i].text[1].event
    BY DEF Walk, Decoded, Texts
  <1>2. lines[i] \in FeedLine /\ i \in Nat
    BY <1>1 DEF FeedInv, StreamInv
  <1>3. 1 \in DOMAIN lines[i].text /\ lines[i].text[1] \in Fragment
    BY <1>1, <1>2 DEF FeedLine, Decodes
  <1>4. At(i, 1) > 0 /\ At(i, 1) \in Nat
    BY <1>3, FeedAssumption DEF At, Fragment, Emission
  <1>5. At(i, 1) <= Len(emitted)
    BY <1>1, <1>3 DEF FeedInv, PlaceInv
  <1> QED
    BY <1>1, <1>2, <1>3, <1>4, <1>5 DEF At, FeedInv, StreamInv

\* Where an event that was written is: at the end of a line that is ended.
LEMMA WrittenAt ==
    ASSUME FeedInv, NEW e \in Written
    PROVE  \E i \in DOMAIN lines : LET k == Len(lines[i].text) IN
              /\ lines[i].text \in Seq(Fragment) /\ k \in DOMAIN lines[i].text
              /\ At(i, k) = e /\ lines[i].text[k].whole /\ lines[i].ended
<1>1. e \in DOMAIN emitted /\ emitted[e].fate = "written"
  BY DEF Written
<1>2. PICK i \in DOMAIN lines : \E k \in DOMAIN lines[i].text : At(i, k) = e
  BY <1>1 DEF FeedInv, PlaceInv
<1>3. PICK k \in DOMAIN lines[i].text : At(i, k) = e
  BY <1>2
<1>4. lines[i] \in FeedLine
  BY DEF FeedInv, StreamInv
<1>5. lines[i].text \in Seq(Fragment)
  BY <1>4 DEF FeedLine
<1>6. k = Len(lines[i].text)
  <2>1. ~(k < Len(lines[i].text))
    BY <1>1, <1>3 DEF FeedInv, FateInv
  <2> QED
    BY <2>1, <1>5
<1>7. lines[i].ended
  BY <1>1, <1>3, <1>6 DEF FeedInv, FateInv
<1>8. lines[i].text[k].whole
  BY <1>6, <1>7 DEF FeedInv, FateInv
<1> QED
  BY <1>3, <1>5, <1>6, <1>7, <1>8

\* What the places and the fates say of the damage.
LEMMA DamageIsBounded ==
    ASSUME FeedInv
    PROVE  DamageBounded
<1>1. ASSUME NEW e \in Written, e \notin Range(Walk)
      PROVE  e > 1 /\ emitted[e - 1].fate = "torn"
  <2>1. PICK i \in DOMAIN lines : LET k == Len(lines[i].text) IN
           /\ lines[i].text \in Seq(Fragment) /\ k \in DOMAIN lines[i].text
           /\ At(i, k) = e /\ lines[i].text[k].whole /\ lines[i].ended
    BY WrittenAt
  <2> DEFINE k == Len(lines[i].text)
  <2>2. CASE k = 1
    <3>1. i \in DOMAIN Walk /\ Walk[i] = e
      BY <2>1, <2>2 DEF Walk, Decoded, Texts, Decodes, At
    <3> QED
      BY <3>1, <1>1 DEF Range
  <2>3. CASE k > 1
    <3>1. k - 1 \in DOMAIN lines[i].text /\ k - 1 < k
      BY <2>1, <2>3
    <3>2. At(i, k) = At(i, k - 1) + 1
      BY <2>1, <2>3 DEF FeedInv, PlaceInv
    <3>3. emitted[At(i, k - 1)].fate = "torn"
      BY <3>1 DEF FeedInv, FateInv
    <3>4. lines[i].text[k - 1] \in Fragment
      BY <3>1, <2>1
    <3>5. At(i, k - 1) \in Nat /\ At(i, k - 1) > 0
      BY <3>4, FeedAssumption DEF At, Fragment, Emission
    <3> QED
      BY <2>1, <3>2, <3>3, <3>5
  <2> QED
    <3>1. k \in Nat /\ k > 0
      BY <2>1
    <3> HIDE DEF k
    <3>2. k = 1 \/ k > 1
      BY <3>1
    <3> QED
      BY <3>2, <2>2, <2>3
<1>2. Increasing(Walk)
  <2> SUFFICES ASSUME NEW i \in DOMAIN Walk, NEW j \in DOMAIN Walk, i < j
               PROVE  Walk[i] < Walk[j]
    BY DEF Increasing
  <2> QED
    BY Walks DEF FeedInv, PlaceInv
<1>3. Len(follower.handed) <= Len(lines)
  BY DEF FeedInv, HandedInv
<1>4. Decoded(follower.handed) = Restrict(Walk, DOMAIN Walk \cap 1..Len(follower.handed))
  <2> DEFINE h == follower.handed
             D == {j \in DOMAIN h : Decodes(h[j])}
             E == DOMAIN Walk \cap 1..Len(h)
  <2>1. h \in Seq(Seq(Fragment)) /\ lines \in Seq(FeedLine)
    BY DEF FeedInv, StreamInv
  <2>2. \A i \in DOMAIN h : i \in DOMAIN lines /\ h[i] = Texts[i] /\ i \in 1..Len(h)
    BY <2>1, <1>3 DEF FeedInv, HandedInv, Texts
  <2>3. DOMAIN Walk = {j \in DOMAIN Texts : Decodes(Texts[j])} /\ DOMAIN Texts = DOMAIN lines
    BY DEF Walk, Decoded, Texts
  <2>4. D = E
    BY <2>1, <2>2, <2>3
  <2>5. \A i \in D : h[i][1].event = Walk[i]
    BY <2>2, <2>3 DEF Walk, Decoded
  <2>6. Decoded(h) = [i \in D |-> h[i][1].event]
    BY DEF Decoded
  <2>7. Restrict(Walk, E) = [i \in E |-> Walk[i]]
    BY DEF Restrict
  <2> QED
    BY <2>4, <2>5, <2>6, <2>7
<1> QED
  BY <1>1, <1>2, <1>3, <1>4 DEF DamageBounded

\* With nothing torn, what the stream says of the open leg.
LEMMA LastLegIsTold ==
    ASSUME FeedInv
    PROVE  LastLegTold
<1> SUFFICES ASSUME tears = 0, writer.at = "ready", NodeRunning(Walk), writer.next # "run_started"
             PROVE  \E i \in DOMAIN emitted :
                       /\ emitted[i].kind = "node_started" /\ LegOpen(Walk, emitted[i].leg)
                       /\ emitted[i].leg = writer.leg
                       /\ \A j \in DOMAIN emitted : j > i => emitted[j].kind # "node_passed"
  BY DEF LastLegTold
\* Nothing is lost: every event is read, at a line of its own.
<1>1. \A e \in DOMAIN emitted : \E i \in DOMAIN Walk : Walk[i] = e
  <2> SUFFICES ASSUME NEW e \in DOMAIN emitted PROVE \E i \in DOMAIN Walk : Walk[i] = e
    OBVIOUS
  <2>1. emitted[e].fate # "torn" /\ emitted[e].fate # "begun" /\ emitted[e] \in Emitted
    BY DEF FeedInv, FateInv, StreamInv
  <2>2. e \in Written /\ e \in Nat
    BY <2>1 DEF Emitted, Written, FeedInv, StreamInv
  <2>3. e \in Range(Walk)
    <3>1. CASE e > 1
      <4>1. e - 1 \in DOMAIN emitted
        BY <3>1, <2>2 DEF FeedInv, StreamInv
      <4>2. emitted[e - 1].fate # "torn"
        BY <4>1 DEF FeedInv, FateInv
      <4> QED
        BY <4>2, <2>2, DamageIsBounded DEF DamageBounded
    <3> QED
      BY <3>1, <2>2, DamageIsBounded DEF DamageBounded
  <2> QED
    BY <2>3 DEF Range
<1>2. \A i, j \in DOMAIN Walk : Walk[i] < Walk[j] => i < j
  <2>1. Increasing(Walk) /\ \A i \in DOMAIN Walk : i \in Nat /\ Walk[i] \in Nat
    BY Walks, DamageIsBounded DEF DamageBounded, FeedInv, StreamInv
  <2> HIDE DEF Walk
  <2> SUFFICES ASSUME NEW i \in DOMAIN Walk, NEW j \in DOMAIN Walk, Walk[i] < Walk[j], ~(i < j)
               PROVE  FALSE
    OBVIOUS
  <2>2. CASE i = j
    BY <2>1, <2>2
  <2>3. CASE j < i
    BY <2>1, <2>3 DEF Increasing
  <2> QED
    BY <2>1, <2>2, <2>3
<1>3. PICK i \in DOMAIN Walk :
         /\ emitted[Walk[i]].kind = "node_started"
         /\ \A j \in DOMAIN Walk : j > i => emitted[Walk[j]].kind \notin {"node_passed", "run_started"}
  BY DEF NodeRunning, Says
<1>4. PICK r \in DOMAIN emitted : Opened(r)
  BY DEF FeedInv, OpenInv
<1>5. PICK q \in DOMAIN Walk : Walk[q] = r
  BY <1>1
<1> DEFINE e == Walk[i]
<1>6. e \in DOMAIN emitted /\ e \in Nat /\ r \in Nat /\ i \in Nat /\ q \in Nat
  BY Walks DEF FeedInv, StreamInv
<1>7. e > r
  <2>1. e # r
    BY <1>3, <1>4 DEF Opened
  <2>2. ~(e < r)
    BY <1>2, <1>3, <1>4, <1>5, <1>6 DEF Opened
  <2> QED
    BY <2>1, <2>2, <1>6
<1>8. emitted[e].leg = writer.leg
  BY <1>4, <1>6, <1>7 DEF Opened
<1>9. LegOpen(Walk, writer.leg)
  <2>1. ASSUME NEW j \in DOMAIN Walk, j > q
        PROVE  emitted[Walk[j]].kind \notin Bracket
    <3>1. Walk[j] > r /\ Walk[j] \in DOMAIN emitted
      BY <2>1, <1>5, Walks, DamageIsBounded DEF DamageBounded, Increasing, FeedInv, StreamInv
    <3> QED
      BY <3>1, <1>4 DEF Opened, Bracket
  <2> QED
    BY <2>1, <1>4, <1>5 DEF LegOpen, Says, Opened
<1>a. ASSUME NEW j \in DOMAIN emitted, j > e
      PROVE  emitted[j].kind # "node_passed"
  <2>1. PICK p \in DOMAIN Walk : Walk[p] = j
    BY <1>1
  <2>2. p > i
    BY <2>1, <1>2, <1>a, <1>6, Walks
  <2> QED
    BY <2>1, <2>2, <1>3
<1> QED
  BY <1>3, <1>6, <1>8, <1>9, <1>a

\* However many legs write, die and tear lines, a half-done write loses at most the event
\* after it, nothing is read twice or out of order, a follower reads what Walk reads, and
\* an undamaged stream names no node of a dead leg as running: Emit, Walk, LastLeg.
THEOREM StreamIsTold == FeedSpec => []FeedTold
<1>1. FeedInv => FeedTold
  BY DamageIsBounded, LastLegIsTold DEF FeedTold
<1>2. FeedSpec => []FeedInv
  BY FeedStarts, FeedKeeps, PTL DEF FeedSpec
<1> QED
  BY <1>1, <1>2, PTL
=============================================================================
