------------------------------- MODULE RunFeed -------------------------------
(***************************************************************************)
(* events.jsonl as bytes: each leg appends its events, one write for each; *)
(* a write may stop half way, at a full disk or a death, and whatever is   *)
(* written next lands on the same line.  Walk reads the file once, skips   *)
(* what does not decode, and the rest is folded into the last leg and the   *)
(* nodes' states; a follower (`watch`, /events) hands on the lines as they *)
(* are ended.                                                              *)
(***************************************************************************)
EXTENDS Naturals, Sequences, FiniteSets, SequencesExt

CONSTANTS
    MaxFeedLegs,  \* bound: legs that append to the stream
    MaxEmits,     \* bound: events emitted
    MaxTears      \* bound: writes that stop half way

ASSUME FeedAssumption == {MaxFeedLegs, MaxEmits, MaxTears} \subseteq Nat

VARIABLES
    lines,    \* the physical lines: what each holds, and whether a newline ends it
    writer,   \* the open leg's writer: what it emits next, and what it is writing
    emitted,  \* history: the events emitted so far, in order, and their fates
    tears,    \* history: writes that stopped half way
    follower  \* lines handed on, and how much of the next one is pending

feedVars == <<lines, writer, emitted, tears, follower>>

\* An event is known by its place in `emitted`; half a write leaves a fragment,
\* which is either the whole event without its newline or a part of it.
Emission == 1..MaxEmits
Kind == {"run_started", "node_started", "node_passed", "run_finished"}
Fragment == [event : Emission, whole : BOOLEAN]

FeedTypeOK ==
    /\ \A i \in 1..Len(lines) :
          lines[i].text \in Seq(Fragment) /\ Len(lines[i].text) > 0
          /\ lines[i].ended \in BOOLEAN /\ (i < Len(lines) => lines[i].ended)
    /\ writer \in [at : {"out", "ready", "writing"}, next : Kind, leg : 0..MaxFeedLegs]
    /\ \A i \in 1..Len(emitted) :
          emitted[i] \in [kind : Kind, leg : 1..MaxFeedLegs, fate : {"begun", "written", "torn"}]
    /\ Len(emitted) <= MaxEmits /\ tears \in 0..MaxTears
    /\ follower.handed \in Seq(Seq(Fragment)) /\ follower.pending \in Seq(Fragment)

FeedInit ==
    /\ lines = <<>> /\ emitted = <<>> /\ tears = 0
    /\ writer = [at |-> "out", next |-> "run_started", leg |-> 0]
    /\ follower = [handed |-> <<>>, pending |-> <<>>]

----------------------------------------------------------------------------
(* The writer: NewStreamWriter opens for append, Emit writes one line.     *)

OpenStream ==
    /\ writer.at = "out" /\ writer.leg < MaxFeedLegs
    /\ writer' = [at |-> "ready", next |-> "run_started", leg |-> writer.leg + 1]
    /\ UNCHANGED <<lines, emitted, tears, follower>>

\* The bytes go to the end of the file, whatever is there.
Appended(fragment) ==
    IF Len(lines) > 0 /\ ~Last(lines).ended
    THEN [lines EXCEPT ![Len(lines)] = [text |-> Append(@.text, fragment), ended |-> FALSE]]
    ELSE Append(lines, [text |-> <<fragment>>, ended |-> FALSE])

\* The write is one call, and a reader may catch it half way.
BeginWrite(whole) ==
    /\ writer.at = "ready" /\ Len(emitted) < MaxEmits
    /\ emitted' = Append(emitted, [kind |-> writer.next, leg |-> writer.leg, fate |-> "begun"])
    /\ lines' = Appended([event |-> Len(emitted) + 1, whole |-> whole])
    /\ writer' = [writer EXCEPT !.at = "writing"]
    /\ UNCHANGED <<tears, follower>>

\* What a leg says after an event: it starts a node, ends it, or closes.
Follows(kind) ==
    CASE kind = "run_started" -> {"node_started", "run_finished"}
      [] kind = "node_started" -> {"node_passed", "run_finished"}
      [] kind = "node_passed" -> {"node_started", "run_finished"}
      [] kind = "run_finished" -> {"run_finished"}

Advanced(next) ==
    [writer EXCEPT !.at = IF writer.next = "run_finished" THEN "out" ELSE "ready", !.next = next]

Fate(fate) == [emitted EXCEPT ![Len(emitted)].fate = fate]

LineDone(line) == [text |-> [line.text EXCEPT ![Len(line.text)].whole = TRUE], ended |-> TRUE]

CompleteWrite(next) ==
    /\ writer.at = "writing" /\ next \in Follows(writer.next)
    /\ lines' = [lines EXCEPT ![Len(lines)] = LineDone(@)]
    /\ emitted' = Fate("written") /\ writer' = Advanced(next)
    /\ UNCHANGED <<tears, follower>>

\* The write fails with part of the line on disk: emitEvent warns and goes on.
WriteFails(next) ==
    /\ writer.at = "writing" /\ next \in Follows(writer.next) /\ tears < MaxTears
    /\ emitted' = Fate("torn") /\ writer' = Advanced(next) /\ tears' = tears + 1
    /\ UNCHANGED <<lines, follower>>

WriterDies ==
    /\ \/ writer.at = "ready" /\ UNCHANGED <<emitted, tears>>
       \/ writer.at = "writing" /\ tears < MaxTears /\ emitted' = Fate("torn") /\ tears' = tears + 1
    /\ writer' = [writer EXCEPT !.at = "out"]
    /\ UNCHANGED <<lines, follower>>

----------------------------------------------------------------------------
(* The readers. *)

Decodes(text) == Len(text) = 1 /\ text[1].whole
\* Each line that decodes, and the event it holds.
Decoded(texts) == [i \in {j \in DOMAIN texts : Decodes(texts[j])} |-> texts[i][1].event]

Texts == [i \in DOMAIN lines |-> lines[i].text]
\* Walk's scanner also yields a last line that no newline ends.
Walk == Decoded(Texts)
Says(events, i) == emitted[events[i]]

\* walkNodeStates, over one node: it runs if nothing since it started says that it
\* ended; a run_started is a leg boundary, for the leg before it may have died with
\* the node running.  `watch` keeps the same set.
NodeRunningBlindly(events) ==
    \E i \in DOMAIN events :
        /\ Says(events, i).kind = "node_started"
        /\ \A j \in DOMAIN events : j > i => Says(events, j).kind # "node_passed"
NodeRunning(events) ==
    \E i \in DOMAIN events :
        /\ Says(events, i).kind = "node_started"
        /\ \A j \in DOMAIN events : j > i => Says(events, j).kind \notin {"node_passed", "run_started"}

\* LastLeg: a leg is open from its run_started until another opens or one closes.
Bracket == {"run_started", "run_finished"}
LegOpen(events, leg) ==
    \E i \in DOMAIN events :
        /\ Says(events, i).kind = "run_started" /\ Says(events, i).leg = leg
        /\ \A j \in DOMAIN events : j > i => Says(events, j).kind \notin Bracket

\* follow: a slice up to the newline, or what there is of one, which is kept.
Keep(text) == [follower EXCEPT !.pending = text]
Slice == lines[Len(follower.handed) + 1]
ReadSlice ==
    /\ Len(follower.handed) < Len(lines)
    /\ follower' = IF Slice.ended
                   THEN [handed |-> Append(follower.handed, Slice.text), pending |-> <<>>]
                   ELSE Keep(Slice.text)
    /\ UNCHANGED <<lines, writer, emitted, tears>>

FeedNext ==
    \/ OpenStream \/ WriterDies \/ ReadSlice
    \/ \E whole \in BOOLEAN : BeginWrite(whole)
    \/ \E next \in Kind : CompleteWrite(next) \/ WriteFails(next)

FeedSpec == FeedInit /\ [][FeedNext]_feedVars

----------------------------------------------------------------------------
(* Properties. *)

Written == {i \in DOMAIN emitted : emitted[i].fate = "written"}
Increasing(s) == \A i, j \in DOMAIN s : i < j => s[i] < s[j]

\* What damage may cost: each half-done write loses at most the one event that
\* was written right after it, nothing is read twice or out of order, and
\* whoever follows the stream reads from its ended lines what Walk reads there.
DamageBounded ==
    /\ \A i \in Written : i \notin Range(Walk) => i > 1 /\ emitted[i - 1].fate = "torn"
    /\ Increasing(Walk)
    /\ Len(follower.handed) <= Len(lines)
    /\ Decoded(follower.handed) = Restrict(Walk, DOMAIN Walk \cap 1..Len(follower.handed))

\* What an undamaged stream says of the present: a node that reads as running was
\* started by the leg that reads as open and has not ended, whichever legs died
\* before it; and a leg reads as open unless it closed.
LastLegTold ==
    tears = 0 /\ writer.at = "ready" /\ NodeRunning(Walk) =>
        \/ writer.next = "run_started"
        \/ \E i \in DOMAIN emitted :
              /\ emitted[i].kind = "node_started" /\ LegOpen(Walk, emitted[i].leg)
              /\ emitted[i].leg = writer.leg
              /\ \A j \in DOMAIN emitted : j > i => emitted[j].kind # "node_passed"

\* The stream's promise to its readers.
FeedTold == DamageBounded /\ LastLegTold
=============================================================================
