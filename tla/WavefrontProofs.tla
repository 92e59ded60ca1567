--------------------------- MODULE WavefrontProofs ---------------------------
(***************************************************************************)
(* The wavefront of a leg, proved for every validated graph: when a node   *)
(* is launched, on what inputs, and how a fired arc re-arms its body.      *)
(*                                                                         *)
(* Wave is the inductive invariant.  It reads in-degrees as what they      *)
(* stand for: the parents that still owe a node their decrement.  Between  *)
(* the firing of an arc and its re-arming (for ever, when the leg paused   *)
(* or the marker could not be written) a body is quiet: nothing in it      *)
(* moves, and its in-degrees mean nothing until they are re-seeded.        *)
(***************************************************************************)
EXTENDS SchedulerProofs

USE DEF goroutines, loopVars, pauseVars, haltVars, options, gateSnap, records

----------------------------------------------------------------------------
(* The graph. *)

\* The ancestors of n lie in every set that holds its parents and is closed.
LEMMA AncestorsClosed ==
    ASSUME NEW n \in Node, NEW S \in SUBSET Node, Parents[n] \subseteq S,
           \A x \in S : Parents[x] \subseteq S
    PROVE  Ancestors[n] \subseteq S
BY DEF Ancestors

\* A parent is an ancestor.
LEMMA ParentIsAncestor ==
    ASSUME NEW n \in Node, NEW p \in Parents[n]
    PROVE  p \in Node /\ p \in Ancestors[n]
BY GraphAssumption DEF Ancestors

\* An ancestor's ancestor is an ancestor.
LEMMA AncestorsTransitive ==
    ASSUME NEW a, NEW b, NEW c \in Node, a \in Ancestors[b], b \in Ancestors[c]
    PROVE  a \in Ancestors[c]
<1>1. b \in Node
  BY DEF Ancestors
<1>2. a \in Node
  BY <1>1 DEF Ancestors
<1>3. ASSUME NEW S \in SUBSET Node, Parents[c] \subseteq S, \A x \in S : Parents[x] \subseteq S
      PROVE a \in S
  <2>1. b \in S
    BY <1>3 DEF Ancestors
  <2> QED
    BY <1>1, <1>3, <2>1 DEF Ancestors
<1> QED
  BY <1>2, <1>3 DEF Ancestors

\* The path from an ancestor arrives through a parent.
LEMMA ThroughAParent ==
    ASSUME NEW n \in Node, NEW a \in Ancestors[n]
    PROVE  \E p \in Parents[n] : p = a \/ a \in Ancestors[p]
<1> SUFFICES ASSUME \A p \in Parents[n] : p # a /\ a \notin Ancestors[p] PROVE FALSE
  OBVIOUS
<1> DEFINE S == {x \in Node : x # a /\ a \notin Ancestors[x]}
<1>1. \A x \in Node : Parents[x] \subseteq Node
  BY GraphAssumption
<1>2. Parents[n] \subseteq S
  BY <1>1
<1>3. ASSUME NEW x \in S, NEW p \in Parents[x] PROVE p \in S
  BY <1>1, ParentIsAncestor, AncestorsTransitive
<1>4. Ancestors[n] \subseteq S
  BY <1>2, <1>3, AncestorsClosed
<1> QED
  BY <1>4

\* What is known of a loop's body: its members other than the declarer are
\* ancestors of it, feed only members, and feed some; a member feeds every
\* node of the body but the arc's target.
LEMMA BodyShape ==
    ASSUME NEW d \in Declarers
    PROVE  /\ d \in Node /\ Rerun[d] \in Body[d] /\ Rerun[d] # d
           /\ Body[d] \subseteq Node /\ d \in Body[d]
           /\ \A m \in Body[d] \ {d} : m \in Ancestors[d] /\ DependentsOf(m) \subseteq Body[d]
           /\ \A m \in Body[d] \ {d} : DependentsOf(m) # {}
           /\ Parents[Rerun[d]] \cap Body[d] = {}
           /\ \A m \in Body[d] \ {Rerun[d]} : Parents[m] \cap Body[d] # {}
           /\ Body[d] \cap Gates = {}
           /\ \A e \in Declarers \ {d} : Body[d] \cap Body[e] = {}
<1>1. /\ d \in Node /\ Rerun[d] \in Node /\ Rerun[d] \in Ancestors[d]
      /\ \A n \in Body[d] \ {d} : DependentsOf(n) \subseteq Body[d]
      /\ Body[d] \cap Gates = {}
      /\ \A e \in Declarers \ {d} : Body[d] \cap Body[e] = {}
  BY FeedbackAssumption
<1>2. \A n \in Node : n \notin Ancestors[n]
  BY GraphAssumption
<1>3. Body[d] \subseteq Node /\ d \in Body[d] /\ Rerun[d] \in Body[d]
  BY <1>1 DEF Body
<1>4. ASSUME NEW m \in Body[d] \ {d} PROVE m \in Ancestors[d]
  BY <1>1 DEF Body
<1>5. ASSUME NEW m \in Body[d] \ {d} PROVE DependentsOf(m) # {}
  <2>1. m \in Node /\ m \in Ancestors[d]
    BY <1>3, <1>4
  <2>2. SUFFICES ASSUME DependentsOf(m) = {} PROVE FALSE
    OBVIOUS
  <2>3. \A x \in Node : Parents[x] \subseteq Node \ {m}
    BY <2>2, GraphAssumption DEF DependentsOf
  <2>4. Ancestors[d] \subseteq Node \ {m}
    BY <1>1, <2>3, AncestorsClosed
  <2> QED
    BY <2>1, <2>4
<1>6. ASSUME NEW p \in Parents[Rerun[d]], p \in Body[d] PROVE FALSE
  <2>1. p \in Ancestors[Rerun[d]] /\ p \in Node
    BY <1>1, ParentIsAncestor
  <2>2. p = d \/ p = Rerun[d] \/ Rerun[d] \in Ancestors[p]
    BY <1>1, <1>6 DEF Body
  <2>3. Rerun[d] \in Ancestors[p] => Rerun[d] \in Ancestors[Rerun[d]]
    BY <1>1, <2>1, AncestorsTransitive
  <2> QED
    BY <1>1, <1>2, <2>1, <2>2, <2>3
<1>7. ASSUME NEW m \in Body[d] \ {Rerun[d]} PROVE Parents[m] \cap Body[d] # {}
  <2>1. m \in Node /\ Rerun[d] \in Ancestors[m] /\ (m = d \/ m \in Ancestors[d])
    BY <1>1 DEF Body
  <2>2. PICK p \in Parents[m] : p = Rerun[d] \/ Rerun[d] \in Ancestors[p]
    BY <2>1, ThroughAParent
  <2>3. p \in Node /\ p \in Ancestors[d]
    BY <1>1, <2>1, ParentIsAncestor, AncestorsTransitive
  <2>4. p \in Body[d]
    BY <2>2, <2>3 DEF Body
  <2> QED
    BY <2>4
<1> QED
  BY <1>1, <1>2, <1>3, <1>4, <1>5, <1>6, <1>7

----------------------------------------------------------------------------
(* The inductive invariant. *)

\* Verdicts of the current round.
Done(n) == nodes[n].verdict = "PASS" /\ nodes[n].round >= rounds[n]
Failed(n) == nodes[n].verdict = "FAIL" /\ nodes[n].round >= rounds[n]
Final(n) == Done(n) \/ Failed(n)

\* n made the leg pause: its gate did, or the session limit met it.
PutOff(n) == n \in limitedNodes \/ n = pausedAt

\* p's decrement of n's in-degree is still to come.
Owes(p, n) ==
    \/ ~Done(p)
    \/ phase[p] \in {"approving", "passed"}
    \/ phase[p] = "releasing" /\ n \in todo[p]
Owing(n) == {p \in Parents[n] : Owes(p, n)}

Live(n) == queued[n] > 0 \/ phase[n] # "idle"
Started(n) == Live(n) \/ Final(n) \/ PutOff(n)

\* Nothing of d's body moves but d, handling its own failure; whatever feeds
\* the body from outside has passed and made its decrements.
Quiet(d) ==
    /\ phase[d] \in {"idle", "fired", "rearming", "failed", "halting"}
    /\ \A m \in Body[d] : /\ queued[m] = 0 /\ ~Done(m)
                          /\ m # d => phase[m] = "idle"
    /\ \A m \in Body[d] : \A p \in Parents[m] \ Body[d] : ~Owes(p, m)
InQuiet(n) == \E d \in Declarers : n \in Body[d] /\ Quiet(d)

\* What the phase of a goroutine says of its node's record.
Goroutine(n) ==
    /\ queued[n] \in {0, 1}
    /\ queued[n] = 1 => phase[n] = "idle" /\ ~Final(n) /\ ~PutOff(n)
    /\ phase[n] \in {"running", "rejecting", "fired", "rearming"} => ~Final(n)
    /\ phase[n] \in {"approving", "passed", "releasing"} => Done(n)
    /\ phase[n] \in {"failed", "halting"} => Failed(n)
    /\ phase[n] \in {"approving", "rejecting"} => n \in Gates
    /\ phase[n] = "releasing" => todo[n] # {} /\ todo[n] \subseteq DependentsOf(n)
    /\ PutOff(n) => phase[n] = "idle" /\ ~Final(n)

\* Only loops have rounds, and only their declarers records to overtake.
RoundsInv ==
    /\ \A n \in Node : (\A d \in Declarers : n \notin Body[d]) => rounds[n] = 0
    /\ \A n \in Node : nodes[n].verdict = "marker" =>
        n \in Declarers /\ nodes[n].round = rounds[n]

\* Whatever was launched is owed nothing: its parents have all passed.  A
\* declarer that outran its body is the exception.
InputsInv == \A n \in Node : Started(n) =>
    Owing(n) = {} \/ (n \in Declarers /\ Quiet(n) /\ ~PutOff(n))

\* While an arc is handled, its body waits to be started over.
FiredInv == \A d \in Node : phase[d] \in {"fired", "rearming"} =>
    Quiet(d) /\ \A m \in Body[d] \ {d} : ~Started(m)

\* An in-degree counts the parents that owe; a pause drops decrements.
DegreeInv == \A n \in Node : InQuiet(n) \/
    /\ inDegree[n] >= Cardinality(Owing(n))
    /\ ~Paused => inDegree[n] = Cardinality(Owing(n))

\* A loop at rest whose body will not, or not yet, be launched again.
Resting(d) ==
    Quiet(d) /\ (phase[d] \in {"fired", "rearming"} \/ (AllowWriteFault /\ Failed(d)))

\* Until the leg pauses or halts, every node that is owed nothing is launched.
LaunchedInv == ~Paused /\ groupErr = Nobody => \A n \in Node : Owing(n) = {} =>
    Started(n) \/ \E d \in Declarers : n \in Body[d] /\ Resting(d)

\* What an earlier leg settled, and no arc re-armed since, is not to be run.
SettledInv == \A n \in settledNodes \ rearmed : Final(n) \/ InQuiet(n)

Wave ==
    /\ \A n \in Node : Goroutine(n)
    /\ RoundsInv /\ InputsInv /\ FiredInv /\ DegreeInv /\ LaunchedInv /\ SettledInv

\* What LoopCoherent becomes in a leg of a resumed run, whose rounds count from
\* the markers it carries: a body's record is ahead of its round only behind a
\* final record of the declarer, at least as far ahead.
Coherent ==
    /\ \A d \in Declarers : \A n \in Body[d] :
        /\ rounds[n] = rounds[d] /\ rounds[d] <= FeedbackMax[d]
        /\ nodes[n].round <= rounds[n] \/ (Final(d) /\ nodes[n].round <= nodes[d].round)
    /\ \A d \in Declarers : rounds[d] > 0 => nodes[d].verdict = "marker" \/ Final(d)
    /\ \A n \in Node : (\A d \in Declarers : n \notin Body[d]) => nodes[n].round = 0

----------------------------------------------------------------------------
(* Steps that keep to their own node. *)

\* A step of n's goroutine alone: n's verdict stands, it owes its dependents
\* what it owed them, or less once the leg pauses, and n stays started unless
\* the leg is pausing or halting.
Ordinary(n) ==
    /\ Live(n)
    /\ UNCHANGED <<inDegree, rearmed, rounds, settledNodes>>
    /\ \A m \in Node \ {n} :
        /\ phase'[m] = phase[m] /\ queued'[m] = queued[m]
        /\ todo'[m] = todo[m] /\ nodes'[m] = nodes[m]
        /\ PutOff(m)' <=> PutOff(m)
    /\ Goroutine(n)'
    /\ (Done(n) => Done(n)') /\ (Failed(n) => Failed(n)')
    /\ \A m \in DependentsOf(n) :
        /\ Owes(n, m)' => Owes(n, m)
        /\ Owes(n, m) => Owes(n, m)' \/ Paused'
    /\ Paused => Paused'
    /\ groupErr # Nobody => groupErr' # Nobody
    /\ Started(n)' \/ Paused' \/ groupErr' # Nobody
    /\ PutOff(n)' => phase[n] = "running"
    /\ phase[n] \in {"fired", "rearming", "failed", "halting"} =>
        /\ phase'[n] \in {"idle", "fired", "rearming", "failed", "halting"}
        /\ queued'[n] = queued[n] /\ nodes'[n] = nodes[n]
        /\ phase'[n] \in {"fired", "rearming"} => phase[n] \in {"fired", "rearming"}
        /\ phase[n] \in {"fired", "rearming"} =>
            phase'[n] \in {"fired", "rearming"} \/ Paused'
    /\ phase'[n] \in {"fired", "rearming"} => phase[n] \in {"fired", "rearming"}
    /\ nodes'[n].verdict = "marker" => nodes'[n] = nodes[n]

\* What a started node is not owed.
LEMMA NothingOwed ==
    ASSUME Wave, NEW n \in Node, Started(n), n \notin Declarers \/ ~Quiet(n) \/ PutOff(n)
    PROVE  \A p \in Parents[n] : Done(p) /\ ~Owes(p, n)
BY DEF Wave, InputsInv, Owing, Owes

\* The sets the in-degrees count are finite.
LEMMA OwingFinite ==
    ASSUME NEW n \in Node
    PROVE  /\ Owing(n) \subseteq Parents[n] /\ Parents[n] \subseteq Node
           /\ IsFiniteSet(Owing(n)) /\ Cardinality(Owing(n)) \in Nat
           /\ Cardinality(Owing(n)) = 0 <=> Owing(n) = {}
<1>1. Owing(n) \subseteq Parents[n] /\ Parents[n] \subseteq Node
  BY GraphAssumption DEF Owing
<1>2. IsFiniteSet(Owing(n))
  BY <1>1, GraphAssumption, FS_Subset
<1> QED
  BY <1>1, <1>2, FS_CardinalityType, FS_EmptySet

\* Without a goroutine of its own a node of a quiet body does not move.
LEMMA QuietMoves ==
    ASSUME NEW d \in Declarers, Quiet(d), NEW n \in Body[d], Live(n)
    PROVE  n = d /\ phase[n] \in {"fired", "rearming", "failed", "halting"}
BY DEF Quiet, Live

LEMMA OrdinaryStep ==
    ASSUME IInv, IInv', Wave, NEW n \in Node, Ordinary(n)
    PROVE  Wave'
<1>1. ASSUME NEW m \in Node
      PROVE  /\ Done(m) => Done(m)'
             /\ Failed(m) => Failed(m)'
             /\ m # n => (Done(m)' <=> Done(m)) /\ (Failed(m)' <=> Failed(m))
  BY DEF Ordinary, Done, Failed
<1>2. ASSUME NEW m \in Node
      PROVE  /\ m # n => (Started(m)' <=> Started(m))
             /\ Started(m)' => Started(m)
             /\ Started(m) => Started(m)' \/ Paused' \/ groupErr' # Nobody
  BY <1>1 DEF Ordinary, Started, Live, Final
<1>3. ASSUME NEW m \in Node, NEW p \in Parents[m]
      PROVE  /\ Owes(p, m)' => Owes(p, m)
             /\ Owes(p, m) => Owes(p, m)' \/ Paused'
  <2>1. p \in Node /\ m \in DependentsOf(p)
    BY GraphAssumption DEF DependentsOf
  <2>2. CASE p = n
    BY <2>1, <2>2 DEF Ordinary
  <2>3. CASE p # n
    BY <1>1, <2>1, <2>3 DEF Ordinary, Owes
  <2> QED
    BY <2>2, <2>3
<1>4. ASSUME NEW m \in Node
      PROVE  /\ Owing(m)' \subseteq Owing(m)
             /\ ~Paused' => Owing(m)' = Owing(m)
  BY <1>3 DEF Owing
<1>5. ASSUME NEW d \in Declarers, Quiet(d) PROVE Quiet(d)'
  <2>1. d \in Node /\ d \in Body[d] /\ Body[d] \subseteq Node
    BY BodyShape
  <2>2. n \in Body[d] => n = d /\ phase[n] \in {"fired", "rearming", "failed", "halting"}
    BY <1>5, QuietMoves DEF Ordinary
  <2>3. phase'[d] \in {"idle", "fired", "rearming", "failed", "halting"}
    BY <1>5, <2>1, <2>2 DEF Ordinary, Quiet
  <2>4. ASSUME NEW m \in Body[d]
        PROVE  queued'[m] = 0 /\ ~Done(m)' /\ (m # d => phase'[m] = "idle")
    <3>1. m # n => Done(m)' = Done(m)
      BY <2>1 DEF Ordinary, Done
    <3>2. m = n => Done(m)' = Done(m)
      BY <2>2 DEF Ordinary, Done
    <3> QED
      BY <1>5, <2>1, <2>2, <3>1, <3>2 DEF Ordinary, Quiet
  <2>5. ASSUME NEW m \in Body[d], NEW p \in Parents[m] \ Body[d] PROVE ~Owes(p, m)'
    BY <1>3, <1>5, <2>1 DEF Quiet
  <2> QED
    BY <2>3, <2>4, <2>5 DEF Quiet
<1>6. \A m \in Node : Goroutine(m)'
  BY <1>1 DEF Ordinary, Wave, Goroutine, Final
<1>7. RoundsInv'
  BY DEF Ordinary, Wave, RoundsInv
<1>8. InputsInv'
  <2> SUFFICES ASSUME NEW m \in Node, Started(m)'
               PROVE  Owing(m)' = {} \/ (m \in Declarers /\ Quiet(m)' /\ ~PutOff(m)')
    BY DEF InputsInv
  <2>1. Owing(m) = {} \/ (m \in Declarers /\ Quiet(m) /\ ~PutOff(m))
    BY <1>2 DEF Wave, InputsInv
  <2>2. CASE m \in Declarers /\ Quiet(m) /\ ~PutOff(m)
    BY <1>5, <2>2 DEF Ordinary, Quiet
  <2> QED
    BY <1>4, <2>1, <2>2
<1>9. FiredInv'
  <2> SUFFICES ASSUME NEW d \in Node, phase'[d] \in {"fired", "rearming"}
               PROVE  Quiet(d)' /\ \A m \in Body[d] \ {d} : ~Started(m)'
    BY DEF FiredInv
  <2>1. phase[d] \in {"fired", "rearming"} /\ d \in Declarers
    BY DEF Ordinary, IInv, LoopPhases
  <2> QED
    BY <1>2, <1>5, <2>1, BodyShape DEF Wave, FiredInv
<1>10. ASSUME NEW m \in Node, InQuiet(m) PROVE InQuiet(m)'
  BY <1>5, <1>10 DEF InQuiet
<1>11. DegreeInv'
  <2> SUFFICES ASSUME NEW m \in Node, ~InQuiet(m)
               PROVE  /\ inDegree'[m] >= Cardinality(Owing(m)')
                      /\ ~Paused' => inDegree'[m] = Cardinality(Owing(m)')
    BY <1>10 DEF DegreeInv
  <2>1. inDegree[m] \in Int /\ inDegree'[m] = inDegree[m]
    BY DEF Ordinary, IInv, TypeOK
  <2>2. IsFiniteSet(Owing(m)) /\ Cardinality(Owing(m)) \in Nat
    BY OwingFinite
  <2>3. /\ IsFiniteSet(Owing(m)') /\ Cardinality(Owing(m)') \in Nat
        /\ Cardinality(Owing(m)') <= Cardinality(Owing(m))
    BY <1>4, <2>2, FS_Subset, FS_CardinalityType
  <2>4. /\ inDegree[m] >= Cardinality(Owing(m))
        /\ ~Paused => inDegree[m] = Cardinality(Owing(m))
    BY DEF Wave, DegreeInv
  <2>5. ~Paused' => ~Paused /\ Owing(m)' = Owing(m)
    BY <1>4 DEF Ordinary
  <2> QED
    BY <2>1, <2>2, <2>3, <2>4, <2>5
<1>12. LaunchedInv'
  <2> SUFFICES ASSUME ~Paused', groupErr' = Nobody, NEW m \in Node, Owing(m)' = {},
                      ~Started(m)'
               PROVE  \E d \in Declarers : m \in Body[d] /\ Resting(d)'
    BY DEF LaunchedInv
  <2>1. ~Paused /\ groupErr = Nobody /\ Owing(m) = {} /\ ~Started(m)
    BY <1>2, <1>4 DEF Ordinary
  <2>2. PICK d \in Declarers : m \in Body[d] /\ Resting(d)
    BY <2>1 DEF Wave, LaunchedInv
  <2>3. d \in Node /\ Quiet(d)' /\ (Failed(d) => Failed(d)')
    BY <1>1, <1>5, <2>2, BodyShape DEF Resting
  <2>4. phase[d] \in {"fired", "rearming"} => phase'[d] \in {"fired", "rearming"}
    BY <2>3 DEF Ordinary
  <2> QED
    BY <2>2, <2>3, <2>4 DEF Resting
<1>13. SettledInv'
  BY <1>1, <1>10 DEF Ordinary, Wave, SettledInv, Final, IInv, TypeOK
<1> QED
  BY <1>6, <1>7, <1>8, <1>9, <1>11, <1>12, <1>13 DEF Wave

\* A gate is in no loop: its verdicts are of round 0.
LEMMA GateRounds ==
    ASSUME RoundsInv, NEW n \in Gates
    PROVE  n \in Node /\ rounds[n] = 0
BY GraphAssumption, BodyShape DEF RoundsInv

\* Recording a verdict of the current round settles the node.
LEMMA RecordedVerdict ==
    ASSUME IInv, NEW n \in Node, NEW verdict \in {"PASS", "FAIL"},
           NEW detail \in Node \cup {Nobody, "own"},
           Record(n, verdict, rounds[n], detail), UNCHANGED rounds
    PROVE  /\ nodes'[n].verdict = verdict
           /\ Done(n)' <=> verdict = "PASS"
           /\ Failed(n)' <=> verdict = "FAIL"
           /\ \A m \in Node \ {n} : nodes'[m] = nodes[m]
<1>1. rounds[n] \in Nat /\ verdict \in Verdict /\ TypeOK
  BY DEF IInv, TypeOK, Verdict
<1>2. /\ nodes'[n].round = rounds[n] /\ nodes'[n].verdict = verdict
      /\ \A m \in Node \ {n} : nodes'[m] = nodes[m]
  BY <1>1, RecordEffect
<1> QED
  BY <1>1, <1>2 DEF Done, Failed

\* Every step but the release of a dependent and the handling of an arc keeps
\* to its own node.
LEMMA OrdinaryMoves ==
    ASSUME IInv, Wave, NEW n \in Node,
           \/ Start(n) \/ Skip(n) \/ Pass(n) \/ Limited(n)
           \/ \E kind \in FailKind : RetryAttempt(n, kind) \/ Fail(n, kind)
           \/ ReadPauseFired(n) \/ GateApprove(n) \/ GateApproved(n) \/ GateReject(n)
           \/ GateRejected(n) \/ GatePause(n) \/ ReadPause(n) \/ Prune(n)
           \/ HaltNote(n) \/ HaltReturn(n)
    PROVE  Ordinary(n)
<1> USE DEF Goto
<1>1. /\ phase \in [Node -> Phase] /\ queued \in [Node -> Nat] /\ todo \in [Node -> SUBSET Node]
      /\ rounds[n] \in Nat /\ Goroutine(n) /\ RoundsInv
      /\ pausedAt \in Node \cup {Nobody} /\ Nobody \notin Node
  BY GraphAssumption, NobodyAssumption DEF IInv, TypeOK, Wave
<1>2. ASSUME Start(n) PROVE Ordinary(n)
  BY <1>1, <1>2 DEF Start, Ordinary, Goroutine, Live, Started, Done, Failed, Final, PutOff, Owes, Paused
<1>3. ASSUME Skip(n) PROVE Ordinary(n)
  BY <1>1, <1>3, NobodyAssumption DEF Skip, Ordinary, Goroutine, Live, Started, Done, Failed, Final, PutOff, Owes, Paused
<1>4. ASSUME Pass(n) PROVE Ordinary(n)
  <2>1. /\ nodes'[n].verdict = "PASS" /\ Done(n)' /\ ~Failed(n)'
        /\ \A m \in Node \ {n} : nodes'[m] = nodes[m]
    BY <1>4, RecordedVerdict DEF Pass
  <2> QED
    BY <1>1, <1>4, <2>1 DEF Pass, Running, Ordinary, Goroutine, Live, Started, Final, PutOff, Owes, Paused
<1>5. ASSUME Limited(n) PROVE Ordinary(n)
  BY <1>1, <1>5 DEF Limited, Running, Ordinary, Goroutine, Live, Started, Done, Failed, Final, PutOff, Owes, Paused
<1>6. ASSUME NEW kind \in FailKind, RetryAttempt(n, kind) PROVE Ordinary(n)
  BY <1>1, <1>6 DEF RetryAttempt, Running, Ordinary, Goroutine, Live, Started, Done, Failed, Final, PutOff, Owes, Paused
<1>7. ASSUME NEW kind \in FailKind, Fail(n, kind) PROVE Ordinary(n)
  <2> DEFINE detail == IF kind = "killed" THEN Explain ELSE "own"
  <2>1. detail \in Node \cup {Nobody, "own"}
    BY DEF Explain, IInv, TypeOK
  <2>2. Record(n, "FAIL", rounds[n], detail) /\ UNCHANGED rounds
    BY <1>7 DEF Fail
  <2> HIDE DEF detail
  <2>3. /\ nodes'[n].verdict = "FAIL" /\ Failed(n)' /\ ~Done(n)'
        /\ \A m \in Node \ {n} : nodes'[m] = nodes[m]
    BY <2>1, <2>2, RecordedVerdict
  <2> QED
    BY <1>1, <1>7, <2>3 DEF Fail, Running, Ordinary, Goroutine, Live, Started, Final, PutOff, Owes, Paused
<1>8. ASSUME ReadPauseFired(n) PROVE Ordinary(n)
  BY <1>1, <1>8 DEF ReadPauseFired, Ordinary, Goroutine, Live, Started, Done, Failed, Final, PutOff, Owes, Paused
<1>9. ASSUME GateApprove(n) PROVE Ordinary(n)
  <2>1. rounds[n] = 0 /\ n \in Gates
    BY <1>1, <1>9, GateRounds DEF GateApprove, AtGate
  <2>2. /\ nodes'[n].verdict = "PASS" /\ Done(n)' /\ ~Failed(n)'
        /\ \A m \in Node \ {n} : nodes'[m] = nodes[m]
    BY <1>9, <2>1, RecordedVerdict DEF GateApprove
  <2> QED
    BY <1>1, <1>9, <2>1, <2>2 DEF GateApprove, AtGate, Ordinary, Goroutine, Live, Started, Final, PutOff, Owes, Paused
<1>10. ASSUME GateApproved(n) PROVE Ordinary(n)
  BY <1>1, <1>10 DEF GateApproved, Ordinary, Goroutine, Live, Started, Done, Failed, Final, PutOff, Owes, Paused
<1>11. ASSUME GateReject(n) PROVE Ordinary(n)
  BY <1>1, <1>11 DEF GateReject, AtGate, Ordinary, Goroutine, Live, Started, Done, Failed, Final, PutOff, Owes, Paused
<1>12. ASSUME GateRejected(n) PROVE Ordinary(n)
  <2>1. /\ nodes'[n].verdict = "FAIL" /\ Failed(n)' /\ ~Done(n)'
        /\ \A m \in Node \ {n} : nodes'[m] = nodes[m]
    BY <1>12, RecordedVerdict DEF GateRejected
  <2> QED
    BY <1>1, <1>12, <2>1 DEF GateRejected, Ordinary, Goroutine, Live, Started, Final, PutOff, Owes, Paused
<1>13. ASSUME GatePause(n) PROVE Ordinary(n)
  BY <1>1, <1>13 DEF GatePause, AtGate, Ordinary, Goroutine, Live, Started, Done, Failed, Final, PutOff, Owes, Paused
<1>14. ASSUME ReadPause(n) PROVE Ordinary(n)
  BY <1>1, <1>14 DEF ReadPause, Ordinary, Goroutine, Live, Started, Done, Failed, Final, PutOff, Owes, Paused
<1>15. ASSUME Prune(n) PROVE Ordinary(n)
  BY <1>1, <1>15 DEF Prune, Ordinary, Goroutine, Live, Started, Done, Failed, Final, PutOff, Owes, Paused
<1>16. ASSUME HaltNote(n) PROVE Ordinary(n)
  BY <1>1, <1>16 DEF HaltNote, Ordinary, Goroutine, Live, Started, Done, Failed, Final, PutOff, Owes, Paused
<1>17. ASSUME HaltReturn(n) PROVE Ordinary(n)
  BY <1>1, <1>17 DEF HaltReturn, Ordinary, Goroutine, Live, Started, Done, Failed, Final, PutOff, Owes, Paused
<1> QED
  BY <1>2, <1>3, <1>4, <1>5, <1>6, <1>7, <1>8, <1>9, <1>10, <1>11, <1>12, <1>13, <1>14,
     <1>15, <1>16, <1>17

----------------------------------------------------------------------------
(* The release of a dependent. *)

\* A decrement is counted off: the dependent is owed one parent less, and the
\* last decrement, and no other, launches it.
LEMMA ReleaseStep ==
    ASSUME IInv, Wave, NEW n \in Node, NEW d \in Node, Release(n, d)
    PROVE  Wave'
<1>1. /\ phase \in [Node -> Phase] /\ queued \in [Node -> Nat] /\ todo \in [Node -> SUBSET Node]
      /\ inDegree \in [Node -> Int] /\ Goroutine(n) /\ Goroutine(d)
  BY DEF IInv, TypeOK, Wave
<1>2. /\ phase[n] = "releasing" /\ d \in todo[n] /\ Done(n) /\ n \in Parents[d]
      /\ Owes(n, d)
  BY <1>1 DEF Release, Goroutine, DependentsOf, Owes
<1>3. n # d
  BY <1>2, ParentIsAncestor, GraphAssumption
<1>4. ASSUME NEW e \in Declarers, Quiet(e) PROVE n \notin Body[e] /\ d \notin Body[e]
  BY <1>2, <1>4 DEF Quiet
<1>5. ~Started(d) /\ ~InQuiet(d)
  <2>1. d \in Declarers => ~Quiet(d)
    BY <1>4, BodyShape
  <2>2. Started(d) => Owing(d) = {}
    BY <2>1 DEF Wave, InputsInv
  <2> QED
    BY <1>2, <1>4, <2>2 DEF Owing, InQuiet
<1>6. /\ UNCHANGED <<rearmed, rounds, pausedAt, limitedNodes, groupErr, settledNodes, nodes>>
      /\ \A m \in Node \ {n} : phase'[m] = phase[m] /\ todo'[m] = todo[m]
      /\ todo'[n] = todo[n] \ {d}
      /\ phase'[n] = IF todo'[n] = {} THEN "idle" ELSE "releasing"
      /\ \A m \in Node \ {d} : queued'[m] = queued[m] /\ inDegree'[m] = inDegree[m]
      /\ inDegree'[d] = inDegree[d] - 1
  BY <1>1 DEF Release, Goto, Launch
<1>7. ASSUME NEW m \in Node PROVE (Done(m)' <=> Done(m)) /\ (Failed(m)' <=> Failed(m))
  BY <1>6 DEF Done, Failed
<1>8. ASSUME NEW m \in Node, NEW p \in Parents[m]
      PROVE  Owes(p, m)' <=> Owes(p, m) /\ ~(p = n /\ m = d)
  <2>1. p \in Node
    BY GraphAssumption
  <2>2. CASE p = n
    BY <1>2, <1>6, <1>7, <2>1, <2>2 DEF Owes
  <2>3. CASE p # n
    BY <1>6, <1>7, <2>1, <2>3 DEF Owes
  <2> QED
    BY <2>2, <2>3
<1>9. /\ \A m \in Node \ {d} : Owing(m)' = Owing(m)
      /\ Owing(d)' = Owing(d) \ {n} /\ n \in Owing(d)
  BY <1>2, <1>8 DEF Owing
<1>10. /\ Cardinality(Owing(d)') = Cardinality(Owing(d)) - 1
       /\ Cardinality(Owing(d)') \in Nat
       /\ Cardinality(Owing(d)') = 0 <=> Owing(d)' = {}
  <2>1. IsFiniteSet(Owing(d)) /\ Cardinality(Owing(d)) \in Nat
    BY OwingFinite
  <2>2. Cardinality(Owing(d) \ {n}) = Cardinality(Owing(d)) - 1
    BY <1>9, <2>1, FS_RemoveElement
  <2>3. IsFiniteSet(Owing(d) \ {n})
    BY <2>1, FS_Subset
  <2> QED
    BY <1>9, <2>2, <2>3, FS_CardinalityType, FS_EmptySet
<1>11. /\ inDegree'[d] >= Cardinality(Owing(d)')
       /\ ~Paused => inDegree'[d] = Cardinality(Owing(d)')
  <2>1. /\ inDegree[d] >= Cardinality(Owing(d))
        /\ ~Paused => inDegree[d] = Cardinality(Owing(d))
    BY <1>5 DEF Wave, DegreeInv
  <2>2. inDegree[d] \in Int /\ Cardinality(Owing(d)) \in Nat
    BY <1>1, OwingFinite
  <2> QED
    BY <1>6, <1>10, <2>1, <2>2
<1>12. queued'[d] = IF inDegree'[d] = 0 THEN 1 ELSE 0
  <2>1. queued[d] = 0
    BY <1>1, <1>5 DEF Started, Live
  <2>2. ~(d \in settledNodes /\ d \notin rearmed)
    BY <1>5 DEF Wave, SettledInv, Started
  <2> QED
    BY <1>1, <2>1, <2>2 DEF Release, IsReady, Launch
<1>13. /\ \A m \in Node \ {d} : Started(m)' <=> Started(m)
       /\ Started(d)' <=> inDegree'[d] = 0
  BY <1>2, <1>3, <1>5, <1>6, <1>7, <1>12 DEF Started, Live, Final, PutOff
<1>14. ASSUME NEW e \in Declarers, Quiet(e) PROVE Quiet(e)'
  <2>1. n \notin Body[e] /\ d \notin Body[e] /\ Body[e] \subseteq Node /\ e \in Body[e]
    BY <1>4, <1>14, BodyShape
  <2> QED
    BY <1>6, <1>7, <1>8, <1>14, <2>1 DEF Quiet
<1>15. \A m \in Node : Goroutine(m)'
  <2>1. Goroutine(n)'
    BY <1>1, <1>2, <1>3, <1>6, <1>7 DEF Goroutine, Final, PutOff
  <2>2. Goroutine(d)'
    BY <1>1, <1>3, <1>5, <1>6, <1>7, <1>12 DEF Goroutine, Final, PutOff, Started, Live
  <2>3. ASSUME NEW m \in Node \ {n, d} PROVE Goroutine(m)'
    BY <1>6, <1>7, <2>3 DEF Goroutine, Final, PutOff, Wave
  <2> QED
    BY <2>1, <2>2, <2>3
<1>16. RoundsInv'
  BY <1>6 DEF Wave, RoundsInv
<1>17. InputsInv'
  <2> SUFFICES ASSUME NEW m \in Node, Started(m)'
               PROVE  Owing(m)' = {} \/ (m \in Declarers /\ Quiet(m)' /\ ~PutOff(m)')
    BY DEF InputsInv
  <2>1. CASE m = d
    <3>1. 0 >= Cardinality(Owing(d)')
      BY <1>11, <1>13, <2>1
    <3>2. \A k \in Nat : 0 >= k => k = 0
      OBVIOUS
    <3>3. Owing(d)' = {}
      BY <1>10, <3>1, <3>2, Zenon
    <3> QED
      BY <2>1, <3>3
  <2>2. CASE m # d
    <3>1. Owing(m) = {} \/ (m \in Declarers /\ Quiet(m) /\ ~PutOff(m))
      BY <1>13, <2>2 DEF Wave, InputsInv
    <3>2. PutOff(m) <=> PutOff(m)'
      BY <1>6 DEF PutOff
    <3> QED
      BY <1>9, <1>14, <2>2, <3>1, <3>2
  <2> QED
    BY <2>1, <2>2
<1>18. FiredInv'
  <2> SUFFICES ASSUME NEW e \in Node, phase'[e] \in {"fired", "rearming"}
               PROVE  Quiet(e)' /\ \A m \in Body[e] \ {e} : ~Started(m)'
    BY DEF FiredInv
  <2>1. phase[e] \in {"fired", "rearming"} /\ e \in Declarers
    BY <1>2, <1>6 DEF IInv, LoopPhases
  <2>2. Quiet(e) /\ \A m \in Body[e] \ {e} : ~Started(m)
    BY <2>1 DEF Wave, FiredInv
  <2> QED
    BY <1>4, <1>13, <1>14, <2>1, <2>2, BodyShape
<1>19. ASSUME NEW m \in Node, InQuiet(m) PROVE InQuiet(m)'
  BY <1>14, <1>19 DEF InQuiet
<1>20. DegreeInv'
  <2> SUFFICES ASSUME NEW m \in Node, ~InQuiet(m)
               PROVE  /\ inDegree'[m] >= Cardinality(Owing(m)')
                      /\ ~Paused' => inDegree'[m] = Cardinality(Owing(m)')
    BY <1>19 DEF DegreeInv
  <2> QED
    BY <1>6, <1>9, <1>11 DEF Paused, Wave, DegreeInv
<1>21. LaunchedInv'
  <2> SUFFICES ASSUME ~Paused', groupErr' = Nobody, NEW m \in Node, Owing(m)' = {},
                      ~Started(m)'
               PROVE  \E e \in Declarers : m \in Body[e] /\ Resting(e)'
    BY DEF LaunchedInv
  <2>1. ~Paused /\ groupErr = Nobody
    BY <1>6 DEF Paused
  <2>2. m # d
    BY <1>10, <1>11, <1>13, <2>1
  <2>3. Owing(m) = {} /\ ~Started(m)
    BY <1>9, <1>13, <2>2
  <2>4. PICK e \in Declarers : m \in Body[e] /\ Resting(e)
    BY <2>1, <2>3 DEF Wave, LaunchedInv
  <2>5. e # n /\ e \in Node
    BY <1>4, <2>4, BodyShape DEF Resting
  <2> QED
    BY <1>6, <1>7, <1>14, <2>4, <2>5 DEF Resting
<1>22. SettledInv'
  BY <1>6, <1>7, <1>19 DEF Wave, SettledInv, Final, IInv, TypeOK
<1> QED
  BY <1>15, <1>16, <1>17, <1>18, <1>20, <1>21, <1>22 DEF Wave

----------------------------------------------------------------------------
(* Feedback arcs. *)

\* Re-arming a body starts it over: its in-degrees count its own parents, who
\* all owe again, and its target, owed nothing, is the one node launched.
LEMMA RearmStep ==
    ASSUME IInv, Wave, NEW n \in Node, Rearm(n)
    PROVE  Wave'
<1> DEFINE r == Rerun[n]
<1>1. /\ phase \in [Node -> Phase] /\ queued \in [Node -> Nat]
      /\ inDegree \in [Node -> Int] /\ rearmed \subseteq Node /\ Goroutine(n)
  BY DEF IInv, TypeOK, Wave
<1>2. phase[n] = "rearming" /\ n \in Declarers
  BY DEF Rearm, IInv, LoopPhases
<1>3. /\ r \in Body[n] /\ r # n /\ n \in Body[n] /\ Body[n] \subseteq Node
      /\ \A e \in Declarers \ {n} : Body[n] \cap Body[e] = {}
      /\ \A m \in Body[n] \ {r} : Parents[m] \cap Body[n] # {}
      /\ Parents[r] \cap Body[n] = {}
  BY <1>2, BodyShape
<1>4. /\ Quiet(n) /\ (\A m \in Body[n] \ {n} : ~Started(m))
      /\ queued[n] = 0 /\ ~Final(n) /\ ~PutOff(n)
  BY <1>1, <1>2 DEF Wave, FiredInv, Goroutine
<1> HIDE DEF r
<1>5. /\ UNCHANGED <<todo, rounds, pausedAt, limitedNodes, groupErr, settledNodes, nodes>>
      /\ \A m \in Node \ {n} : phase'[m] = phase[m]
      /\ phase'[n] = "idle"
      /\ rearmed' = rearmed \cup Body[n]
      /\ \A m \in Node : inDegree'[m] =
            IF m \in Body[n] THEN Cardinality(Parents[m] \cap Body[n]) ELSE inDegree[m]
      /\ \A m \in Node \ {r} : queued'[m] = queued[m]
      /\ queued'[r] = 1
  <2>1. queued[r] = 0
    BY <1>3, <1>4 DEF Quiet
  <2>2. rearmed' = rearmed \cup Body[n]
    BY DEF Rearm
  <2>3. queued' = [queued EXCEPT ![r] = @ + 1]
    BY <1>3, <2>2 DEF Rearm, Relaunch, Launch, r
  <2>4. queued'[r] = 1 /\ \A m \in Node \ {r} : queued'[m] = queued[m]
    BY <1>1, <1>3, <2>1, <2>3
  <2>5. phase'[n] = "idle" /\ \A m \in Node \ {n} : phase'[m] = phase[m]
    BY <1>1 DEF Rearm, Goto
  <2>6. \A m \in Node : inDegree'[m] =
            IF m \in Body[n] THEN Cardinality(Parents[m] \cap Body[n]) ELSE inDegree[m]
    BY DEF Rearm, Rearmed, InBodyDegree
  <2>7. UNCHANGED <<todo, rounds, pausedAt, limitedNodes, groupErr, settledNodes, nodes>>
    BY DEF Rearm
  <2> QED
    BY <2>2, <2>4, <2>5, <2>6, <2>7
<1>6. ASSUME NEW m \in Node PROVE (Done(m)' <=> Done(m)) /\ (Failed(m)' <=> Failed(m))
  BY <1>5 DEF Done, Failed
<1>7. ASSUME NEW m \in Node, NEW p \in Parents[m] PROVE Owes(p, m)' <=> Owes(p, m)
  <2>1. p \in Node
    BY GraphAssumption
  <2> QED
    BY <1>4, <1>5, <1>6, <2>1 DEF Owes, Final
<1>8. \A m \in Node : Owing(m)' = Owing(m)
  BY <1>7 DEF Owing
<1>9. \A m \in Body[n] : Owing(m) = Parents[m] \cap Body[n]
  BY <1>3, <1>4 DEF Owing, Quiet, Owes
<1>10. /\ \A m \in Node \ {r, n} : Started(m)' <=> Started(m)
       /\ ~Started(n)' /\ Owing(r)' = {}
  <2>1. Owing(r)' = {}
    BY <1>3, <1>8, <1>9
  <2>2. ~Started(n)'
    BY <1>1, <1>3, <1>4, <1>5, <1>6 DEF Started, Live, Final, PutOff
  <2>3. \A m \in Node \ {r, n} : Started(m)' <=> Started(m)
    BY <1>5, <1>6 DEF Started, Live, Final, PutOff
  <2> QED
    BY <2>1, <2>2, <2>3
<1>11. ASSUME NEW e \in Declarers \ {n}, Quiet(e)
       PROVE  Quiet(e)' /\ phase'[e] = phase[e]
  <2>1. Body[n] \cap Body[e] = {} /\ e \in Body[e] /\ Body[e] \subseteq Node
    BY <1>3, BodyShape
  <2>2. n \notin Body[e] /\ r \notin Body[e]
    BY <1>3, <2>1
  <2> QED
    BY <1>5, <1>6, <1>7, <1>11, <2>1, <2>2 DEF Quiet
<1>12. \A m \in Node : Goroutine(m)'
  <2>1. Goroutine(n)'
    BY <1>1, <1>3, <1>4, <1>5, <1>6 DEF Goroutine, Final, PutOff
  <2>2. Goroutine(r)'
    BY <1>1, <1>3, <1>4, <1>5, <1>6 DEF Goroutine, Final, PutOff, Started, Live
  <2>3. ASSUME NEW m \in Node \ {n, r} PROVE Goroutine(m)'
    BY <1>5, <1>6, <2>3 DEF Goroutine, Final, PutOff, Wave
  <2> QED
    BY <2>1, <2>2, <2>3
<1>13. RoundsInv'
  BY <1>5 DEF Wave, RoundsInv
<1>14. InputsInv'
  <2> SUFFICES ASSUME NEW m \in Node, Started(m)'
               PROVE  Owing(m)' = {} \/ (m \in Declarers /\ Quiet(m)' /\ ~PutOff(m)')
    BY DEF InputsInv
  <2>1. m # n
    BY <1>10
  <2>2. CASE m = r
    BY <1>10, <2>2
  <2>3. CASE m # r
    <3>1. Owing(m) = {} \/ (m \in Declarers /\ Quiet(m) /\ ~PutOff(m))
      BY <1>10, <2>1, <2>3 DEF Wave, InputsInv
    <3>2. PutOff(m) <=> PutOff(m)'
      BY <1>5 DEF PutOff
    <3> QED
      BY <1>8, <1>11, <2>1, <3>1, <3>2
  <2> QED
    BY <2>2, <2>3
<1>15. FiredInv'
  <2> SUFFICES ASSUME NEW e \in Node, phase'[e] \in {"fired", "rearming"}
               PROVE  Quiet(e)' /\ \A m \in Body[e] \ {e} : ~Started(m)'
    BY DEF FiredInv
  <2>1. phase[e] \in {"fired", "rearming"} /\ e \in Declarers \ {n}
    BY <1>5 DEF IInv, LoopPhases
  <2>2. Quiet(e) /\ \A m \in Body[e] \ {e} : ~Started(m)
    BY <2>1 DEF Wave, FiredInv
  <2>3. Body[e] \subseteq Node \ {n, r}
    BY <1>3, <2>1, BodyShape
  <2> QED
    BY <1>10, <1>11, <2>1, <2>2, <2>3
<1>16. ASSUME NEW m \in Node \ Body[n], InQuiet(m) PROVE InQuiet(m)'
  BY <1>11, <1>16 DEF InQuiet
<1>17. DegreeInv'
  <2> SUFFICES ASSUME NEW m \in Node, ~InQuiet(m)'
               PROVE  /\ inDegree'[m] >= Cardinality(Owing(m)')
                      /\ ~Paused' => inDegree'[m] = Cardinality(Owing(m)')
    BY DEF DegreeInv
  <2>1. CASE m \in Body[n]
    <3>1. inDegree'[m] = Cardinality(Owing(m)')
      BY <1>5, <1>8, <1>9, <2>1
    <3>2. Cardinality(Owing(m)') \in Nat
      BY <1>8, OwingFinite
    <3> QED
      BY <3>1, <3>2
  <2>2. CASE m \notin Body[n]
    BY <1>5, <1>8, <1>16, <2>2 DEF Paused, Wave, DegreeInv
  <2> QED
    BY <2>1, <2>2
<1>18. LaunchedInv'
  <2> SUFFICES ASSUME ~Paused', groupErr' = Nobody, NEW m \in Node, Owing(m)' = {},
                      ~Started(m)'
               PROVE  \E e \in Declarers : m \in Body[e] /\ Resting(e)'
    BY DEF LaunchedInv
  <2>1. ~Paused /\ groupErr = Nobody
    BY <1>5 DEF Paused
  <2>2. m # r
    BY <1>1, <1>3, <1>5 DEF Started, Live
  <2>3. m \notin Body[n]
    BY <1>3, <1>8, <1>9, <2>2
  <2>4. Owing(m) = {} /\ ~Started(m)
    BY <1>3, <1>8, <1>10, <2>2, <2>3
  <2>5. PICK e \in Declarers : m \in Body[e] /\ Resting(e)
    BY <2>1, <2>4 DEF Wave, LaunchedInv
  <2>6. e # n /\ e \in Node
    BY <2>3, <2>5, BodyShape
  <2> QED
    BY <1>6, <1>11, <2>5, <2>6 DEF Resting
<1>19. SettledInv'
  BY <1>5, <1>6, <1>16 DEF Wave, SettledInv, Final, IInv, TypeOK
<1> QED
  BY <1>12, <1>13, <1>14, <1>15, <1>17, <1>18, <1>19 DEF Wave

\* Under a node that was launched everything has passed, back to the sources.
LEMMA AncestorsDone ==
    ASSUME Wave, NEW n \in Node, Started(n), n \notin Declarers \/ ~Quiet(n)
    PROVE  \A a \in Ancestors[n] : Done(a)
<1> DEFINE S == {m \in Node : Done(m)}
<1>1. Parents[n] \subseteq S
  BY NothingOwed, GraphAssumption
<1>2. ASSUME NEW m \in S PROVE Parents[m] \subseteq S
  <2>1. m \in Node /\ Started(m)
    BY DEF Started, Final
  <2>2. m \in Declarers => ~Quiet(m)
    BY BodyType DEF Quiet
  <2> QED
    BY <2>1, <2>2, NothingOwed, GraphAssumption
<1>3. Ancestors[n] \subseteq S
  BY <1>1, <1>2, AncestorsClosed
<1> QED
  BY <1>3

\* "All body nodes had settled before the declarer could fail": when an arc
\* fires, the members of its body have passed, made every decrement they owed,
\* and returned.
LEMMA BodySettled ==
    ASSUME IInv, Wave, NEW n \in Declarers, phase[n] = "running"
    PROVE  /\ \A m \in Body[n] \ {n} :
                /\ Done(m) /\ ~PutOff(m)
                /\ phase[m] = "idle" /\ queued[m] = 0
           /\ \A m \in Body[n] : \A p \in Parents[m] : ~Owes(p, m)
           /\ queued[n] = 0 /\ ~Final(n) /\ ~PutOff(n)
<1>1. n \in Node /\ n \in Body[n] /\ Body[n] \subseteq Node /\ ~Quiet(n)
  BY BodyShape DEF Quiet
<1>2. ASSUME NEW m \in Body[n] \ {n} PROVE Done(m)
  BY <1>1, BodyShape, AncestorsDone DEF Started, Live
<1>3. ASSUME NEW m \in Body[n] PROVE \A p \in Parents[m] : ~Owes(p, m)
  <2>1. Started(m)
    BY <1>2 DEF Started, Live, Final
  <2>2. m \notin Declarers \/ ~Quiet(m)
    BY <1>1, <1>2, BodyType DEF Quiet
  <2> QED
    BY <1>1, <2>1, <2>2, NothingOwed
<1>4. ASSUME NEW m \in Body[n] \ {n}
      PROVE  ~PutOff(m) /\ phase[m] = "idle" /\ queued[m] = 0
  <2>1. m \in Node /\ Done(m) /\ ~Failed(m) /\ Goroutine(m) /\ phase[m] \in Phase
    BY <1>1, <1>2 DEF Failed, Done, Wave, IInv, TypeOK
  <2>2. m \notin Gates /\ DependentsOf(m) # {} /\ DependentsOf(m) \subseteq Body[n]
    BY BodyShape
  <2>3. \A x \in DependentsOf(m) : ~Owes(m, x)
    BY <1>3, <2>2 DEF DependentsOf
  <2>4. phase[m] # "passed"
    BY <2>2, <2>3 DEF Owes
  <2>5. phase[m] # "releasing"
    BY <2>1, <2>3 DEF Owes, Goroutine
  <2>6. phase[m] = "idle"
    BY <2>1, <2>2, <2>4, <2>5 DEF Goroutine, Phase, Final
  <2> QED
    BY <2>1, <2>6 DEF Goroutine, Final
<1>5. queued[n] = 0 /\ ~Final(n) /\ ~PutOff(n)
  BY <1>1 DEF Wave, Goroutine
<1> QED
  BY <1>2, <1>3, <1>4, <1>5

\* The records an arc leaves: a marker of the round it opens, or, when that
\* could not be written, the failure of it.
LEMMA FiredRecords ==
    ASSUME IInv, NEW n \in Node, NEW kind \in FailKind,
           FireArc(n, kind) \/ MarkerUnwritten(n, kind)
    PROVE  /\ n \in Declarers /\ phase[n] = "running" /\ rounds[n] < FeedbackMax[n]
           /\ rounds' = Fire(n)
           /\ nodes'[n].round = rounds[n] + 1
           /\ \A m \in Node \ {n} : nodes'[m] = nodes[m]
           /\ \/ phase' = [phase EXCEPT ![n] = "fired"] /\ nodes'[n].verdict = "marker"
              \/ /\ AllowWriteFault /\ nodes'[n].verdict = "FAIL"
                 /\ phase' = [phase EXCEPT ![n] = "failed"]
           /\ UNCHANGED <<queued, todo, inDegree, rearmed, pausedAt, limitedNodes,
                          groupErr, settledNodes>>
<1>1. rounds[n] + 1 \in Nat
  BY DEF IInv, TypeOK
<1>2. ASSUME FireArc(n, kind)
      PROVE  /\ nodes'[n].round = rounds[n] + 1 /\ nodes'[n].verdict = "marker"
             /\ \A m \in Node \ {n} : nodes'[m] = nodes[m]
  <2>1. Record(n, "marker", rounds[n] + 1, "own")
    BY <1>2 DEF FireArc
  <2> QED
    BY <1>1, <2>1, RecordEffect DEF IInv, Verdict
<1>3. ASSUME MarkerUnwritten(n, kind)
      PROVE  /\ nodes'[n].round = rounds[n] + 1 /\ nodes'[n].verdict = "FAIL"
             /\ \A m \in Node \ {n} : nodes'[m] = nodes[m]
  <2> DEFINE marker == Row("marker", rounds[n] + 1, "own")
             failure == Row("FAIL", rounds[n] + 1, "own")
  <2>1. /\ nodes \in [Node -> NodeRecord] /\ marker \in NodeRecord /\ failure \in NodeRecord
        /\ failure.round = rounds[n] + 1 /\ failure.verdict = "FAIL"
    BY <1>1 DEF IInv, TypeOK, NodeRecord, Row, Verdict
  <2>2. nodes' = RecordNode(RecordNode(nodes, n, marker), n, failure)
    BY <1>3 DEF MarkerUnwritten
  <2> HIDE DEF marker, failure
  <2>3. /\ RecordNode(nodes, n, marker) \in [Node -> NodeRecord]
        /\ \A m \in Node \ {n} : RecordNode(nodes, n, marker)[m] = nodes[m]
    BY <2>1, RecordNodeEffect
  <2> QED
    BY <2>1, <2>2, <2>3, RecordNodeEffect
<1>4. CASE FireArc(n, kind)
  BY <1>2, <1>4 DEF FireArc, Running, ArcFires, Goto
<1>5. CASE MarkerUnwritten(n, kind)
  BY <1>3, <1>5 DEF MarkerUnwritten, Running, ArcFires, Goto
<1> QED
  BY <1>4, <1>5

\* Before a declarer has its verdict no record of its body is ahead.
LEMMA BodyRounds ==
    ASSUME IInv, Coherent, NEW d \in Declarers, ~Final(d)
    PROVE  \A m \in Body[d] : /\ m \in Node /\ nodes[m].round \in Nat /\ rounds[m] \in Nat
                              /\ rounds[m] = rounds[d] /\ nodes[m].round <= rounds[m]
BY BodyShape DEF Coherent, IInv, TypeOK

\* An arc that fires outdates its whole body at one stroke, and nothing else.
LEMMA FireStep ==
    ASSUME IInv, Coherent, Wave, NEW n \in Node, NEW kind \in FailKind,
           FireArc(n, kind) \/ MarkerUnwritten(n, kind)
    PROVE  Wave'
<1>1. /\ phase \in [Node -> Phase] /\ rounds \in [Node -> Nat]
      /\ \A m \in Node : nodes[m].round \in Nat
  BY DEF IInv, TypeOK
<1>2. /\ n \in Declarers /\ phase[n] = "running" /\ rounds' = Fire(n)
      /\ nodes'[n].round = rounds[n] + 1
      /\ \A m \in Node \ {n} : nodes'[m] = nodes[m]
      /\ UNCHANGED <<queued, todo, inDegree, rearmed, pausedAt, limitedNodes, groupErr, settledNodes>>
  BY FiredRecords
<1>3. /\ \A m \in Node \ {n} : phase'[m] = phase[m]
      /\ \/ phase'[n] = "fired" /\ nodes'[n].verdict = "marker"
         \/ AllowWriteFault /\ phase'[n] = "failed" /\ nodes'[n].verdict = "FAIL"
  BY <1>1, FiredRecords
<1>4. /\ n \in Body[n] /\ Body[n] \subseteq Node
      /\ \A m \in Body[n] \ {n} : DependentsOf(m) \subseteq Body[n]
      /\ \A e \in Declarers \ {n} : Body[n] \cap Body[e] = {}
  BY <1>2, BodyShape
<1>5. /\ \A m \in Body[n] \ {n} :
            Done(m) /\ ~PutOff(m) /\ phase[m] = "idle" /\ queued[m] = 0
      /\ \A m \in Body[n] : \A p \in Parents[m] : ~Owes(p, m)
      /\ queued[n] = 0 /\ ~Final(n) /\ ~PutOff(n)
  BY <1>2, BodySettled
<1>6. /\ \A m \in Body[n] : rounds'[m] = rounds[n] + 1
      /\ \A m \in Node \ Body[n] : rounds'[m] = rounds[m]
      /\ \A m \in Body[n] : rounds[m] = rounds[n]
  BY <1>2, <1>4 DEF Fire, Coherent
<1>7. /\ \A m \in Node \ Body[n] : (Done(m)' <=> Done(m)) /\ (Failed(m)' <=> Failed(m))
      /\ \A m \in Body[n] \ {n} : ~Done(m)' /\ ~Failed(m)'
      /\ ~Done(n)'
      /\ phase'[n] = "fired" => ~Failed(n)'
      /\ phase'[n] = "failed" => Failed(n)' /\ AllowWriteFault
  <2>1. \A m \in Node \ Body[n] : (Done(m)' <=> Done(m)) /\ (Failed(m)' <=> Failed(m))
    BY <1>2, <1>4, <1>6 DEF Done, Failed
  <2>2. ASSUME NEW m \in Body[n] \ {n} PROVE ~Done(m)' /\ ~Failed(m)'
    BY <1>1, <1>2, <1>4, <1>5, <1>6, BodyRounds DEF Done, Failed
  <2>3. rounds'[n] = rounds[n] + 1 /\ rounds[n] \in Nat
    BY <1>1, <1>4, <1>6
  <2> QED
    BY <1>2, <1>3, <2>1, <2>2, <2>3 DEF Done, Failed
<1>8. \A m \in Node : PutOff(m)' <=> PutOff(m)
  BY <1>2 DEF PutOff
<1>9. /\ \A m \in Node \ Body[n] : Started(m)' <=> Started(m)
      /\ \A m \in Body[n] \ {n} : ~Started(m)'
  BY <1>2, <1>3, <1>4, <1>5, <1>7, <1>8 DEF Started, Live, Final
<1>10. ASSUME NEW m \in Node \ Body[n], NEW p \in Parents[m] PROVE Owes(p, m)' <=> Owes(p, m)
  <2>1. p \in Node /\ m \in DependentsOf(p)
    BY GraphAssumption DEF DependentsOf
  <2>2. CASE p = n
    BY <1>5, <1>7, <2>2 DEF Owes, Final
  <2>3. CASE p \in Body[n] \ {n}
    BY <1>4, <2>1, <2>3
  <2>4. CASE p \notin Body[n]
    BY <1>2, <1>3, <1>4, <1>7, <2>1, <2>4 DEF Owes
  <2> QED
    BY <2>2, <2>3, <2>4
<1>11. \A m \in Node \ Body[n] : Owing(m)' = Owing(m)
  BY <1>10 DEF Owing
<1>12. Quiet(n)'
  <2>1. ASSUME NEW m \in Body[n], NEW p \in Parents[m] \ Body[n] PROVE ~Owes(p, m)'
    <3>1. p \in Node \ Body[n] /\ ~Owes(p, m)
      BY <1>4, <1>5, GraphAssumption
    <3> QED
      BY <1>2, <1>3, <1>4, <1>7, <3>1 DEF Owes
  <2>2. phase'[n] \in {"fired", "failed"}
    BY <1>3
  <2>3. ASSUME NEW m \in Body[n] \ {n} PROVE phase'[m] = "idle" /\ queued'[m] = 0 /\ ~Done(m)'
    BY <1>2, <1>3, <1>4, <1>5, <1>7
  <2>4. queued'[n] = 0 /\ ~Done(n)'
    BY <1>2, <1>5, <1>7
  <2> QED
    BY <2>1, <2>2, <2>3, <2>4 DEF Quiet
<1>13. ASSUME NEW e \in Declarers \ {n}, Quiet(e) PROVE Quiet(e)'
  <2>1. Body[e] \subseteq Node \ Body[n] /\ e \in Body[e]
    BY <1>4, BodyShape
  <2> QED
    BY <1>2, <1>3, <1>4, <1>7, <1>10, <1>13, <2>1 DEF Quiet
<1>14. ASSUME NEW m \in Node, InQuiet(m) \/ m \in Body[n] PROVE InQuiet(m)'
  BY <1>2, <1>12, <1>13, <1>14 DEF InQuiet
<1>15. \A m \in Node : Goroutine(m)'
  <2>1. Goroutine(n)'
    BY <1>2, <1>3, <1>5, <1>7, <1>8 DEF Goroutine, Final
  <2>2. ASSUME NEW m \in Body[n] \ {n} PROVE Goroutine(m)'
    BY <1>2, <1>3, <1>4, <1>5, <1>7, <1>8 DEF Goroutine, Final
  <2>3. ASSUME NEW m \in Node \ Body[n] PROVE Goroutine(m)'
    <3>1. Goroutine(m) /\ phase'[m] = phase[m] /\ queued'[m] = queued[m] /\ todo'[m] = todo[m]
      BY <1>2, <1>3, <1>4 DEF Wave
    <3> QED
      BY <1>7, <1>8, <3>1 DEF Goroutine, Final
  <2> QED
    BY <2>1, <2>2, <2>3
<1>16. RoundsInv'
  <2>1. ASSUME NEW m \in Node, \A d \in Declarers : m \notin Body[d] PROVE rounds'[m] = 0
    BY <1>2, <1>6, <2>1 DEF Wave, RoundsInv
  <2>2. ASSUME NEW m \in Node, nodes'[m].verdict = "marker"
        PROVE  m \in Declarers /\ nodes'[m].round = rounds'[m]
    <3>1. CASE m = n
      BY <1>2, <1>4, <1>6, <3>1
    <3>2. CASE m # n
      <4>1. m \in Declarers /\ nodes[m].round = rounds[m]
        BY <1>2, <2>2, <3>2 DEF Wave, RoundsInv
      <4>2. m \notin Body[n]
        BY <1>4, <3>2, <4>1, BodyType
      <4> QED
        BY <1>2, <1>6, <3>2, <4>1, <4>2
    <3> QED
      BY <3>1, <3>2
  <2> QED
    BY <2>1, <2>2 DEF RoundsInv
<1>17. InputsInv'
  <2> SUFFICES ASSUME NEW m \in Node, Started(m)'
               PROVE  Owing(m)' = {} \/ (m \in Declarers /\ Quiet(m)' /\ ~PutOff(m)')
    BY DEF InputsInv
  <2>1. CASE m = n
    BY <1>2, <1>5, <1>8, <1>12, <2>1
  <2>2. CASE m \in Body[n] \ {n}
    BY <1>9, <2>2
  <2>3. CASE m \notin Body[n]
    <3>1. Owing(m) = {} \/ (m \in Declarers /\ Quiet(m) /\ ~PutOff(m))
      BY <1>9, <2>3 DEF Wave, InputsInv
    <3> QED
      BY <1>4, <1>8, <1>11, <1>13, <2>3, <3>1
  <2> QED
    BY <2>1, <2>2, <2>3
<1>18. FiredInv'
  <2> SUFFICES ASSUME NEW e \in Node, phase'[e] \in {"fired", "rearming"}
               PROVE  Quiet(e)' /\ \A m \in Body[e] \ {e} : ~Started(m)'
    BY DEF FiredInv
  <2>1. CASE e = n
    BY <1>9, <1>12, <2>1
  <2>2. CASE e # n
    <3>1. phase[e] \in {"fired", "rearming"} /\ e \in Declarers
      BY <1>3, <2>2 DEF IInv, LoopPhases
    <3>2. Quiet(e) /\ \A m \in Body[e] \ {e} : ~Started(m)
      BY <3>1 DEF Wave, FiredInv
    <3>3. Body[e] \subseteq Node \ Body[n]
      BY <1>4, <2>2, <3>1, BodyShape
    <3> QED
      BY <1>9, <1>13, <2>2, <3>1, <3>2, <3>3
  <2> QED
    BY <2>1, <2>2
<1>19. DegreeInv'
  <2> SUFFICES ASSUME NEW m \in Node, ~InQuiet(m)'
               PROVE  /\ inDegree'[m] >= Cardinality(Owing(m)')
                      /\ ~Paused' => inDegree'[m] = Cardinality(Owing(m)')
    BY DEF DegreeInv
  <2>1. m \notin Body[n] /\ ~InQuiet(m)
    BY <1>14
  <2> QED
    BY <1>2, <1>11, <2>1 DEF Paused, Wave, DegreeInv
<1>20. LaunchedInv'
  <2> SUFFICES ASSUME ~Paused', groupErr' = Nobody, NEW m \in Node, Owing(m)' = {},
                      ~Started(m)'
               PROVE  \E e \in Declarers : m \in Body[e] /\ Resting(e)'
    BY DEF LaunchedInv
  <2>1. ~Paused /\ groupErr = Nobody
    BY <1>2 DEF Paused
  <2>2. CASE m \in Body[n]
    BY <1>2, <1>3, <1>7, <1>12, <2>2 DEF Resting
  <2>3. CASE m \notin Body[n]
    <3>1. Owing(m) = {} /\ ~Started(m)
      BY <1>9, <1>11, <2>3
    <3>2. PICK e \in Declarers : m \in Body[e] /\ Resting(e)
      BY <2>1, <3>1 DEF Wave, LaunchedInv
    <3>3. e # n /\ e \in Node \ Body[n]
      BY <1>4, <2>3, <3>2, BodyShape
    <3> QED
      BY <1>3, <1>7, <1>13, <3>2, <3>3 DEF Resting
  <2> QED
    BY <2>2, <2>3
<1>21. SettledInv'
  <2> SUFFICES ASSUME NEW m \in settledNodes \ rearmed PROVE Final(m)' \/ InQuiet(m)'
    BY <1>2 DEF SettledInv
  <2>1. m \in Node /\ (Final(m) \/ InQuiet(m))
    BY DEF Wave, SettledInv, IInv, TypeOK
  <2> QED
    BY <1>7, <1>14, <2>1 DEF Final
<1> QED
  BY <1>15, <1>16, <1>17, <1>18, <1>19, <1>20, <1>21 DEF Wave

----------------------------------------------------------------------------
(* The invariant holds when a leg opens, and every step keeps it. *)

DoneNodes == {n \in Node : Done(n)}

\* A leg that has just been opened, over whatever records: what these leave
\* ready waits for a slot, and no verdict they hold lacks its inputs.
Opened ==
    /\ \A n \in Node :
        /\ phase[n] = "idle"
        /\ queued[n] = IF Parents[n] \subseteq DoneNodes /\ ~Final(n) THEN 1 ELSE 0
        /\ inDegree[n] = Cardinality(Parents[n] \ DoneNodes)
        /\ Final(n) => Parents[n] \subseteq DoneNodes
    /\ pausedAt = Nobody /\ limitedNodes = {}
    /\ \A n \in settledNodes : n \in Node /\ Final(n)
    /\ RoundsInv

LEMMA OpenedWave == Opened => Wave
<1> SUFFICES ASSUME Opened PROVE Wave
  OBVIOUS
<1>1. \A n \in Node : Owing(n) = Parents[n] \ DoneNodes
  BY GraphAssumption DEF Opened, Owing, Owes, DoneNodes
<1>2. \A n \in Node : Owing(n) = {} <=> Parents[n] \subseteq DoneNodes
  BY <1>1
<1>3. \A n \in Node : ~PutOff(n)
  BY NobodyAssumption DEF Opened, PutOff
<1>4. ASSUME NEW n \in Node
      PROVE  /\ queued[n] \in {0, 1} /\ phase[n] = "idle"
             /\ queued[n] = 1 => Owing(n) = {} /\ ~Final(n)
             /\ queued[n] = 0 => Owing(n) # {} \/ Final(n)
             /\ Final(n) => Owing(n) = {}
  <2>1. /\ phase[n] = "idle"
        /\ queued[n] = IF Parents[n] \subseteq DoneNodes /\ ~Final(n) THEN 1 ELSE 0
        /\ Final(n) => Parents[n] \subseteq DoneNodes
    BY DEF Opened
  <2>2. Owing(n) = {} <=> Parents[n] \subseteq DoneNodes
    BY <1>2
  <2>3. CASE Final(n)
    BY <2>1, <2>2, <2>3
  <2>4. CASE ~Final(n)
    BY <2>1, <2>2, <2>4
  <2> QED
    BY <2>3, <2>4
<1>5. ASSUME NEW n \in Node PROVE Started(n) <=> Owing(n) = {}
  <2>1. queued[n] > 0 <=> queued[n] = 1
    BY <1>4
  <2> QED
    BY <1>3, <1>4, <2>1 DEF Started, Live
<1>6. \A n \in Node : Goroutine(n)
  BY <1>3, <1>4 DEF Opened, Goroutine
<1>7. InputsInv /\ FiredInv /\ LaunchedInv /\ SettledInv
  BY <1>5 DEF Opened, InputsInv, FiredInv, LaunchedInv, SettledInv
<1>8. DegreeInv
  BY <1>1, OwingFinite DEF Opened, DegreeInv
<1> QED
  BY <1>6, <1>7, <1>8 DEF Opened, Wave

LEMMA InitWave == Init => Wave
<1> SUFFICES ASSUME Init PROVE Opened
  BY OpenedWave
<1>1. \A n \in Node : ~Done(n) /\ ~Failed(n) /\ nodes[n].verdict = "none"
  BY DEF Init, NothingDone, NoRecord, Done, Failed
<1>2. DoneNodes = {}
  BY <1>1 DEF DoneNodes
<1>3. \A n \in Node : queued[n] = IF Parents[n] = {} THEN 1 ELSE 0
  BY DEF Init, NothingDone, LegQueued, ReadyGiven
<1>4. \A n \in Node : inDegree[n] = Cardinality(Parents[n] \ {})
  BY DEF Init, NothingDone, LegInDegree
<1>5. RoundsInv
  BY <1>1 DEF Init, NothingDone, RoundsInv
<1> QED
  BY <1>1, <1>2, <1>3, <1>4, <1>5 DEF Init, NothingDone, Opened, Final

LEMMA WaveStep ==
    ASSUME IInv, Coherent, Wave, [Next]_vars
    PROVE  Wave'
<1>1. IInv'
  BY StepTyped
<1>2. ASSUME NEW n \in Node, NodeStep(n) PROVE Wave'
  <2>1. CASE \E d \in Node : Release(n, d)
    BY <2>1, ReleaseStep
  <2>2. CASE Rearm(n)
    BY <2>2, RearmStep
  <2>3. CASE \E kind \in FailKind : FireArc(n, kind) \/ MarkerUnwritten(n, kind)
    BY <2>3, FireStep
  <2>4. CASE \/ Start(n) \/ Skip(n) \/ Pass(n) \/ Limited(n)
             \/ \E kind \in FailKind : RetryAttempt(n, kind) \/ Fail(n, kind)
             \/ ReadPauseFired(n) \/ GateApprove(n) \/ GateApproved(n) \/ GateReject(n)
             \/ GateRejected(n) \/ GatePause(n) \/ ReadPause(n) \/ Prune(n)
             \/ HaltNote(n) \/ HaltReturn(n)
    BY <1>1, <2>4, OrdinaryMoves, OrdinaryStep
  <2> QED
    BY <1>2, <2>1, <2>2, <2>3, <2>4 DEF NodeStep
<1>3. CASE Interrupt \/ Finish \/ Returned \/ UNCHANGED vars
  <2>1. UNCHANGED <<phase, queued, todo, loopVars, pauseVars, groupErr, settledNodes, nodes>>
    BY <1>3 DEF Interrupt, Finish, Returned, vars
  <2> QED
    BY <2>1 DEF Wave, Goroutine, RoundsInv, InputsInv, FiredInv, DegreeInv, LaunchedInv, SettledInv,
       Resting, InQuiet, Quiet, Started, Live, Owing, Owes, PutOff, Final, Failed, Done, Paused
<1> QED
  BY <1>2, <1>3 DEF Next

----------------------------------------------------------------------------
(* What a step writes. *)

\* The three ways a step touches the records.  A node is executed to a record
\* only while it has no verdict of its round; a fired arc counts a round on.
Settles(n) ==
    /\ phase[n] \in {"running", "rejecting"} /\ ~Final(n) /\ UNCHANGED rounds
    /\ \E verdict \in {"PASS", "FAIL"}, detail \in Node \cup {Nobody, "own"} :
        Record(n, verdict, rounds[n], detail)
Fires(n) ==
    /\ phase[n] = "running" /\ ~Final(n)
    /\ n \in Declarers /\ rounds[n] < FeedbackMax[n] /\ rounds' = Fire(n)
    /\ Record(n, "marker", rounds[n] + 1, "own")
FiresUnwritten(n) ==
    /\ AllowWriteFault /\ phase[n] = "running" /\ ~Final(n)
    /\ n \in Declarers /\ rounds[n] < FeedbackMax[n] /\ rounds' = Fire(n)
    /\ nodes' \in [Node -> NodeRecord]
    /\ nodes'[n].round = rounds[n] + 1 /\ nodes'[n].verdict = "FAIL"
    /\ \A m \in Node \ {n} : nodes'[m] = nodes[m]
    /\ ledger' = [ledger EXCEPT ![n] = @ + 1]

LEMMA RecordingSteps ==
    ASSUME IInv, Wave, [Next]_vars
    PROVE  \/ UNCHANGED <<nodes, rounds, ledger>>
           \/ \E n \in Node : Settles(n) \/ Fires(n) \/ FiresUnwritten(n)
<1>1. ASSUME NEW n \in Node, phase[n] \in {"running", "rejecting"} PROVE ~Final(n)
  BY <1>1 DEF Wave, Goroutine
<1>2. ASSUME NEW n \in Node, Pass(n) \/ GateRejected(n) PROVE Settles(n)
  BY <1>1, <1>2 DEF Pass, GateRejected, Running, Settles
<1>3. ASSUME NEW n \in Node, GateApprove(n) PROVE Settles(n)
  <2>1. rounds[n] = 0
    BY <1>3, GateRounds DEF GateApprove, AtGate, Wave
  <2> QED
    BY <1>1, <1>3, <2>1 DEF GateApprove, AtGate, Settles
<1>4. ASSUME NEW n \in Node, NEW kind \in FailKind, Fail(n, kind) PROVE Settles(n)
  <2>1. (IF kind = "killed" THEN Explain ELSE "own") \in Node \cup {Nobody, "own"}
    BY DEF Explain, IInv, TypeOK
  <2> QED
    BY <1>1, <1>4, <2>1 DEF Fail, Running, Settles
<1>5. ASSUME NEW n \in Node, NEW kind \in FailKind, FireArc(n, kind) PROVE Fires(n)
  BY <1>1, <1>5 DEF FireArc, ArcFires, Running, Fires
<1>6. ASSUME NEW n \in Node, NEW kind \in FailKind, MarkerUnwritten(n, kind)
      PROVE  FiresUnwritten(n)
  <2>1. nodes' \in [Node -> NodeRecord]
    BY <1>6, StepTyped DEF Next, NodeStep, IInv, TypeOK, NodeRecord
  <2>2. /\ nodes'[n].round = rounds[n] + 1 /\ rounds' = Fire(n)
        /\ \A m \in Node \ {n} : nodes'[m] = nodes[m]
        /\ phase[n] = "running" /\ n \in Declarers /\ rounds[n] < FeedbackMax[n]
    BY <1>6, FiredRecords
  <2>3. phase' = [phase EXCEPT ![n] = "failed"]
    BY <1>6 DEF MarkerUnwritten, Goto
  <2>4. nodes'[n].verdict = "FAIL"
    BY <1>6, <2>3, FiredRecords DEF IInv, TypeOK
  <2> QED
    BY <1>1, <1>6, <2>1, <2>2, <2>4 DEF MarkerUnwritten, FiresUnwritten
<1>7. ASSUME NEW n \in Node,
             \/ Start(n) \/ Skip(n) \/ Limited(n)
             \/ \E kind \in FailKind : RetryAttempt(n, kind)
             \/ ReadPauseFired(n) \/ Rearm(n) \/ GateApproved(n) \/ GateReject(n)
             \/ GatePause(n) \/ ReadPause(n) \/ (\E d \in Node : Release(n, d))
             \/ Prune(n) \/ HaltNote(n) \/ HaltReturn(n)
      PROVE  UNCHANGED <<nodes, rounds, ledger>>
  BY <1>7 DEF Start, Skip, Limited, RetryAttempt, ReadPauseFired, Rearm, GateApproved,
     GateReject, GatePause, ReadPause, Release, Prune, HaltNote, HaltReturn
<1>8. ASSUME Interrupt \/ Finish \/ Returned \/ UNCHANGED vars
      PROVE  UNCHANGED <<nodes, rounds, ledger>>
  BY <1>8 DEF Interrupt, Finish, Returned, vars
<1> QED
  BY <1>2, <1>3, <1>4, <1>5, <1>6, <1>7, <1>8 DEF Next, NodeStep

LEMMA CoherentStep ==
    ASSUME IInv, Coherent, Wave, [Next]_vars
    PROVE  Coherent'
<1>1. /\ rounds \in [Node -> Nat] /\ IInv'
      /\ \A n \in Node : nodes[n].round \in Nat
  BY StepTyped DEF IInv, TypeOK
<1>2. CASE UNCHANGED <<nodes, rounds, ledger>>
  BY <1>2 DEF Coherent, Final, Done, Failed
<1>3. ASSUME NEW n \in Node, Settles(n) PROVE Coherent'
  <2>1. PICK verdict \in {"PASS", "FAIL"}, detail \in Node \cup {Nobody, "own"} :
            Record(n, verdict, rounds[n], detail)
    BY <1>3 DEF Settles
  <2>2. /\ nodes'[n].round = rounds[n] /\ nodes'[n].verdict = verdict
        /\ \A m \in Node \ {n} : nodes'[m] = nodes[m]
    BY <1>1, <2>1, RecordEffect DEF Verdict, IInv
  <2>3. UNCHANGED rounds /\ ~Final(n)
    BY <1>3 DEF Settles
  <2>4. Final(n)' /\ \A m \in Node \ {n} : Final(m)' <=> Final(m)
    BY <1>1, <2>2, <2>3 DEF Final, Done, Failed
  <2>5. ASSUME NEW d \in Declarers, NEW m \in Body[d]
        PROVE  \/ nodes'[m].round <= rounds[m]
               \/ Final(d)' /\ nodes'[m].round <= nodes'[d].round
    <3>1. d \in Node /\ m \in Node
      BY BodyShape
    <3>2. CASE m = n
      BY <1>1, <2>2, <3>2
    <3>3. CASE m # n /\ d = n
      BY <2>2, <2>3, <3>1, <3>3, BodyRounds
    <3>4. CASE m # n /\ d # n
      BY <2>2, <2>4, <3>1, <3>4 DEF Coherent
    <3> QED
      BY <3>2, <3>3, <3>4
  <2>6. ASSUME NEW d \in Declarers, rounds[d] > 0 PROVE nodes'[d].verdict = "marker" \/ Final(d)'
    BY <2>2, <2>4, <2>6, BodyShape DEF Coherent
  <2>7. ASSUME NEW m \in Node, \A d \in Declarers : m \notin Body[d] PROVE nodes'[m].round = 0
    BY <2>2, <2>7 DEF Coherent, Wave, RoundsInv
  <2> QED
    BY <2>3, <2>5, <2>6, <2>7 DEF Coherent
<1>4. ASSUME NEW n \in Node, Fires(n) \/ FiresUnwritten(n) PROVE Coherent'
  <2>1. /\ n \in Declarers /\ ~Final(n) /\ rounds[n] < FeedbackMax[n] /\ rounds' = Fire(n)
        /\ n \in Body[n] /\ Body[n] \subseteq Node
    BY <1>4, BodyShape DEF Fires, FiresUnwritten
  <2>2. /\ nodes'[n].round = rounds[n] + 1 /\ nodes'[n].verdict \in {"marker", "FAIL"}
        /\ \A m \in Node \ {n} : nodes'[m] = nodes[m]
    <3>1. CASE Fires(n)
      <4>1. rounds[n] + 1 \in Nat /\ Record(n, "marker", rounds[n] + 1, "own")
        BY <1>1, <2>1, <3>1 DEF Fires
      <4> QED
        BY <4>1, RecordEffect DEF Verdict, IInv
    <3>2. CASE FiresUnwritten(n)
      BY <3>2 DEF FiresUnwritten
    <3> QED
      BY <1>4, <3>1, <3>2
  <2>3. /\ \A m \in Body[n] : rounds'[m] = rounds[n] + 1 /\ nodes[m].round <= rounds[n]
        /\ \A m \in Node \ Body[n] : rounds'[m] = rounds[m]
    BY <2>1, BodyRounds DEF Fire
  <2>4. \A m \in Node \ Body[n] : Final(m)' <=> Final(m)
    BY <2>1, <2>2, <2>3 DEF Final, Done, Failed
  <2>5. ASSUME NEW d \in Declarers, NEW m \in Body[d]
        PROVE  /\ rounds'[m] = rounds'[d] /\ rounds'[d] <= FeedbackMax[d]
               /\ nodes'[m].round <= rounds'[m] \/ (Final(d)' /\ nodes'[m].round <= nodes'[d].round)
    <3>1. CASE d = n
      <4>1. rounds[n] \in Nat /\ FeedbackMax[n] \in Nat /\ m \in Node /\ nodes[m].round \in Nat
        BY <1>1, <2>1, <2>5, <3>1, FeedbackAssumption
      <4> QED
        BY <2>1, <2>2, <2>3, <2>5, <3>1, <4>1
    <3>2. CASE d # n
      <4>1. d \in Node \ Body[n] /\ m \in Node \ Body[n]
        BY <2>1, <3>2, BodyShape
      <4> QED
        BY <2>1, <2>2, <2>3, <2>4, <4>1 DEF Coherent
    <3> QED
      BY <3>1, <3>2
  <2>6. ASSUME NEW d \in Declarers, rounds'[d] > 0 PROVE nodes'[d].verdict = "marker" \/ Final(d)'
    <3>1. CASE d = n
      BY <1>1, <2>1, <2>2, <2>3, <3>1 DEF Final, Failed
    <3>2. CASE d # n
      <4>1. d \in Node \ Body[n]
        BY <2>1, <3>2, BodyShape
      <4> QED
        BY <2>1, <2>2, <2>3, <2>4, <2>6, <4>1 DEF Coherent
    <3> QED
      BY <3>1, <3>2
  <2>7. ASSUME NEW m \in Node, \A d \in Declarers : m \notin Body[d] PROVE nodes'[m].round = 0
    BY <2>1, <2>2, <2>7 DEF Coherent
  <2> QED
    BY <2>5, <2>6, <2>7 DEF Coherent
<1> QED
  BY <1>2, <1>3, <1>4, RecordingSteps

\* The invariant of a leg: types, loop phases, coherent rounds, the wavefront.
LegInv == IInv /\ Coherent /\ Wave

LEMMA LegInvStep == LegInv /\ [Next]_vars => LegInv'
BY StepTyped, CoherentStep, WaveStep DEF LegInv

LEMMA InitLeg == Init => LegInv
<1> SUFFICES ASSUME Init PROVE Coherent
  BY InitTyped, InitWave DEF LegInv
<1>1. \A n \in Node : rounds[n] = 0 /\ nodes[n].round = 0
  BY DEF Init, NothingDone, NoRecord
<1> QED
  BY <1>1, BodyShape, FeedbackAssumption DEF Coherent

LEMMA LegInvKept == Spec => []LegInv
BY InitLeg, LegInvStep, PTL DEF Spec

----------------------------------------------------------------------------
(* What the wavefront promises. *)

\* Whatever consumes outputs has parents that passed in this round.
LEMMA WaveFresh == Wave => FreshInputs
<1> SUFFICES ASSUME Wave, NEW n \in Node, Consuming(n)
             PROVE  \A p \in Parents[n] : Done(p)
  BY DEF FreshInputs, Done
<1>1. n \in Declarers => ~Quiet(n)
  BY BodyType DEF Consuming, Quiet
<1>2. Started(n)
  BY DEF Consuming, Started, Live
<1> QED
  BY <1>1, <1>2, NothingOwed

\* One goroutine a node, and none in a body whose arc is being handled.
LEMMA WaveOne == IInv /\ Wave => OneExecution
<1> SUFFICES ASSUME IInv, Wave PROVE OneExecution
  OBVIOUS
<1>1. ASSUME NEW n \in Node PROVE queued[n] + (IF phase[n] = "idle" THEN 0 ELSE 1) <= 1
  BY DEF Wave, Goroutine
<1>2. ASSUME NEW d \in Declarers, phase[d] \in {"fired", "rearming"}, NEW n \in Body[d]
      PROVE  queued[n] = 0 /\ (n # d => phase[n] = "idle")
  BY <1>2, BodyShape DEF Wave, FiredInv, Quiet
<1> QED
  BY <1>1, <1>2 DEF OneExecution

\* On every graph and under every interleaving of failures, pauses and loops, a
\* node is launched and works only on parents whose latest record is a PASS no
\* later round has outrun.
THEOREM InputsFresh == Spec => []FreshInputs
<1>1. LegInv => FreshInputs
  BY WaveFresh DEF LegInv
<1> QED
  BY <1>1, LegInvKept, PTL

\* No node ever has two goroutines, and nothing of a body moves while its arc
\* is handled: re-seeding the in-degrees races no pending decrement.
THEOREM ExecutedOnce == Spec => []OneExecution
<1>1. LegInv => OneExecution
  BY WaveOne DEF LegInv
<1> QED
  BY <1>1, LegInvKept, PTL

----------------------------------------------------------------------------
(* How a leg ends, and what it has spent by then, on top of the wavefront;  *)
(* the last part shows that a leg implements its promise, module DagRun.    *)

\* Every step of a node's goroutine takes a goroutine, and leaves alone what
\* the end of the leg writes.
LEMMA NodeStepNeeds ==
    ASSUME NEW n \in Node, NodeStep(n)
    PROVE  Live(n) /\ UNCHANGED <<outcome, gatePausedAt, limitPause>>
BY DEF NodeStep, Live, Start, Skip, Pass, Limited, RetryAttempt, Fail, FireArc, MarkerUnwritten,
   ReadPauseFired, Rearm, GateApprove, GateApproved, GateReject, GateRejected, GatePause,
   ReadPause, Release, Prune, HaltNote, HaltReturn, Running, AtGate

\* What the snapshot of a leg says of its pause, before and after its end.
EndInv ==
    /\ outcome = "open" => gatePausedAt = Nobody /\ limitPause = {}
    /\ outcome # "open" =>
        /\ AllReturned /\ outcome = LegOutcome
        /\ limitPause = IF groupErr = Nobody THEN limitedNodes ELSE {}
        /\ gatePausedAt = IF outcome = "paused" THEN pausedAt ELSE Nobody
        /\ outcome = "paused" => decisions[pausedAt] = "pause"

\* A leg that has ended takes no step.
LEMMA EndedIsOver ==
    ASSUME IInv, outcome # "open", AllReturned, [Next]_vars
    PROVE  UNCHANGED vars
<1>1. \A n \in Node : ~Live(n)
  BY DEF AllReturned, Live, IInv, TypeOK
<1> QED
  BY <1>1, NodeStepNeeds DEF Next, Interrupt, Finish, Returned

LEMMA EndStep ==
    ASSUME IInv, EndInv, [Next]_vars
    PROVE  EndInv'
<1>1. CASE outcome # "open"
  <2>1. UNCHANGED vars
    BY <1>1, EndedIsOver DEF EndInv
  <2> QED
    BY <2>1 DEF vars, EndInv, AllReturned, LegOutcome
<1>2. CASE outcome = "open" /\ Finish
  <2>1. /\ outcome' = LegOutcome /\ AllReturned /\ LegOutcome # "open"
        /\ limitPause' = IF groupErr = Nobody THEN limitedNodes ELSE {}
        /\ UNCHANGED <<phase, queued, pausedAt, limitedNodes, groupErr, prunedFailures>>
    BY <1>2 DEF Finish, EndInv, LegOutcome
  <2>2. AllReturned' /\ LegOutcome' = LegOutcome
    BY <2>1 DEF AllReturned, LegOutcome
  <2>3. CASE LegOutcome = "paused"
    <3>1. pausedAt \in Gates
      BY <2>3 DEF LegOutcome, IInv, TypeOK
    <3>2. gatePausedAt' = pausedAt /\ decisions'[pausedAt] = "pause"
      BY <1>2, <2>3, <3>1 DEF Finish, IInv, TypeOK
    <3> QED
      BY <2>1, <2>2, <2>3, <3>2 DEF EndInv
  <2>4. CASE LegOutcome # "paused"
    <3>1. gatePausedAt' = Nobody
      BY <1>2, <2>4 DEF Finish, EndInv
    <3> QED
      BY <2>1, <2>2, <2>4, <3>1 DEF EndInv
  <2> QED
    BY <2>3, <2>4
<1>3. CASE outcome = "open" /\ ~Finish
  <2>1. UNCHANGED <<outcome, gatePausedAt, limitPause>>
    BY <1>3, NodeStepNeeds DEF Next, Interrupt, Returned, vars
  <2> QED
    BY <1>3, <2>1 DEF EndInv
<1> QED
  BY <1>1, <1>2, <1>3

\* A leg over returned goroutines: whatever is not final and could be run was
\* put off, or its loop could not be carried on.
LEMMA NothingLeft ==
    ASSUME LegInv, AllReturned, groupErr = Nobody, ~Paused,
           NEW n \in Node, ~Final(n), \A p \in Parents[n] : Done(p)
    PROVE  AllowWriteFault /\ \E d \in Declarers : n \in Body[d] /\ Failed(d)
<1>1. Owing(n) = {}
  BY GraphAssumption DEF Owing, Owes, AllReturned
<1>2. ~Started(n)
  <2>1. ~Live(n)
    BY DEF AllReturned, Live, LegInv, IInv, TypeOK
  <2>2. ~PutOff(n)
    BY NobodyAssumption DEF Paused, PutOff
  <2> QED
    BY <2>1, <2>2 DEF Started
<1>3. PICK d \in Declarers : n \in Body[d] /\ Resting(d)
  BY <1>1, <1>2 DEF LegInv, Wave, LaunchedInv
<1>4. phase[d] = "idle"
  BY BodyShape DEF AllReturned
<1> QED
  BY <1>3, <1>4 DEF Resting

LEMMA NothingForgottenEnds == LegInv /\ EndInv => NothingForgotten
<1> SUFFICES ASSUME LegInv, EndInv, outcome \in {"passed", "pruned"}, NEW n \in Node,
                    nodes[n].verdict \in {"none", "marker"} \/ nodes[n].round < rounds[n],
                    \A p \in Parents[n] : ~(nodes[p].verdict # "PASS" \/ nodes[p].round < rounds[p])
             PROVE  AllowWriteFault /\ \E d \in Declarers :
                        n \in Body[d] /\ nodes[d].verdict = "FAIL" /\ nodes[d].round >= rounds[d]
  BY DEF NothingForgotten
<1>1. \A m \in Node : nodes[m].round \in Nat /\ rounds[m] \in Nat
  BY DEF LegInv, IInv, TypeOK
<1>2. AllReturned /\ groupErr = Nobody /\ ~Paused
  BY DEF EndInv, LegOutcome, Paused
<1>3. ~Final(n)
  BY <1>1 DEF Final, Done, Failed
<1>4. \A p \in Parents[n] : Done(p)
  BY <1>1, GraphAssumption DEF Done
<1>5. PICK d \in Declarers : n \in Body[d] /\ Failed(d) /\ AllowWriteFault
  BY <1>2, <1>3, <1>4, NothingLeft
<1> QED
  BY <1>1, <1>5, BodyShape DEF Failed

\* A leg that ends passed or pruned has run whatever it could run; only a loop
\* whose marker was not written leaves its body behind.
THEOREM ForgetsNothing == Spec => []NothingForgotten
<1>1. Init => EndInv
  BY DEF Init, NothingDone, EndInv
<1>2. LegInv /\ EndInv /\ [Next]_vars => EndInv'
  BY EndStep DEF LegInv
<1> QED
  BY <1>1, <1>2, LegInvKept, NothingForgottenEnds, PTL DEF Spec

LEMMA PausedIsResumableEnds == LegInv /\ EndInv => PausedIsResumable
<1> SUFFICES ASSUME LegInv, EndInv PROVE PausedIsResumable
  OBVIOUS
<1>1. outcome = "paused" => gatePausedAt # Nobody /\ decisions[gatePausedAt] = "pause"
  BY DEF EndInv, LegOutcome
<1>2. outcome = "limited" => limitPause # {}
  BY DEF EndInv, LegOutcome
<1>3. ASSUME NEW n \in limitPause \cup ({gatePausedAt} \ {Nobody}), outcome # "open"
      PROVE  /\ nodes[n].verdict \in {"none", "marker"} \/ nodes[n].round < rounds[n]
             /\ \A p \in Parents[n] :
                    nodes[p].verdict = "PASS" /\ nodes[p].round >= rounds[p]
  <2>1. n \in Node /\ PutOff(n)
    BY <1>3, GraphAssumption DEF EndInv, PutOff, LegInv, IInv, TypeOK
  <2>2. ~Final(n) /\ nodes[n].verdict \in Verdict /\ nodes[n].round \in Nat /\ rounds[n] \in Nat
    BY <2>1 DEF LegInv, Wave, Goroutine, IInv, TypeOK
  <2>3. \A p \in Parents[n] : Done(p)
    BY <2>1, NothingOwed DEF LegInv, Started
  <2> QED
    BY <2>2, <2>3 DEF Final, Done, Failed, Verdict
<1> QED
  BY <1>1, <1>2, <1>3 DEF PausedIsResumable

\* What a paused leg names as its reason is a node a later leg can run: it has
\* no verdict of this round, and parents that passed.
THEOREM PausesResumable == Spec => []PausedIsResumable
<1>1. Init => EndInv
  BY DEF Init, NothingDone, EndInv
<1>2. LegInv /\ EndInv /\ [Next]_vars => EndInv'
  BY EndStep DEF LegInv
<1> QED
  BY <1>1, <1>2, LegInvKept, PausedIsResumableEnds, PTL DEF Spec

----------------------------------------------------------------------------
(* What a leg spends. *)

\* What each execution adds: one ledger row, and a record whose rows take over
\* those of the round it closes or outruns.
LEMMA RecordedRow ==
    ASSUME TypeOK, NEW n \in Node, NEW verdict \in Verdict, NEW round \in Nat,
           NEW detail \in Node \cup {Nobody, "own"},
           Record(n, verdict, round, detail)
    PROVE  /\ ledger'[n] = ledger[n] + 1
           /\ nodes'[n].round = round /\ nodes'[n].verdict = verdict
           /\ \A m \in Node \ {n} : ledger'[m] = ledger[m] /\ nodes'[m] = nodes[m]
           /\ nodes'[n].rows =
                1 + (IF \/ round > nodes[n].round
                        \/ /\ round = nodes[n].round
                           /\ nodes[n].verdict = "marker" /\ verdict # "marker"
                     THEN nodes[n].rows ELSE 0)
<1>1. nodes \in [Node -> NodeRecord] /\ ledger \in [Node -> Nat]
  BY DEF TypeOK, NodeRecord
<1>2. nodes' = RecordNode(nodes, n, Row(verdict, round, detail))
  BY DEF Record
<1>3. ledger' = [ledger EXCEPT ![n] = @ + 1]
  BY DEF Record
<1>4. nodes'[n].rows =
        1 + (IF SupersedesRound(nodes[n], Row(verdict, round, detail)) THEN nodes[n].rows ELSE 0)
  BY <1>1, <1>2 DEF RecordNode, Row
<1>5. /\ nodes'[n].round = round /\ nodes'[n].verdict = verdict
      /\ \A m \in Node \ {n} : nodes'[m] = nodes[m]
  BY RecordEffect
<1> QED
  BY <1>1, <1>3, <1>4, <1>5 DEF SupersedesRound, Row

\* A node has at most one row for every round that is over, and one for the
\* verdict that ends the round it is in.
SpendInv == \A n \in Node :
    ledger[n] <= rounds[n] + 1 /\ (~Final(n) => ledger[n] <= rounds[n])

LEMMA SpendStep ==
    ASSUME LegInv, SpendInv, [Next]_vars
    PROVE  SpendInv'
<1>1. /\ ledger \in [Node -> Nat] /\ rounds \in [Node -> Nat] /\ TypeOK
      /\ \A n \in Node : nodes[n].round \in Nat
  BY DEF LegInv, IInv, TypeOK
<1>2. CASE UNCHANGED <<nodes, rounds, ledger>>
  BY <1>2 DEF SpendInv, Final, Done, Failed
<1>3. ASSUME NEW n \in Node, Settles(n) PROVE SpendInv'
  <2>1. PICK verdict \in {"PASS", "FAIL"}, detail \in Node \cup {Nobody, "own"} :
            Record(n, verdict, rounds[n], detail)
    BY <1>3 DEF Settles
  <2>2. /\ ledger'[n] = ledger[n] + 1
        /\ \A m \in Node \ {n} : ledger'[m] = ledger[m] /\ nodes'[m] = nodes[m]
    BY <1>1, <2>1, RecordedRow DEF Verdict
  <2>3. Final(n)' /\ ledger[n] <= rounds[n] /\ UNCHANGED rounds
    BY <1>3, <2>1, RecordedVerdict DEF Settles, Final, SpendInv, LegInv
  <2>4. ASSUME NEW m \in Node \ {n} PROVE Final(m)' <=> Final(m)
    BY <2>2, <2>3 DEF Final, Done, Failed
  <2> QED
    BY <1>1, <2>2, <2>3, <2>4 DEF SpendInv
<1>4. ASSUME NEW n \in Node, Fires(n) \/ FiresUnwritten(n) PROVE SpendInv'
  <2>1. n \in Declarers /\ ~Final(n) /\ rounds' = Fire(n)
    BY <1>4 DEF Fires, FiresUnwritten
  <2>2. /\ ledger'[n] = ledger[n] + 1
        /\ \A m \in Node \ {n} : ledger'[m] = ledger[m] /\ nodes'[m] = nodes[m]
    BY <1>1, <1>4, RecordedRow DEF Fires, FiresUnwritten, Verdict
  <2>3. /\ \A m \in Body[n] : rounds'[m] = rounds[m] + 1
        /\ \A m \in Node \ Body[n] : rounds'[m] = rounds[m]
        /\ n \in Body[n]
    BY <2>1, BodyShape DEF Fire, LegInv, Coherent
  <2>4. ASSUME NEW m \in Node \ Body[n] PROVE Final(m)' <=> Final(m)
    BY <2>2, <2>3 DEF Final, Done, Failed
  <2>5. ASSUME NEW m \in Body[n] PROVE ledger'[m] <= rounds'[m]
    <3>1. m \in Node
      BY <2>1, BodyShape
    <3> QED
      BY <1>1, <2>1, <2>2, <2>3, <3>1 DEF SpendInv
  <2>6. ASSUME NEW m \in Node \ Body[n] PROVE ledger'[m] = ledger[m]
    BY <2>2, <2>3
  <2>7. \A m \in Node : ledger'[m] \in Nat /\ rounds'[m] \in Nat
    BY <1>1, <2>2, <2>3
  <2> QED
    BY <2>3, <2>4, <2>5, <2>6, <2>7 DEF SpendInv
<1> QED
  BY <1>2, <1>3, <1>4, RecordingSteps DEF LegInv

LEMMA SpendInvBounds == LegInv /\ SpendInv => SpendBounded
<1> SUFFICES ASSUME LegInv, SpendInv, NEW n \in Node
             PROVE  ledger[n] <= 1 + (IF \E d \in Declarers : n \in Body[d]
                                      THEN FeedbackMax[CHOOSE d \in Declarers : n \in Body[d]]
                                      ELSE 0)
  BY DEF SpendBounded
<1>1. ledger[n] \in Nat /\ rounds[n] \in Nat /\ ledger[n] <= rounds[n] + 1
  BY DEF LegInv, IInv, TypeOK, SpendInv
<1>2. CASE \E d \in Declarers : n \in Body[d]
  <2> DEFINE e == CHOOSE d \in Declarers : n \in Body[d]
  <2>1. e \in Declarers /\ n \in Body[e]
    BY <1>2
  <2>2. rounds[n] <= FeedbackMax[e] /\ FeedbackMax[e] \in Nat
    BY <2>1, FeedbackAssumption DEF LegInv, Coherent
  <2> QED
    BY <1>1, <1>2, <2>2
<1>3. CASE ~\E d \in Declarers : n \in Body[d]
  BY <1>1, <1>3 DEF LegInv, Wave, RoundsInv
<1> QED
  BY <1>2, <1>3

\* "Worst case, the body runs (1 + Max) times", whatever fails, races or pauses;
\* a node outside every loop is paid for once.
THEOREM SpendIsBounded == Spec => []SpendBounded
<1>1. Init => SpendInv
  BY DEF Init, NothingDone, SpendInv
<1>2. LegInv /\ SpendInv /\ [Next]_vars => SpendInv'
  BY SpendStep
<1> QED
  BY <1>1, <1>2, LegInvKept, SpendInvBounds, PTL DEF Spec

\* A node without a record has spent nothing yet.
RowsInv == RowsAccounted /\ \A n \in Node : nodes[n].verdict = "none" => nodes[n].rows = 0

LEMMA RowsStep ==
    ASSUME ~AllowWriteFault, LegInv, RowsInv, [Next]_vars
    PROVE  RowsInv'
<1>1. /\ ledger \in [Node -> Nat] /\ rounds \in [Node -> Nat] /\ TypeOK
      /\ nodes \in [Node -> NodeRecord]
  BY DEF LegInv, IInv, TypeOK, NodeRecord
<1>2. CASE UNCHANGED <<nodes, rounds, ledger>>
  BY <1>2 DEF RowsInv, RowsAccounted
<1>3. ASSUME NEW n \in Node, NEW verdict \in Verdict \ {"none"}, NEW round \in Nat,
             NEW detail \in Node \cup {Nobody, "own"}, Record(n, verdict, round, detail),
             nodes[n].verdict # "none" =>
                \/ round > nodes[n].round
                \/ round = nodes[n].round /\ nodes[n].verdict = "marker" /\ verdict # "marker"
      PROVE  RowsInv'
  <2>1. /\ ledger'[n] = ledger[n] + 1 /\ nodes'[n].verdict = verdict
        /\ \A m \in Node \ {n} : ledger'[m] = ledger[m] /\ nodes'[m] = nodes[m]
    BY <1>1, <1>3, RecordedRow
  <2>2. nodes'[n].rows = nodes[n].rows + 1
    <3>1. nodes[n].rows \in Nat /\ (nodes[n].verdict = "none" => nodes[n].rows = 0)
      BY <1>1 DEF RowsInv, NodeRecord
    <3> QED
      BY <1>1, <1>3, <3>1, RecordedRow
  <2> QED
    BY <2>1, <2>2 DEF RowsInv, RowsAccounted
<1>4. ASSUME NEW n \in Node, Settles(n) PROVE RowsInv'
  <2>1. PICK verdict \in {"PASS", "FAIL"}, detail \in Node \cup {Nobody, "own"} :
            Record(n, verdict, rounds[n], detail)
    BY <1>4 DEF Settles
  <2>2. nodes[n].verdict # "none" =>
            rounds[n] > nodes[n].round \/ (rounds[n] = nodes[n].round /\ nodes[n].verdict = "marker")
    <3>1. nodes[n].verdict \in Verdict /\ nodes[n].round \in Nat /\ rounds[n] \in Nat
      BY <1>1 DEF NodeRecord
    <3> QED
      BY <1>1, <1>4, <3>1 DEF Settles, Final, Done, Failed, Verdict, LegInv, Wave, RoundsInv
  <2> QED
    BY <1>1, <1>3, <2>1, <2>2 DEF Verdict
<1>5. ASSUME NEW n \in Node, Fires(n) PROVE RowsInv'
  <2>1. rounds[n] + 1 \in Nat /\ rounds[n] + 1 > nodes[n].round
    BY <1>1, <1>5, BodyRounds, BodyShape DEF Fires, LegInv
  <2> QED
    BY <1>3, <1>5, <2>1 DEF Fires, Verdict
<1> QED
  BY <1>2, <1>4, <1>5, RecordingSteps DEF LegInv, FiresUnwritten

\* While every marker reaches the disk, a node's recorded spend is the sum of its
\* ledger rows: a later round closes the one before and drops none of it.
THEOREM RowsAddUp == ~AllowWriteFault => (Spec => []RowsAccounted)
<1> SUFFICES ASSUME ~AllowWriteFault PROVE Spec => []RowsAccounted
  OBVIOUS
<1>1. Init => RowsInv
  BY DEF Init, NothingDone, NoRecord, RowsInv, RowsAccounted
<1>2. LegInv /\ RowsInv /\ [Next]_vars => RowsInv'
  BY RowsStep
<1>3. RowsInv => RowsAccounted
  BY DEF RowsInv
<1> QED
  BY <1>1, <1>2, <1>3, LegInvKept, PTL DEF Spec

----------------------------------------------------------------------------
(* A leg implements its promise. *)

\* Any set of nodes has a first one: the graph is finite and has no cycle.
LEMMA FirstNode ==
    ASSUME NEW U \in SUBSET Node, U # {}
    PROVE  \E n \in U : Parents[n] \cap U = {}
<1> DEFINE T == {Ancestors[n] : n \in U}
<1>1. T \subseteq SUBSET Node /\ T # {}
  BY DEF Ancestors
<1>2. IsWellFoundedOn(StrictSubsetOrdering(Node), SUBSET Node)
  BY GraphAssumption, FS_StrictSubsetOrderingWellFounded, FS_FiniteSubsetsOfFinite
<1>3. \E A \in T : \A B \in T : <<B, A>> \notin StrictSubsetOrdering(Node)
  <2> HIDE DEF T
  <2> QED
    BY <1>1, <1>2, WFMin
<1>4. PICK n \in U : \A m \in U : <<Ancestors[m], Ancestors[n]>> \notin StrictSubsetOrdering(Node)
  BY <1>3
<1>5. ASSUME NEW p \in Parents[n], p \in U PROVE FALSE
  <2>1. p \in Ancestors[n] /\ p \notin Ancestors[p]
    BY <1>5, ParentIsAncestor, GraphAssumption
  <2>2. Ancestors[p] \subseteq Ancestors[n]
    BY <1>5, <2>1, AncestorsTransitive DEF Ancestors
  <2>3. Ancestors[p] \in SUBSET Node /\ Ancestors[n] \in SUBSET Node
    BY <1>5 DEF Ancestors
  <2>4. <<Ancestors[p], Ancestors[n]>> \in StrictSubsetOrdering(Node)
    BY <2>1, <2>2, <2>3 DEF StrictSubsetOrdering
  <2> QED
    BY <1>4, <1>5, <2>4
<1> QED
  BY <1>4, <1>5

\* In a fresh leg every failure is on its way to be accounted for: it prunes its
\* subtree, or it halts the leg.
FailedInv == \A n \in Node : Failed(n) =>
    phase[n] \in {"failed", "halting"} \/ n \in prunedFailures \/ groupErr # Nobody

LEMMA FailedStep ==
    ASSUME LegInv, FailedInv, [Next]_vars
    PROVE  FailedInv'
<1>1. phase \in [Node -> Phase] /\ TypeOK
  BY DEF LegInv, IInv, TypeOK
<1>2. ASSUME NEW n \in Node, NEW p \in Phase, Goto(n, p),
             phase[n] \in {"failed", "halting"} =>
                p = "halting" \/ n \in prunedFailures' \/ groupErr' # Nobody,
             prunedFailures \subseteq prunedFailures', groupErr # Nobody => groupErr' # Nobody,
             \A m \in Node : Failed(m)' <=> Failed(m)
      PROVE  FailedInv'
  BY <1>1, <1>2 DEF FailedInv, Goto
<1>3. ASSUME NEW n \in Node, NEW p \in Phase, Goto(n, p), Settles(n),
             Failed(n)' => p = "failed" \/ n \in prunedFailures',
             prunedFailures \subseteq prunedFailures', UNCHANGED groupErr
      PROVE  FailedInv'
  <2>1. \A m \in Node \ {n} : nodes'[m] = nodes[m]
    BY <1>1, <1>3, RecordedVerdict DEF Settles, LegInv
  <2> QED
    BY <1>1, <1>3, <2>1 DEF FailedInv, Goto, Settles, Failed
<1>4. ASSUME NEW n \in Node, phase[n] \in {"running", "rejecting"} PROVE ~Final(n)
  BY <1>4 DEF LegInv, Wave, Goroutine
<1>5. ASSUME NEW n \in Node, Pass(n) PROVE FailedInv'
  <2>1. Settles(n)
    BY <1>4, <1>5 DEF Pass, Running, Settles
  <2>2. ~Failed(n)'
    BY <1>5, RecordedVerdict DEF Pass, LegInv
  <2> QED
    BY <1>3, <1>5, <2>1, <2>2 DEF Pass, Phase
<1>6. ASSUME NEW n \in Node, GateApprove(n) PROVE FailedInv'
  <2>1. rounds[n] = 0
    BY <1>6, GateRounds DEF GateApprove, AtGate, LegInv, Wave
  <2>2. Settles(n)
    BY <1>4, <1>6, <2>1 DEF GateApprove, AtGate, Settles
  <2>3. ~Failed(n)'
    BY <1>6, <2>1, RecordedVerdict DEF GateApprove, LegInv
  <2> QED
    BY <1>3, <1>6, <2>2, <2>3 DEF GateApprove, Phase
<1>7. ASSUME NEW n \in Node, GateRejected(n) PROVE FailedInv'
  <2>1. Settles(n)
    BY <1>4, <1>7 DEF GateRejected, Settles
  <2> QED
    BY <1>3, <1>7, <2>1 DEF GateRejected, Phase
<1>8. ASSUME NEW n \in Node, NEW kind \in FailKind, Fail(n, kind) PROVE FailedInv'
  <2>1. (IF kind = "killed" THEN Explain ELSE "own") \in Node \cup {Nobody, "own"}
    BY <1>1 DEF Explain, TypeOK
  <2>2. Settles(n)
    BY <1>4, <1>8, <2>1 DEF Fail, Running, Settles
  <2> QED
    BY <1>3, <1>8, <2>2 DEF Fail, Phase
<1>9. ASSUME NEW n \in Node, NEW kind \in FailKind, FireArc(n, kind) \/ MarkerUnwritten(n, kind)
      PROVE  FailedInv'
  <2>1. /\ n \in Declarers /\ rounds' = Fire(n) /\ phase[n] = "running"
        /\ \A m \in Node \ {n} : nodes'[m] = nodes[m]
        /\ \/ phase' = [phase EXCEPT ![n] = "fired"] /\ nodes'[n].verdict = "marker"
           \/ phase' = [phase EXCEPT ![n] = "failed"]
        /\ UNCHANGED groupErr
    BY <1>9, FiredRecords DEF LegInv
  <2>2. UNCHANGED prunedFailures
    BY <1>9 DEF FireArc, MarkerUnwritten
  <2>3. ASSUME NEW m \in Node \ {n}, Failed(m)' PROVE Failed(m)
    <3>1. rounds'[m] = rounds[m] \/ rounds'[m] = rounds[m] + 1
      BY <2>1, BodyShape DEF Fire, LegInv, Coherent
    <3>2. nodes[m].round \in Nat /\ rounds[m] \in Nat
      BY <1>1 DEF TypeOK
    <3> QED
      BY <2>1, <2>3, <3>1, <3>2 DEF Failed
  <2>4. Failed(n)' => phase'[n] = "failed"
    BY <1>1, <2>1 DEF Failed
  <2> QED
    BY <1>1, <2>1, <2>2, <2>3, <2>4 DEF FailedInv
<1>10. ASSUME NEW n \in Node,
              \/ Start(n) \/ Limited(n) \/ ReadPauseFired(n) \/ Rearm(n) \/ GateApproved(n)
              \/ GateReject(n) \/ GatePause(n) \/ ReadPause(n)
              \/ (\E d \in Node : Release(n, d))
              \/ Prune(n) \/ HaltNote(n) \/ HaltReturn(n)
       PROVE  FailedInv'
  <2>1. UNCHANGED <<nodes, rounds>>
    BY <1>10 DEF Start, Limited, ReadPauseFired, Rearm, GateApproved, GateReject, GatePause,
       ReadPause, Release, Prune, HaltNote, HaltReturn
  <2>2. \A m \in Node : Failed(m)' <=> Failed(m)
    BY <2>1 DEF Failed
  <2>3. PICK p \in Phase :
            /\ Goto(n, p)
            /\ phase[n] \in {"failed", "halting"} =>
                p = "halting" \/ n \in prunedFailures' \/ groupErr' # Nobody
            /\ prunedFailures \subseteq prunedFailures' /\ (groupErr # Nobody => groupErr' # Nobody)
    BY <1>10, NobodyAssumption DEF Start, Limited, ReadPauseFired, Rearm, GateApproved, GateReject,
       GatePause, ReadPause, Release, Prune, HaltNote, HaltReturn, Goto, Phase, Running, AtGate
  <2> QED
    BY <1>2, <2>2, <2>3
<1>11. ASSUME NEW n \in Node, Skip(n) \/ \E kind \in FailKind : RetryAttempt(n, kind)
       PROVE  FailedInv'
  BY <1>11, NobodyAssumption DEF Skip, RetryAttempt, FailedInv, Failed
<1>12. ASSUME Interrupt \/ Finish \/ Returned \/ UNCHANGED vars PROVE FailedInv'
  BY <1>12 DEF Interrupt, Finish, Returned, vars, FailedInv, Failed
<1> QED
  BY <1>5, <1>6, <1>7, <1>8, <1>9, <1>10, <1>11, <1>12 DEF Next, NodeStep

\* What a status says of the records.
LEMMA StatusValues ==
    ASSUME LegInv, NEW n \in Node
    PROVE  /\ phase[n] \in {"running", "rejecting"} => StatusOf(n) = "running"
           /\ phase[n] \notin {"running", "rejecting"} =>
                /\ ~Final(n) => StatusOf(n) = "pending"
                /\ Done(n) => StatusOf(n) = "passed"
                /\ Failed(n) => StatusOf(n) = "failed"
<1>1. /\ nodes[n].verdict \in Verdict /\ nodes[n].round \in Nat /\ rounds[n] \in Nat
  BY DEF LegInv, IInv, TypeOK
<1> QED
  BY <1>1 DEF StatusOf, Final, Done, Failed, Verdict

\* A node that passed has the status "passed", whatever it has still to do.
LEMMA PassedStatus ==
    ASSUME LegInv, NEW n \in Node, Done(n)
    PROVE  StatusOf(n) = "passed"
<1>1. phase[n] \notin {"running", "rejecting"}
  BY DEF LegInv, Wave, Goroutine, Final
<1> QED
  BY <1>1, StatusValues

\* A step of one node moves its status alone.
LEMMA StatusMoves ==
    ASSUME NEW n \in Node, NEW s, StatusOf(n)' = s, UNCHANGED rounds,
           \A m \in Node \ {n} : phase'[m] = phase[m] /\ nodes'[m] = nodes[m]
    PROVE  [m \in Node |-> StatusOf(m)]' = [[m \in Node |-> StatusOf(m)] EXCEPT ![n] = s]
<1>1. \A m \in Node \ {n} : StatusOf(m)' = StatusOf(m)
  BY DEF StatusOf
<1> QED
  BY <1>1

LEMMA PromiseInit == Init => Promise!Init
<1> SUFFICES ASSUME Init PROVE Promise!Init
  OBVIOUS
<1>1. \A n \in Node : StatusOf(n) = "pending"
  BY DEF Init, NothingDone, NoRecord, StatusOf
<1>2. ResultOf = "open" /\ rounds = [n \in Node |-> 0]
  BY DEF Init, NothingDone, ResultOf
<1> QED
  BY <1>1, <1>2 DEF Promise!Init

\* A node of a fresh leg begins on parents that passed.
LEMMA StartBegins ==
    ASSUME LegInv, LegInv', NEW n \in Node, Start(n)
    PROVE  Promise!Begin(n)
<1>1. phase' = [phase EXCEPT ![n] = "running"] /\ phase[n] = "idle"
      /\ UNCHANGED <<nodes, rounds, outcome>> /\ queued[n] > 0
  BY DEF Start
<1>2. phase'[n] = "running" /\ \A m \in Node \ {n} : phase'[m] = phase[m]
  BY <1>1 DEF LegInv, IInv, TypeOK
<1>3. StatusOf(n) = "pending"
  <2>1. ~Final(n)
    BY <1>1 DEF LegInv, Wave, Goroutine
  <2> QED
    BY <1>1, <2>1, StatusValues
<1>4. \A p \in Parents[n] : p \in Node /\ StatusOf(p) = "passed"
  <2>1. Consuming(n)
    BY <1>1 DEF Consuming
  <2>2. \A p \in Parents[n] : p \in Node /\ Done(p)
    BY <2>1, WaveFresh, GraphAssumption DEF LegInv, FreshInputs, Done
  <2> QED
    BY <2>2, PassedStatus
<1>5. [m \in Node |-> StatusOf(m)]' = [[m \in Node |-> StatusOf(m)] EXCEPT ![n] = "running"]
  <2>1. StatusOf(n)' = "running"
    BY <1>2 DEF StatusOf
  <2> QED
    BY <1>1, <1>2, <2>1, StatusMoves
<1>6. ResultOf' = ResultOf
  BY <1>1 DEF ResultOf
<1> QED
  BY <1>1, <1>3, <1>4, <1>5, <1>6 DEF Promise!Begin, Promise!Ready

\* A running node that leaves its phase settles: passed, failed, or put off.
LEMMA MoveSettles ==
    ASSUME LegInv, LegInv', NEW n \in Node, NEW p \in Phase \ {"running", "rejecting"},
           phase[n] \in {"running", "rejecting"}, Goto(n, p), UNCHANGED <<rounds, outcome>>,
           \A m \in Node \ {n} : nodes'[m] = nodes[m]
    PROVE  \E verdict \in Promise!Status : Promise!Settle(n, verdict)
<1>1. phase'[n] = p /\ \A m \in Node \ {n} : phase'[m] = phase[m]
  BY DEF Goto, LegInv, IInv, TypeOK
<1>2. StatusOf(n) = "running"
  BY DEF StatusOf
<1>3. PICK s \in {"passed", "failed", "pending"} : StatusOf(n)' = s
  BY <1>1 DEF StatusOf
<1>4. [m \in Node |-> StatusOf(m)]' = [[m \in Node |-> StatusOf(m)] EXCEPT ![n] = s]
  BY <1>1, <1>3, StatusMoves
<1>5. ResultOf' = ResultOf
  BY DEF ResultOf
<1> QED
  BY <1>2, <1>3, <1>4, <1>5 DEF Promise!Settle, Promise!Status

\* A fired arc re-opens a loop whose body had passed.
LEMMA FireReopens ==
    ASSUME LegInv, NEW n \in Node, NEW kind \in FailKind,
           FireArc(n, kind) \/ MarkerUnwritten(n, kind)
    PROVE  \E verdict \in Promise!Status : Promise!Reopen(n, verdict) /\ n \in Declarers
<1>1. /\ phase \in [Node -> Phase] /\ rounds \in [Node -> Nat]
      /\ \A m \in Node : nodes[m].round \in Nat
  BY DEF LegInv, IInv, TypeOK
<1>2. /\ n \in Declarers /\ phase[n] = "running" /\ rounds' = Fire(n)
      /\ rounds[n] < FeedbackMax[n] /\ nodes'[n].round = rounds[n] + 1
      /\ \A m \in Node \ {n} : nodes'[m] = nodes[m]
  BY FiredRecords DEF LegInv
<1>3. /\ \A m \in Node \ {n} : phase'[m] = phase[m]
      /\ \/ phase'[n] = "fired" /\ nodes'[n].verdict = "marker"
         \/ phase'[n] = "failed" /\ nodes'[n].verdict = "FAIL"
  BY <1>1, FiredRecords DEF LegInv
<1>4. UNCHANGED outcome
  BY DEF FireArc, MarkerUnwritten
<1>5. n \in Body[n] /\ Body[n] \subseteq Node
  BY <1>2, BodyShape
<1>6. \A m \in Body[n] \ {n} : Done(m) /\ phase[m] = "idle"
  BY <1>2, BodySettled DEF LegInv
<1>7. /\ \A m \in Body[n] : rounds'[m] = rounds[n] + 1 /\ rounds[m] = rounds[n]
      /\ \A m \in Node \ Body[n] : rounds'[m] = rounds[m]
  BY <1>2, <1>5 DEF Fire, LegInv, Coherent
<1>8. StatusOf(n) = "running" /\ \A m \in Body[n] \ {n} : StatusOf(m) = "passed"
  BY <1>2, <1>5, <1>6, PassedStatus DEF StatusOf
<1>9. PICK s \in {"pending", "failed"} : StatusOf(n)' = s
  BY <1>1, <1>2, <1>3, <1>5, <1>7 DEF StatusOf
<1>10. ASSUME NEW m \in Body[n] \ {n} PROVE StatusOf(m)' = "pending"
  <2>1. m \in Node /\ phase'[m] = "idle" /\ nodes'[m] = nodes[m]
    BY <1>2, <1>3, <1>5, <1>6
  <2>2. nodes[m].round <= rounds[m]
    BY <1>2, BodyRounds DEF LegInv, Wave, Goroutine
  <2>3. nodes'[m].round < rounds'[m]
    BY <1>1, <1>5, <1>7, <2>1, <2>2
  <2> QED
    BY <2>1, <2>3 DEF StatusOf
<1>11. ASSUME NEW m \in Node \ Body[n] PROVE StatusOf(m)' = StatusOf(m)
  BY <1>2, <1>3, <1>5, <1>7 DEF StatusOf
<1>12. [m \in Node |-> StatusOf(m)]' =
            [m \in Node |-> IF m = n THEN s ELSE IF m \in Body[n] THEN "pending"
                            ELSE [k \in Node |-> StatusOf(k)][m]]
  BY <1>9, <1>10, <1>11
<1>13. rounds' = [m \in Node |-> IF m \in Body[n] THEN rounds[n] + 1 ELSE rounds[m]]
  BY <1>2 DEF Fire
<1>14. ResultOf' = ResultOf
  BY <1>4 DEF ResultOf
<1> QED
  BY <1>2, <1>5, <1>8, <1>9, <1>12, <1>13, <1>14 DEF Promise!Reopen, Promise!Status

\* A leg over whose goroutines nothing failed, paused or halted has passed every
\* node: the first that had not would have been launched.
LEMMA PassedMeansAll ==
    ASSUME LegInv, FailedInv, AllReturned, LegOutcome = "passed"
    PROVE  \A n \in Node : Done(n)
<1>1. groupErr = Nobody /\ ~Paused /\ prunedFailures = {}
  BY DEF LegOutcome, Paused
<1>2. \A n \in Node : ~Failed(n)
  BY <1>1 DEF FailedInv, AllReturned
<1> DEFINE U == {n \in Node : ~Done(n)}
<1>3. SUFFICES ASSUME U # {} PROVE FALSE
  OBVIOUS
<1>4. PICK n \in U : Parents[n] \cap U = {}
  BY <1>3, FirstNode
<1>5. n \in Node /\ ~Final(n) /\ \A p \in Parents[n] : Done(p)
  BY <1>2, <1>4, GraphAssumption DEF Final
<1>6. \E d \in Declarers : Failed(d)
  BY <1>1, <1>5, NothingLeft
<1> QED
  BY <1>2, <1>6, BodyShape

\* What a paused leg was put off by can be taken up.
LEMMA PausedMeansReady ==
    ASSUME LegInv, AllReturned, Paused
    PROVE  \E n \in Node : Promise!Ready(n)
<1>1. PICK n \in Node : PutOff(n)
  BY GraphAssumption DEF Paused, PutOff, LegInv, IInv, TypeOK
<1>2. StatusOf(n) = "pending"
  BY <1>1, StatusValues DEF AllReturned, LegInv, Wave, Goroutine
<1>3. \A p \in Parents[n] : p \in Node /\ StatusOf(p) = "passed"
  <2>1. \A p \in Parents[n] : p \in Node /\ Done(p)
    BY <1>1, NothingOwed, GraphAssumption DEF LegInv, Started
  <2> QED
    BY <2>1, PassedStatus
<1> QED
  BY <1>2, <1>3 DEF Promise!Ready

\* The leg concludes with an outcome that is true of its nodes.
LEMMA FinishConcludes ==
    ASSUME LegInv, FailedInv, Finish
    PROVE  \E how \in {"passed", "paused", "failed"} : Promise!Conclude(how)
<1>1. /\ outcome = "open" /\ AllReturned /\ outcome' = LegOutcome
      /\ UNCHANGED <<phase, nodes, rounds>>
  BY DEF Finish
<1>2. ResultOf = "open"
  BY <1>1 DEF ResultOf
<1>3. [m \in Node |-> StatusOf(m)]' = [m \in Node |-> StatusOf(m)]
  BY <1>1 DEF StatusOf
<1>4. \A n \in Node : StatusOf(n) # "running"
  BY <1>1 DEF AllReturned, StatusOf
<1>5. CASE LegOutcome = "passed"
  <2>1. \A n \in Node : StatusOf(n) = "passed"
    BY <1>1, <1>5, PassedMeansAll, PassedStatus
  <2>2. ResultOf' = "passed"
    BY <1>1, <1>5 DEF ResultOf
  <2> QED
    BY <1>1, <1>2, <1>3, <1>4, <2>1, <2>2 DEF Promise!Conclude
<1>6. CASE LegOutcome \in {"paused", "limited"}
  <2>1. \E n \in Node : Promise!Ready(n)
    BY <1>1, <1>6, PausedMeansReady DEF LegOutcome, Paused
  <2>2. ResultOf' = "paused"
    BY <1>1, <1>6 DEF ResultOf
  <2> QED
    BY <1>1, <1>2, <1>3, <1>4, <2>1, <2>2 DEF Promise!Conclude
<1>7. CASE LegOutcome \in {"halted", "pruned"}
  <2>1. ResultOf' = "failed"
    BY <1>1, <1>7 DEF ResultOf
  <2> QED
    BY <1>1, <1>2, <1>3, <1>4, <2>1 DEF Promise!Conclude
<1> QED
  BY <1>5, <1>6, <1>7 DEF LegOutcome

\* Every other step only does the bookkeeping of a status that stands.
LEMMA StatusStands ==
    ASSUME UNCHANGED <<nodes, rounds, outcome>>,
           \A m \in Node : phase'[m] \in {"running", "rejecting"}
                            <=> phase[m] \in {"running", "rejecting"}
    PROVE  UNCHANGED <<[n \in Node |-> StatusOf(n)], rounds, ResultOf>>
<1>1. \A m \in Node : StatusOf(m)' = StatusOf(m)
  BY DEF StatusOf
<1>2. ResultOf' = ResultOf
  BY DEF ResultOf
<1> QED
  BY <1>1, <1>2

LEMMA PromiseStep ==
    ASSUME LegInv, FailedInv, [Next]_vars
    PROVE  Promise!Next \/ UNCHANGED <<[n \in Node |-> StatusOf(n)], rounds, ResultOf>>
<1>1. LegInv' /\ phase \in [Node -> Phase]
  BY LegInvStep DEF LegInv, IInv, TypeOK
<1>2. ASSUME NEW n \in Node, Start(n) PROVE Promise!Next
  BY <1>1, <1>2, StartBegins DEF Promise!Next
<1>3. ASSUME NEW n \in Node,
             \/ Pass(n) \/ Limited(n) \/ (\E kind \in FailKind : Fail(n, kind))
             \/ GateApprove(n) \/ GateRejected(n) \/ GatePause(n)
      PROVE  Promise!Next
  <2>1. PICK p \in Phase \ {"running", "rejecting"} :
            Goto(n, p) /\ phase[n] \in {"running", "rejecting"} /\ UNCHANGED <<rounds, outcome>>
    BY <1>3 DEF Pass, Limited, Fail, GateApprove, GateRejected, GatePause, Running, AtGate, Phase
  <2>2. \A m \in Node \ {n} : nodes'[m] = nodes[m]
    BY <1>3 DEF Pass, Limited, Fail, GateApprove, GateRejected, GatePause, Record, RecordNode, LegInv,
       IInv, TypeOK
  <2> QED
    BY <1>1, <2>1, <2>2, MoveSettles DEF Promise!Next
<1>4. ASSUME NEW n \in Node, NEW kind \in FailKind, FireArc(n, kind) \/ MarkerUnwritten(n, kind)
      PROVE  Promise!Next
  BY <1>4, FireReopens DEF Promise!Next
<1>5. ASSUME NEW n \in Node,
             \/ Skip(n) \/ (\E kind \in FailKind : RetryAttempt(n, kind))
             \/ ReadPauseFired(n) \/ Rearm(n) \/ GateApproved(n) \/ GateReject(n) \/ ReadPause(n)
             \/ (\E d \in Node : Release(n, d)) \/ Prune(n) \/ HaltNote(n) \/ HaltReturn(n)
      PROVE  UNCHANGED <<[m \in Node |-> StatusOf(m)], rounds, ResultOf>>
  <2>1. UNCHANGED <<nodes, rounds, outcome>>
    BY <1>5 DEF Skip, RetryAttempt, ReadPauseFired, Rearm, GateApproved, GateReject, ReadPause,
       Release, Prune, HaltNote, HaltReturn
  <2>2. \A m \in Node : phase'[m] \in {"running", "rejecting"} <=> phase[m] \in {"running", "rejecting"}
    BY <1>1, <1>5 DEF Skip, RetryAttempt, ReadPauseFired, Rearm, GateApproved, GateReject, ReadPause,
       Release, Prune, HaltNote, HaltReturn, Goto, AtGate
  <2> QED
    BY <2>1, <2>2, StatusStands
<1>6. CASE Finish
  BY <1>6, FinishConcludes DEF Promise!Next
<1>7. CASE Interrupt \/ Returned \/ UNCHANGED vars
  <2>1. UNCHANGED <<phase, nodes, rounds, outcome>>
    BY <1>7 DEF Interrupt, Returned, vars
  <2> QED
    BY <2>1, StatusStands
<1> QED
  BY <1>2, <1>3, <1>4, <1>5, <1>6, <1>7 DEF Next, NodeStep

\* A leg of any graph, under any interleaving, is one its promise allows: nodes
\* begin on passed parents, verdicts stand but for a counted round of their loop,
\* "passed" means that every node passed, and "paused" that a node is left to run.
THEOREM PromiseKept == Spec => KeepsPromise
<1>1. Init => FailedInv
  BY DEF Init, NothingDone, NoRecord, FailedInv, Failed
<1>2. Spec => []FailedInv
  <2>1. LegInv /\ FailedInv /\ [Next]_vars => FailedInv'
    BY FailedStep
  <2> QED
    BY <1>1, <2>1, LegInvKept, PTL DEF Spec
<1>3. LegInv /\ FailedInv /\ [Next]_vars
        => [Promise!Next]_<<[n \in Node |-> StatusOf(n)], rounds, ResultOf>>
  BY PromiseStep
<1> QED
  BY <1>2, <1>3, LegInvKept, PromiseInit, PTL DEF Spec, KeepsPromise, Promise!Spec
=============================================================================
