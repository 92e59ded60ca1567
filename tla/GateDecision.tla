----------------------------- MODULE GateDecision -----------------------------
(***************************************************************************)
(* Deciding a gate from two sides: the dashboard's POST, which looks at    *)
(* the run under its lock, gives the lock back, answers 202 and only then  *)
(* starts the resume in a goroutine of its own; and `resume --approve` or  *)
(* `--reject` in a terminal.  Whoever names a gate may name it from a page *)
(* or a memory that is out of date.  The lock is refused, never waited for.*)
(***************************************************************************)
EXTENDS Naturals

CONSTANTS
    GateIds,     \* the run's gates
    Viewers,     \* POSTs to the live view
    Terminals,   \* resumes from a terminal
    MaxLegPauses,\* bound: pauses of the run
    Unnamed

Decider == Viewers \cup Terminals

ASSUME DeciderAssumption == Unnamed \notin Decider
ASSUME GateAssumption == Unnamed \notin GateIds /\ MaxLegPauses \in Nat \ {0}

VARIABLES
    lockOf,     \* who holds resume.lock
    stopped,    \* state.json's gate.paused_at
    decided,    \* state.json's gate.decisions
    ask,        \* each decider: how far it is, the gate and decision it names
    pauses      \* pauses so far

gateVars == <<lockOf, stopped, decided, ask, pauses>>

GateTypeOK ==
    /\ lockOf \in Decider \cup {Unnamed}
    /\ stopped \in GateIds \cup {Unnamed}
    /\ decided \in [GateIds -> {"none", "approve", "reject"}]
    /\ ask \in [Decider -> [at : {"idle", "looking", "loaded", "accepted", "locked", "resuming",
                                 "leg", "ended", "refused", "lost"},
                            gate : GateIds \cup {Unnamed}, says : {"approve", "reject"},
                            saw : GateIds \cup {Unnamed}]]
    /\ pauses \in 1..MaxLegPauses

\* The first leg has paused at some gate, and its process is gone.
GateInit ==
    /\ lockOf = Unnamed /\ stopped \in GateIds /\ pauses = 1
    /\ decided = [g \in GateIds |-> "none"]
    /\ ask = [c \in Decider |-> [at |-> "idle", gate |-> Unnamed, says |-> "reject", saw |-> Unnamed]]

Turn(c, at) == ask' = [ask EXCEPT ![c].at = at]
Asks(c, at, g, says) == ask' = [ask EXCEPT ![c] = [@ EXCEPT !.at = at, !.gate = g, !.says = says]]
Take(c) == lockOf = Unnamed /\ lockOf' = c
Give(c) == lockOf = c /\ lockOf' = Unnamed

----------------------------------------------------------------------------
(* handleGateDecision and pausedSnapshot. *)

Post(c, g, says) ==
    /\ c \in Viewers /\ ask[c].at = "idle"
    /\ \/ Take(c) /\ Asks(c, "looking", g, says)
       \/ lockOf # Unnamed /\ Turn(c, "refused") /\ UNCHANGED lockOf
    /\ UNCHANGED <<stopped, decided, pauses>>

LookAtPause(c) ==
    /\ ask[c].at = "looking" /\ Give(c)
    /\ ask' = [ask EXCEPT ![c] = [@ EXCEPT !.at = "loaded", !.saw = stopped]]
    /\ UNCHANGED <<stopped, decided, pauses>>

\* 409 unless the gate named is the one the run is paused at; else 202.
AnswerPost(c) ==
    /\ ask[c].at = "loaded"
    /\ Turn(c, IF ask[c].saw = ask[c].gate THEN "accepted" ELSE "refused")
    /\ UNCHANGED <<lockOf, stopped, decided, pauses>>

----------------------------------------------------------------------------
(* executeResume in gate mode, from either side. *)

FromTerminal(c, g, says) ==
    /\ c \in Terminals /\ ask[c].at = "idle"
    /\ Asks(c, "accepted", g, says)
    /\ UNCHANGED <<lockOf, stopped, decided, pauses>>

ResumeLocks(c) ==
    /\ ask[c].at = "accepted"
    /\ \/ Take(c) /\ Turn(c, "locked")
       \/ lockOf # Unnamed /\ Turn(c, "lost") /\ UNCHANGED lockOf
    /\ UNCHANGED <<stopped, decided, pauses>>

NamesWhatItSaw(c) == ask[c].saw = ask[c].gate
\* resumeGateLeg, resumeDecision: over the snapshot loaded under the lock.
NamesThePause(c) == stopped = ask[c].gate

ResumeChecks(c) ==
    /\ ask[c].at = "locked"
    /\ \/ NamesThePause(c) /\ Turn(c, "resuming") /\ UNCHANGED lockOf
       \/ ~NamesThePause(c) /\ Turn(c, "lost") /\ Give(c)
    /\ UNCHANGED <<stopped, decided, pauses>>

\* RecordLegGate: the decision and the cleared pause, in one write.
RecordLegGate(c) ==
    /\ ask[c].at = "resuming"
    /\ decided' = [decided EXCEPT ![ask[c].gate] = ask[c].says]
    /\ stopped' = Unnamed /\ Turn(c, "leg")
    /\ UNCHANGED <<lockOf, pauses>>

\* --retry-failed, with a failure to clear: the pause is cleared undecided, and the
\* leg may pause at the same gate again.
RetryLeg(c) ==
    /\ c \in Terminals /\ ask[c].at = "idle" /\ Take(c)
    /\ stopped' = Unnamed /\ Turn(c, "leg")
    /\ UNCHANGED <<decided, pauses>>

\* The leg pauses at a gate that is still open, or ends some other way.
LegPauses(c, g) ==
    /\ ask[c].at = "leg" /\ decided[g] = "none" /\ pauses < MaxLegPauses
    /\ stopped' = g /\ pauses' = pauses + 1 /\ Turn(c, "ended") /\ Give(c)
    /\ UNCHANGED decided
LegEnds(c) ==
    /\ ask[c].at = "leg" /\ Turn(c, "ended") /\ Give(c)
    /\ UNCHANGED <<stopped, decided, pauses>>

\* A refusal after the lock, an interrupt of the leg's first remote snapshot, or
\* a death gives the lock back with the pause as it was.
GivesUp(c) ==
    /\ ask[c].at \in {"looking", "locked", "resuming"} /\ Turn(c, "lost") /\ Give(c)
    /\ UNCHANGED <<stopped, decided, pauses>>

GateNext ==
    \E c \in Decider :
        \/ \E g \in GateIds, says \in {"approve", "reject"} : Post(c, g, says) \/ FromTerminal(c, g, says)
        \/ LookAtPause(c) \/ AnswerPost(c) \/ ResumeLocks(c) \/ ResumeChecks(c)
        \/ RecordLegGate(c) \/ RetryLeg(c) \/ LegEnds(c) \/ GivesUp(c)
        \/ \E g \in GateIds : LegPauses(c, g)

GateSpec == GateInit /\ [][GateNext]_gateVars

----------------------------------------------------------------------------
(* Properties. *)

\* "the button can never start a leg the user did not see a pause for": however
\* the two sides race, a decision is written once, for the gate the run stood at,
\* by the one that holds the lock and named that gate, from whichever side.
DecidesThePause ==
    [][\A g \in GateIds : decided'[g] # decided[g] =>
        /\ decided[g] = "none" /\ stopped = g
        /\ ask[lockOf].gate = g /\ ask[lockOf].says = decided'[g]]_gateVars
=============================================================================
