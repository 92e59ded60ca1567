------------------------------- MODULE Briefing -------------------------------
(***************************************************************************)
(* What the nodes of an auto run are told besides their own prompts: the    *)
(* conventions the operator names on the command line, and the reply of the *)
(* attempt a retry follows.  The files are validated while anybody may      *)
(* still change them; what was read is staged in the run's directory, where *)
(* the run's own nodes can write, and a leg that resumes the run, perhaps   *)
(* by an older program, tells its nodes what it finds there, or refuses.    *)
(* The answers of the interview are staged beside them, for no node to hear. *)
(***************************************************************************)
EXTENDS Integers, Sequences, SequencesExt, FiniteSetsExt

CONSTANTS
    Named,        \* the names of --conventions, in order
    Inode,        \* the files they may lead to
    Sizes,        \* sizes of a file
    StageCap,     \* MaxStagedBytes
    Header,       \* what rendering adds to the files' sizes
    Builds,       \* the programs that may resume, each by the schemas it accepts
    MaxChanges,   \* bound: changes of files and names during the launch
    MaxBriefLegs, \* bound: legs
    BriefAttempts \* a node's attempts in one leg, its retries included

Missing == "absent"
NoTexts == <<>>
Altered == <<[file |-> "altered", says |-> "altered", size |-> 0]>>
Wordings == {"text", "revised"}
Unfit == {"blank", "imports", "binary"}

ASSUME BriefAssumption ==
    /\ Sizes \subseteq Nat /\ StageCap \in Nat /\ Header \in Nat /\ MaxChanges \in Nat
    /\ Len(Named) \in Nat \ {0} /\ DOMAIN Named = 1..Len(Named) /\ Missing \notin Inode
    /\ Builds \subseteq {{3}, {3, 4}, {3, 4, 5}} /\ {3, 4, 5} \in Builds
    /\ MaxBriefLegs \in Nat \ {0} /\ BriefAttempts \in Nat \ {0}

VARIABLES
    leadsTo,    \* external: each name's file
    holds,      \* external: each file's text and size
    options,    \* the rest of the command line
    load,       \* conventions.Load: how far it is, what stat saw, what was read
    stagedText, \* the run's directory: conventions.md and interview.md
    snap,       \* state.json: the two hashes, the guard and the schema
    briefLeg,   \* the leg in progress: its prefix and its guard
    briefed     \* each node's latest attempt, how many came to an end, and the
                \* one a check found wanting last: in memory, and in state.json
                \* (an attempt a dead leg left no record of never was)

briefVars == <<leadsTo, holds, options, load, stagedText, snap, briefLeg, briefed>>

Members == {"first", "second"}   \* the second continues the first one's session
NoSnap == [conventions |-> NoTexts, interview |-> Missing, guard |-> FALSE, schema |-> 0]
Unedited == [f \in Inode |-> [says |-> "text", size |-> Min(Sizes)]]
NotRun == [state |-> "idle", heard |-> <<>>, settled |-> 0, judged |-> 0,
           onRecord |-> 0, saved |-> 0]
Told(texts) == [part |-> "conventions", of |-> texts]
OwnPrompt(n) == [part |-> "prompt", of |-> n]
ReplyQuoted(n, attempt) == [part |-> "reply", of |-> <<n, attempt>>]

BriefTypeOK ==
    /\ leadsTo \in [ToSet(Named) -> Inode \cup {Missing}]
    /\ \A f \in Inode : holds[f].says \in Wordings \cup Unfit /\ holds[f].size \in Sizes
    /\ load.at \in {"naming", "reading", "accepted", "refused"} /\ Len(load.texts) <= Len(Named)
    /\ load.changes \in 0..MaxChanges
    /\ snap.schema \in {0, 3, 4, 5}
    /\ briefLeg.no \in 0..MaxBriefLegs
    /\ \A n \in Members : /\ briefed[n].state \in {"idle", "running", "retrying", "PASS", "FAIL"}
                          /\ briefed[n].judged \in {0, briefed[n].settled}
                          /\ briefed[n].saved \in {0, briefed[n].onRecord}

BriefInit ==
    /\ leadsTo \in [ToSet(Named) -> Inode \cup {Missing}]
    /\ holds = Unedited
    /\ options \in [named : BOOLEAN, guard : BOOLEAN, interview : {Missing, "answers"}]
    /\ load = [at |-> "naming", seen |-> <<>>, texts |-> <<>>, changes |-> 0]
    /\ stagedText = [conventions |-> NoTexts, interview |-> Missing]
    /\ snap = NoSnap
    /\ briefLeg = [no |-> 0, live |-> FALSE, prefix |-> NoTexts, guard |-> FALSE, tries |-> 0]
    /\ briefed = [n \in Members |-> NotRun]

runBrief == <<stagedText, snap, briefLeg, briefed>>

----------------------------------------------------------------------------
(* The launch: every file is looked at before any is read, and the world may *)
(* change them in between.  No source file is read again after the launch:   *)
(* the run begins with the world forgotten.                                  *)

Changing ==
    /\ load.at = "reading" /\ load.changes < MaxChanges
    /\ load' = [load EXCEPT !.changes = @ + 1]
    /\ UNCHANGED <<options, runBrief>>
EditFile(f, says, size) ==
    /\ Changing /\ holds' = [holds EXCEPT ![f] = [says |-> says, size |-> size]] /\ UNCHANGED leadsTo
Relink(p, f) ==
    /\ Changing /\ leadsTo' = [leadsTo EXCEPT ![p] = f] /\ UNCHANGED holds

\* Two names of one file, a symbolic or a hard link, name it twice.
StatAll ==
    /\ load.at = "naming" /\ options.named
    /\ LET files == [i \in DOMAIN Named |-> leadsTo[Named[i]]]
           fits == /\ Missing \notin ToSet(files) /\ IsInjective(files)
                   /\ MapThenSumSet(LAMBDA f : holds[f].size, ToSet(files)) <= StageCap
       IN load' = IF fits THEN [load EXCEPT !.at = "reading", !.seen = files] ELSE [load EXCEPT !.at = "refused"]
    /\ UNCHANGED <<leadsTo, holds, options, runBrief>>

Rendered(texts) == FoldLeft(LAMBDA sum, t : sum + t.size, Header, texts)

\* The next file, if its name still leads to the file that was looked at.
ReadNext ==
    /\ load.at = "reading"
    /\ LET i == Len(load.texts) + 1
           file == leadsTo[Named[i]]
           fits == file = load.seen[i] /\ holds[file].size <= StageCap /\ holds[file].says \in Wordings
           texts == Append(load.texts, [file |-> file, says |-> holds[file].says, size |-> holds[file].size])
       IN load' = IF ~fits THEN [load EXCEPT !.at = "refused"]
                  ELSE IF i < Len(Named) THEN [load EXCEPT !.texts = texts]
                  ELSE [load EXCEPT !.texts = texts,
                                    !.at = IF Rendered(texts) <= StageCap THEN "accepted" ELSE "refused"]
    /\ UNCHANGED <<leadsTo, holds, options, runBrief>>

\* Write's stamp: an older program must not resume what it would do otherwise.
Schema(conventions, guard) == IF guard THEN 5 ELSE IF conventions # NoTexts THEN 4 ELSE 3

Saved(conventions, interview, guard) ==
    [conventions |-> conventions, interview |-> interview, guard |-> guard,
     schema |-> Schema(conventions, guard)]

\* executePlan stages both texts, then saves what names them, and the run begins.
StageBriefing ==
    /\ briefLeg.no = 0 /\ (IF options.named THEN load.at = "accepted" ELSE load.at = "naming")
    /\ LET conventions == IF options.named THEN load.texts ELSE NoTexts IN
       /\ stagedText' = [conventions |-> conventions, interview |-> options.interview]
       /\ snap' = Saved(conventions, options.interview, options.guard)
       /\ briefLeg' = [no |-> 1, live |-> TRUE, prefix |-> conventions, guard |-> options.guard, tries |-> 0]
    /\ load' = [load EXCEPT !.seen = <<>>, !.changes = 0]
    /\ leadsTo' = [p \in ToSet(Named) |-> Missing] /\ holds' = Unedited
    /\ UNCHANGED <<options, briefed>>

----------------------------------------------------------------------------
(* A leg: one node after the other. *)

launchState == <<leadsTo, holds, options, load>>

\* A node at work writes in the run's directory, or removes a file there.
AlterStaged(conventions, interview) ==
    /\ briefLeg.live /\ \E n \in Members : briefed[n].state = "running"
    /\ snap.conventions = NoTexts => conventions = NoTexts
    /\ snap.interview = Missing => interview = Missing
    /\ stagedText' = [conventions |-> conventions, interview |-> interview]
    /\ UNCHANGED <<launchState, snap, briefLeg, briefed>>

WithConventionsByHandoff(n, resumes) ==
    IF briefLeg.prefix = NoTexts \/ n = "second" THEN <<>> ELSE <<Told(briefLeg.prefix)>>
\* withConventions: before the prompt of whoever resumes no conversation.
WithConventions(n, resumes) ==
    IF briefLeg.prefix = NoTexts \/ resumes THEN <<>> ELSE <<Told(briefLeg.prefix)>>

\* One attempt.  A retry, and so the first attempt of a node whose reply was
\* judged in an earlier leg, resumes nothing and quotes the reply judged last;
\* the prompt is built anew each time.
AttemptNode(n) ==
    /\ briefLeg.live
    /\ \A m \in Members : briefed[m].state # "running"
    /\ n = "second" => briefed["first"].state = "PASS"
    /\ LET node == briefed[n]
           retry == node.state = "retrying" \/ node.judged > 0
           resumes == n = "second" /\ ~retry
           base == (IF resumes THEN briefed["first"].heard ELSE <<>>) \o WithConventions(n, resumes)
       IN /\ node.state \in {"idle", "retrying"}
          /\ briefed' = [briefed EXCEPT ![n] =
                [node EXCEPT !.state = "running",
                             !.heard = base \o <<OwnPrompt(n)>> \o
                                       (IF node.judged > 0 THEN <<ReplyQuoted(n, node.judged)>> ELSE <<>>)]]
    /\ UNCHANGED <<launchState, stagedText, snap, briefLeg>>

\* The attempt ends; `judged` says that a check found its reply wanting.
AttemptSettles(n, verdict, judged) ==
    /\ briefLeg.live /\ briefed[n].state = "running"
    /\ verdict = "PASS" => ~judged
    /\ verdict = "retrying" => briefLeg.tries + 1 < BriefAttempts
    /\ briefLeg' = [briefLeg EXCEPT !.tries = IF verdict = "retrying" THEN @ + 1 ELSE 0]
    /\ LET ended == briefed[n].settled + 1
           reply == IF judged THEN ended ELSE 0
           after == [briefed[n] EXCEPT !.state = verdict, !.settled = ended, !.judged = reply]
       IN briefed' = [briefed EXCEPT ![n] =
             IF verdict = "retrying" THEN after ELSE [after EXCEPT !.onRecord = ended, !.saved = reply]]
    /\ UNCHANGED <<launchState, stagedText, snap>>

\* The leg ends or dies: an attempt in progress leaves nothing.
BriefLegEnds ==
    /\ briefLeg.live /\ briefLeg' = [briefLeg EXCEPT !.live = FALSE, !.tries = 0]
    /\ briefed' = [n \in Members |-> IF briefed[n].state \in {"running", "retrying"}
                                     THEN [briefed[n] EXCEPT !.state = "idle", !.heard = <<>>,
                                                             !.settled = briefed[n].onRecord,
                                                             !.judged = briefed[n].saved]
                                     ELSE briefed[n]]
    /\ UNCHANGED <<launchState, stagedText, snap>>

\* A staged text that is missing or altered refuses; one the record does not name
\* is not looked at.
resumedConventions(recorded) == recorded # NoTexts => stagedText.conventions = recorded
resumedInterview(recorded) == recorded # Missing => stagedText.interview = recorded

\* continueRun: `resume --retry-failed` by one of the programs, which refuses a
\* schema it does not accept, and knows of the keys of those it does.
ResumeBy(build) ==
    /\ ~briefLeg.live /\ briefLeg.no \in 1..(MaxBriefLegs - 1)
    /\ snap.schema \in build
    /\ LET conventions == IF 4 \in build THEN snap.conventions ELSE NoTexts
           interview == IF 4 \in build THEN snap.interview ELSE Missing
           guard == 5 \in build /\ snap.guard
       IN /\ resumedConventions(conventions) /\ resumedInterview(interview)
          /\ briefLeg' = [no |-> briefLeg.no + 1, live |-> TRUE, prefix |-> conventions, guard |-> guard, tries |-> 0]
          /\ snap' = Saved(conventions, interview, guard)
    /\ briefed' = [n \in Members |-> IF briefed[n].state = "PASS" THEN briefed[n]
                                     ELSE [briefed[n] EXCEPT !.state = "idle", !.heard = <<>>]]
    /\ UNCHANGED <<launchState, stagedText>>

BriefNext ==
    \/ \E f \in Inode, says \in Wordings \cup Unfit, size \in Sizes : EditFile(f, says, size)
    \/ \E p \in ToSet(Named), f \in Inode \cup {Missing} : Relink(p, f)
    \/ StatAll \/ ReadNext \/ StageBriefing
    \/ \E conventions \in {stagedText.conventions, NoTexts, Altered},
         interview \in {stagedText.interview, Missing, "altered"} : AlterStaged(conventions, interview)
    \/ \E n \in Members :
        \/ AttemptNode(n)
        \/ \E verdict \in {"PASS", "FAIL", "retrying"}, judged \in BOOLEAN : AttemptSettles(n, verdict, judged)
    \/ BriefLegEnds
    \/ \E build \in Builds : ResumeBy(build)

BriefSpec == BriefInit /\ [][BriefNext]_briefVars

----------------------------------------------------------------------------
(* Properties. *)

Heard(n, what) == {i \in DOMAIN briefed[n].heard : briefed[n].heard[i].part = what}

\* Every conversation of the run, in whatever leg and by whatever attempt it was
\* begun, opens with the conventions accepted at the launch and holds them once;
\* they are whole texts of distinct files and fit one argument.  A node is quoted
\* one reply of its own at most, that of its attempt before.  No leg drops the
\* guard on the remotes.  (conventions.go, withConventions, startCold, Write.)
BriefedAlike ==
    /\ \A n \in Members : briefed[n].state # "idle" =>
        /\ IF options.named
           THEN Heard(n, "conventions") = {1} /\ briefed[n].heard[1] = Told(load.texts)
           ELSE Heard(n, "conventions") = {}
        /\ \A i \in Heard(n, "reply") :
              briefed[n].heard[i].of[1] = n =>
                 briefed[n].heard[i].of[2] = briefed[n].settled - (IF briefed[n].state = "running" THEN 0 ELSE 1)
        /\ \E i \in Heard(n, "prompt") :
              briefed[n].heard[i] = OwnPrompt(n) /\ \A j \in Heard(n, "prompt") : j <= i
    /\ load.at = "accepted" =>
        /\ \A i, j \in DOMAIN load.texts : i # j => load.texts[i].file # load.texts[j].file
        /\ Rendered(load.texts) <= StageCap
    /\ briefLeg.live => briefLeg.guard = options.guard
=============================================================================
