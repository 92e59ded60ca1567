----------------------------- MODULE GraphLoadMC -----------------------------
(* The graph files that GraphLoad is checked on: three entry nodes a, b and c *)
(* beside four fragments.  `voice` is a single node, `echo` a single node that *)
(* cites it, `lane` a loop whose ids are the entry's own names, and `suite` a  *)
(* loop that cites `lane`, so names collide at every border.                   *)
EXTENDS FeedbackReach

A == <<"a">>
B == <<"b">>
C == <<"c">>
Draft(id) == [id |-> id, kind |-> "artifact", parents |-> {}, rerun |-> NoId, use |-> "",
              prompt |-> NoText, check |-> NoText, with |-> NoText]
Quote(ref) == Text({Artifact(ref)}, FALSE)
Slot == Text({}, TRUE)
One(d) == [multi |-> FALSE, nodes |-> <<[d EXCEPT !.id = NoId]>>, exit |-> NoId, point |-> TRUE]
Cite(d, name, with) == [d EXCEPT !.use = name, !.with = with]

Voices == {[Draft(NoId) EXCEPT !.prompt = Text(own, TRUE), !.check = check] :
             own \in {{}, {Artifact(A)}}, check \in {NoText, Quote(A)}}
Drafters == {[Draft(A) EXCEPT !.prompt = Text({Feedback(B)}, TRUE)],
             Cite([Draft(A) EXCEPT !.check = Quote(A)], "voice", Text({Artifact(A)}, TRUE)), Cite(Draft(A), "echo", Slot)}
LaneFile(first, exit) ==
    [multi |-> TRUE, exit |-> exit, point |-> TRUE,
     nodes |-> <<first, [Draft(B) EXCEPT !.parents = {A}, !.rerun = A, !.prompt = Quote(A)]>>]
SuiteFile(with, exit) ==
    [multi |-> TRUE, exit |-> exit, point |-> TRUE,
     nodes |-> <<[Draft(A) EXCEPT !.prompt = Slot], Cite([Draft(B) EXCEPT !.parents = {A}], "lane", with)>>]

Shelves == {[voice |-> One(v), echo |-> One(Cite(Draft(NoId), "voice", Slot)),
             lane |-> LaneFile(first, exit), suite |-> SuiteFile(with, out)] :
               v \in Voices, first \in Drafters, exit \in {A, B},
               with \in {Text({Artifact(A)}, TRUE), Quote(B)}, out \in {A, B}}

Firsts == {Draft(A), Cite(Draft(A), "lane", Quote(C))}
Middles == {[Draft(B) EXCEPT !.parents = {A}, !.prompt = Quote(A)], [Draft(B) EXCEPT !.prompt = Text({Feedback(A)}, FALSE)]} \cup
    {Cite([Draft(B) EXCEPT !.parents = {A}, !.check = check], file, Quote(from)) :
        file \in {"voice", "echo", "lane", "suite"}, from \in {A, B}, check \in {NoText, Quote(C)}}
Lasts == {[Draft(C) EXCEPT !.parents = {B}, !.prompt = Text({t}, FALSE), !.rerun = rerun] :
             t \in {Artifact(B), Feedback(C), Artifact(<<"b", "a">>)}, rerun \in {NoId, A, B}}
         \cup {Draft(C), Draft(B), [Draft(C) EXCEPT !.parents = {C}]}
Entries == {<<a, b, c>> : a \in Firsts, b \in Middles, c \in Lasts}

(* Graphs without fragments: a judge that fans in from two or three of the    *)
(* nodes before it, one of which may be a gate, a session child or judge      *)
(* another loop.                                                              *)
D == <<"d">>
J == <<"judge">>
NoFile == [f \in {} |-> 0]
Worker(id, parents, kind, rerun) == [Draft(id) EXCEPT !.parents = parents, !.kind = kind, !.rerun = rerun]
Judge(parents, rerun) == [Draft(J) EXCEPT !.parents = parents, !.rerun = rerun]
Warned(d, told) == IF told THEN [d EXCEPT !.prompt.tokens = {Feedback(J)}] ELSE d
Fans == {<<Draft(A), Warned(Worker(B, {A}, kind, NoId), told), Worker(C, c, "artifact", inner), Worker(D, d, "artifact", last),
           Judge(j, rerun)>> :
             kind \in {"artifact", "gate", "session"}, told \in BOOLEAN, c \in {{}, {A}, {B}, {A, B}},
             inner \in {NoId, A}, last \in {NoId, A}, d \in {{A}, {B}, {C}, {A, C}},
             j \in {{B, C}, {B, D}, {C, D}, {B, C, D}}, rerun \in {A, B, C, D}}
\* The families, each a set of records left unenumerated.
GraphDocs == <<[entry : Entries, files : Shelves], [entry : Fans, files : {NoFile}]>>
==============================================================================
