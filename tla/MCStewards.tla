----------------------------- MODULE MCStewards -----------------------------
(***************************************************************************)
(* One requisition, two recruiters and one Factory HR, and two requests at *)
(* a time.  One run tells five stories, and `story` says which: in "people"*)
(* leaves and nominations move, in "papers" levels, facilities and files;   *)
(* in "answers" one answer of a model is read, in "careers" one CV, and in  *)
(* "assistant" the settings of the models change while one is asked.        *)
(* No handler of one touches what another is about.                        *)
(***************************************************************************)
EXTENDS Stewards, Dossier, Answers, Career, Assistant, TLC

CONSTANTS r1, r2, ann, ben, cas

TwoRequests == {r1, r2}
TwoRecruiters == {ann, ben}
OneAnalyst == {cas}

Upto(n, S) == UNION {[1..k -> S] : k \in 0..n}

(* What a model may say: every list of up to two entries, a Null among them. *)
Lists2(S) == Upto(2, S \cup {Null})

AnyNumber == {Junk, -5, 0, 2, 40, 120}
SomeNumbers == {Junk, -5, 2}

TheWords == {"mill", "mills", "office", "sewing", "cutting", "hr"}
TheLikes == {<<"mills", "mill">>}
TheFinalists == <<ann, ben>>
TheUnits == <<"office", "mill">>
TheDepartments == <<"hr", "sewing">>
TheSections == [d \in {"hr", "sewing"} |-> IF d = "hr" THEN <<"office">> ELSE <<"cutting", "mill">>]
TheOptions == {<<>>, <<"mill">>, <<"mill", "office">>, <<"mill", Blank>>, <<"mill", "hr", Blank>>}

Said(question) ==
  CASE question = "screen" ->
         [score : AnyNumber,
          criteria : Lists2([named : BOOLEAN, weight : SomeNumbers, score : SomeNumbers])]
    [] question = "route" -> [code : Vacancies \cup {"other"}, sure : BOOLEAN]
    [] question = "match" -> [results : Lists2([id : {ann, ben, cas}, relevance : AnyNumber])]
    [] question = "compare" -> [ranking : Lists2([id : {1, 2, ann, cas}, rank : SomeNumbers])]
    [] question = "questions" ->
         [items : Lists2([asks : BOOLEAN, marks : SomeNumbers, answer : {"mill", "hr"},
                          options : TheOptions])]
    [] question = "draft" ->
         [unit : {Blank, "mills", "office"}, department : TheWords \cup {Blank},
          section : TheWords \cup {Blank}, posts : AnyNumber, lasting : BOOLEAN, purpose : BOOLEAN]
    [] question = "crosscheck" ->
         [verdict : Verdicts \cup {"other"},
          findings : Lists2([severity : {Junk, "critical"}, told : BOOLEAN])]
    [] question = "portrait" ->
         [face : {TRUE, FALSE, Junk}, confidence : {Junk, -5, 0, 79, 80, 120}]

Asked ==
  {"screen", "route", "match", "compare", "questions", "draft", "crosscheck", "portrait"}

AllReplies == [question \in Asked |-> {Nothing, Null} \cup Said(question)]

(* CVs of two jobs of any dates, of three that are dated, and of two schools. *)
SomeJobs == [company : {"dbl"}, from : {NoDate, 0, 1, 3}, to : {NoDate, 1, 3, 5}, now : BOOLEAN]
OtherJobs == [company : {Blank, "other"}, from : {1, 3}, to : {NoDate, 2}, now : {FALSE}]

(* A company written in two ways, of which one job is the same. *)
MixedJobs == [company : {"dbl", "DBL", "other"}, from : {0, 1}, to : {2, NoDate}, now : {FALSE}]
Named == [name \in {"dbl", "DBL", "other"} |-> IF name = "DBL" THEN "dbl" ELSE name]
SomeSchools == [school : {Blank, "diu"}, university : {Blank, "buet"}, degree : {Blank, "msc"},
                year : 0..2]

SomeCvs ==
  [source : {"upload", "bdjobs"}, employer : {Blank}, institution : {Blank}, schools : {<<>>},
   jobs : Upto(2, SomeJobs \cup OtherJobs)
            \cup [1..3 -> {j \in SomeJobs : ~j.now /\ j.from # NoDate}]
            \cup [1..3 -> MixedJobs]]
  \cup
  [source : {"upload", "bdjobs", "flat"}, employer : {Blank, "dbl"}, institution : {Blank, "diu"},
   jobs : Upto(1, OtherJobs), schools : Upto(2, SomeSchools)]

VARIABLE story

(* Where the papers stay as they are they are plain. *)
Plain == post = [primary |-> "officer", others |-> {}]
           /\ \A f \in Facilities : ~decisions[f].requested

StoriesInit ==
  /\ Init /\ DossierInit /\ AnswersInit /\ AssistantInit
  /\ story \in {"people", "papers", "answers", "careers", "assistant"}
  /\ IF story = "careers" THEN CareerInit ELSE cv = Blank /\ profile = Blank
  /\ story # "papers" => Plain

StoriesNext ==
  \/ story = "people" /\ Next /\ UNCHANGED <<dvars, avars, fvars, zvars, story>>
  \/ story = "papers" /\ DossierNext /\ UNCHANGED <<vars, avars, fvars, zvars, story>>
  \/ story = "answers" /\ AnswersNext /\ UNCHANGED <<vars, dvars, fvars, zvars, story>>
  \/ story = "careers" /\ CareerNext /\ UNCHANGED <<vars, dvars, avars, zvars, story>>
  \/ story = "assistant" /\ AssistantNext /\ UNCHANGED <<vars, dvars, avars, fvars, story>>

Stories == StoriesInit /\ [][StoriesNext]_<<vars, dvars, avars, fvars, zvars, story>>

(* A model is asked as the settings say, what is taken from its answer is fit for use, and
   a sheet says of a working life what the CV says (ai-provider-config, ai-grader,
   cv-profile). *)
ReadAsTold == SettingsHold /\ AnswersFit /\ CareerAsTold

Symmetric == Permutations(Requests) \cup Permutations(Recruiters)
=============================================================================
