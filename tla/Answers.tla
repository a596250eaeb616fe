------------------------------- MODULE Answers -------------------------------
(***************************************************************************)
(* What the backend makes of a language model's answer (ai-grader.service): *)
(* each question has a reader of its own, which takes what it can use of    *)
(* whatever came back.                                                      *)
(*                                                                          *)
(* An answer is the object found in the text, Nothing where there is no     *)
(* JSON in it, or Null, which is JSON but no object.  A number may be Junk, *)
(* text that is none; a word is one the question offered, or another;       *)
(* wording is only there or not there.  An entry of a list may be Null, on  *)
(* which every reader of a list gives up.                                   *)
(***************************************************************************)
EXTENDS Lists

CONSTANTS
  Nothing, Null, Junk,  \* no JSON; no object; no number
  Replies,        \* bound: for each question, the answers that come back
  Offered,        \* the candidates a question names, in order
  Vacancies,      \* codes of the open vacancies
  Words,          \* words the model may use
  Resembles,      \* pairs of words of which one contains the other
  UnitList, DepartmentList, \* what the form offers, in order
  SectionsOf,     \* sections of each department, in order
  MostCriteria, MostMatches, MostQuestions, MostFindings,
  Threshold       \* the score that puts a CV on the shortlist

ASSUME AnswersAssumption ==
  /\ UnitList # <<>>
  /\ {MostCriteria, MostMatches, MostQuestions, MostFindings} \subseteq Nat
  /\ Threshold \in 0..100

VARIABLES
  asked,    \* the question answered last
  reply,    \* what the model answered
  taken     \* what the backend took from it

avars == <<asked, reply, taken>>

-----------------------------------------------------------------------------
(* Reading *)

AtLeast(low, n) == IF n < low THEN low ELSE n

Clamp(low, high, n) == IF n > high THEN AtLeast(low, high) ELSE AtLeast(low, n)

Numeric(n) == IF n = Junk THEN 0 ELSE n

(* Readers that go through a list give up where it has a Null in it. *)
Readable(a) == a \notin {Nothing, Null}

Through(list) == \A i \in DOMAIN list : list[i] # Null

Alike(word) == {w \in Words : <<w, word>> \in Resembles \/ <<word, w>> \in Resembles}

-----------------------------------------------------------------------------
(* Screening a CV *)

Criterion(c) ==
  LET weight == AtLeast(0, Numeric(c.weight))
  IN  [named |-> c.named, weight |-> weight, score |-> Clamp(0, weight, Numeric(c.score))]

Screened(a) ==
  IF ~Readable(a) \/ ~Through(a.criteria)
  THEN [score |-> 0, told |-> FALSE, criteria |-> <<>>]
  ELSE [score |-> Clamp(0, 100, Numeric(a.score)), told |-> TRUE,
        criteria |-> AtMost(MostCriteria,
                            SelectSeq(Each(a.criteria, Criterion),
                                      LAMBDA c : c.named /\ c.weight > 0))]

(* Routing an e-mailed CV to a vacancy; gmail-ingest only follows a confident answer. *)
Routed(a) ==
  IF ~Readable(a) THEN [code |-> Blank, sure |-> FALSE]
  ELSE [code |-> IF a.code \in Vacancies THEN a.code ELSE Blank, sure |-> a.sure]

Followed(route) == IF route.code # Blank /\ route.sure THEN route.code ELSE Blank

(* Matching people to a vacancy, or to a search. *)
Match(m) == [id |-> m.id, relevance |-> Clamp(0, 100, Numeric(m.relevance))]

Matched(a) ==
  IF ~Readable(a) \/ ~Through(a.results) THEN <<>>
  ELSE AtMost(MostMatches,
              Sorted(SelectSeq(Each(a.results, Match),
                               LAMBDA m : m.id \in Members(Offered) /\ m.relevance >= 40),
                     LAMBDA m, n : m.relevance > n.relevance))

(* Comparing finalists: the model calls them 1, 2, ... in the order of the prompt. *)
Resolved(label) == IF label \in DOMAIN Offered THEN Offered[label] ELSE label

RankOf(n) == IF Numeric(n) = 0 THEN 99 ELSE AtLeast(1, n)

Place(p) == [id |-> Resolved(p.id), rank |-> RankOf(p.rank)]

Ranked(a) ==
  IF ~Readable(a) \/ ~Through(a.ranking) THEN <<>>
  ELSE Sorted(SelectSeq(Each(a.ranking, Place), LAMBDA p : p.id \in Members(Offered)),
              LAMBDA p, q : p.rank < q.rank)

(* Writing questions for the test bank. *)
Question(q) ==
  [asks |-> q.asks, options |-> SelectSeq(q.options, LAMBDA o : o # Blank), answer |-> q.answer,
   marks |-> Clamp(1, 3, IF Numeric(q.marks) = 0 THEN 1 ELSE q.marks)]

Usable(q) == q.asks /\ Len(q.options) >= 2 /\ q.answer \in Members(q.options)

Questions(a) ==
  IF ~Readable(a) \/ ~Through(a.items) THEN <<>>
  ELSE AtMost(MostQuestions, SelectSeq(Each(a.items, Question), Usable))

(* Drafting a requisition: each word is snapped to one the form offers. *)
Snap(word, options) ==
  IF word = Blank THEN Blank
  ELSE IF word \in Members(options) THEN word
  ELSE FirstIn(options, Alike(word))

UnitOf(word) == IF Snap(word, UnitList) # Blank THEN Snap(word, UnitList) ELSE UnitList[1]

(* What is said where there is no JSON at all; Null is taken for an object, and *)
(* reading its first field fails the request.                                  *)
Unsaid == [unit |-> Blank, department |-> Blank, section |-> Blank, posts |-> Junk,
           lasting |-> TRUE, purpose |-> FALSE]

Draft(said) ==
  LET department == Snap(said.department, DepartmentList)
      section == IF department = Blank THEN Blank ELSE Snap(said.section, SectionsOf[department])
  IN  [unit |-> UnitOf(said.unit), department |-> department, section |-> section,
       posts |-> IF Numeric(said.posts) = 0 THEN 1 ELSE AtLeast(1, said.posts),
       lasting |-> said.lasting, purpose |-> said.purpose \/ ~said.lasting,
       noted |-> department = Blank /\ said.department # Blank]

Drafted(a) == IF a = Null THEN Null ELSE Draft(IF a = Nothing THEN Unsaid ELSE a)

(* Checking papers against each other. *)
Verdicts == {"consistent", "minor_issues", "discrepancies"}

Finding(f) == [severity |-> IF f.severity = Junk THEN "warning" ELSE f.severity, told |-> f.told]

CrossChecked(a) ==
  IF ~Readable(a) \/ ~Through(a.findings)
  THEN [verdict |-> "minor_issues", findings |-> <<>>]
  ELSE [verdict |-> IF a.verdict \in Verdicts THEN a.verdict ELSE "minor_issues",
        findings |-> AtMost(MostFindings,
                            SelectSeq(Each(a.findings, Finding), LAMBDA f : f.told))]

(* Is a picture a face?  Anything but a plain and confident no lets it pass. *)
Portrait(a) ==
  IF ~Readable(a) \/ a.face = Junk THEN Nothing
  ELSE [face |-> a.face,
        confidence |-> IF a.confidence = Junk \/ a.confidence < 0 THEN 0
                       ELSE Clamp(0, 100, a.confidence)]

Refused(v) == v # Nothing /\ ~v.face /\ v.confidence >= 80

-----------------------------------------------------------------------------
(* Behaviours: one question is put, by the handler that puts it *)

AnswersInit == asked = "none" /\ reply = Nothing /\ taken = Nothing

Take(question, a, what) == asked' = question /\ reply' = a /\ taken' = what

(* A CV nobody can read is scored without asking; one whose score is high enough goes *)
(* on the shortlist.                                                                  *)
ScreenCv(a) ==
  \E readable \in BOOLEAN :
    LET result == IF readable THEN Screened(a) ELSE [score |-> 0, told |-> TRUE, criteria |-> <<>>]
    IN  Take("screen", a, [result |-> result, shortlisted |-> result.score >= Threshold])

(* The mail goes to the vacancy, or to the pile nobody could place. *)
MatchRequisition(a) == Take("route", a, Followed(Routed(a)))

(* Who is in the Talent Bank is asked about, and only they are listed or kept. *)
MatchTalentBank(a) ==
  /\ Offered # <<>>
  /\ Take("match", a, SelectSeq(Matched(a), LAMBDA m : m.id \in Members(Offered)))

CompareFinalists(a) ==
  /\ Len(Offered) >= 2
  /\ Take("compare", a, Ranked(a))

(* Where there is nothing to review the page says so. *)
GenerateQuestions(a) ==
  /\ Questions(a) # <<>>
  /\ Take("questions", a, Questions(a))

DraftRequisition(a) == Take("draft", a, Drafted(a))

(* The recruiters are alerted to discrepancies only. *)
CrossCheck(a) ==
  Take("crosscheck", a, [result |-> CrossChecked(a),
                         alerted |-> CrossChecked(a).verdict = "discrepancies"])

(* The photograph is kept, unless it is refused. *)
UploadPortrait(a) == Take("portrait", a, [kept |-> ~Refused(Portrait(a))])

Handler(question, a) ==
  CASE question = "screen" -> ScreenCv(a)
    [] question = "route" -> MatchRequisition(a)
    [] question = "match" -> MatchTalentBank(a)
    [] question = "compare" -> CompareFinalists(a)
    [] question = "questions" -> GenerateQuestions(a)
    [] question = "draft" -> DraftRequisition(a)
    [] question = "crosscheck" -> CrossCheck(a)
    [] question = "portrait" -> UploadPortrait(a)

AnswersNext ==
  /\ asked = "none"
  /\ \E question \in DOMAIN Replies : \E a \in Replies[question] : Handler(question, a)

AnswersSpec == AnswersInit /\ [][AnswersNext]_avars

-----------------------------------------------------------------------------
(* Properties *)

(* A score is of the scale, no criterion earns more than it weighs, and only a *)
(* CV the model was heard on is shortlisted, unless every CV is.               *)
ScoreOnScale ==
  asked = "screen" =>
    /\ taken.result.score \in 0..100
    /\ taken.shortlisted /\ Threshold > 0 => Readable(reply) /\ reply.score # Junk
    /\ \A c \in Members(taken.result.criteria) : c.named /\ c.score \in 0..c.weight

(* Nobody is proposed whom the question did not name, the best come first, and *)
(* finalists the model placed once each are placed once each.                  *)
PeopleAsNamed ==
  /\ asked = "route" => taken \in Vacancies \cup {Blank}
  /\ asked = "match" =>
       /\ \A m \in Members(taken) : m.id \in Members(Offered) /\ m.relevance \in 40..100
       /\ \A i, j \in DOMAIN taken : i < j => taken[i].relevance >= taken[j].relevance
  /\ asked = "compare" =>
       /\ \A p \in Members(taken) : p.id \in Members(Offered)
       /\ \A i, j \in DOMAIN taken : i < j => taken[i].rank <= taken[j].rank
       /\ Readable(reply) /\ Through(reply.ranking)
            /\ Each(reply.ranking, LAMBDA p : p.id) = [i \in DOMAIN Offered |-> i]
          => {p.id : p \in Members(taken)} = Members(Offered)

(* A draft names only what the form offers, a section of its own department,   *)
(* gives a purpose to a post that is not permanent, and says which word it     *)
(* could not place; each question of a test can be answered right.             *)
FormTakesIt ==
  /\ asked = "draft" /\ taken # Null =>
       /\ taken.unit \in Members(UnitList)
       /\ taken.department \in Members(DepartmentList) \cup {Blank}
       /\ taken.section # Blank =>
            taken.department # Blank /\ taken.section \in Members(SectionsOf[taken.department])
       /\ taken.posts >= 1
       /\ taken.lasting \/ taken.purpose
       /\ taken.department = Blank /\ reply # Nothing => reply.department = Blank \/ taken.noted
  /\ asked = "questions" =>
       \A q \in Members(taken) : q.answer \in Members(q.options) /\ q.marks \in 1..3

(* Papers pass as consistent, the recruiters are alerted, and a photograph is  *)
(* refused, only where the model plainly said so.                              *)
DoubtIsNoVerdict ==
  /\ asked = "crosscheck" =>
       /\ taken.result.verdict # "minor_issues" => reply.verdict = taken.result.verdict
       /\ taken.alerted => reply.verdict = "discrepancies"
  /\ asked = "portrait" /\ ~taken.kept =>
       Readable(reply) /\ reply.face = FALSE /\ reply.confidence # Junk

(* Whatever the model answers, what is taken from it is something the caller   *)
(* can use.                                                                    *)
AnswersFit == ScoreOnScale /\ PeopleAsNamed /\ FormTakesIt /\ DoubtIsNoVerdict
=============================================================================
