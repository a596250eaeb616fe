------------------------------ MODULE Joining ------------------------------
(***************************************************************************)
(* What a new colleague's papers go through beside the onboarding proper:  *)
(* the letter to the medical test, the numbers the medical form and the    *)
(* employee register hand out, the Code of Conduct, the cross-check of the *)
(* joining documents and the facilities others are asked to arrange        *)
(* (onboarding.service.ts, facility-provisioning.service.ts).              *)
(*                                                                         *)
(* A handler reads a row, spends a mail, a PDF, an upload or a language    *)
(* model on it, and writes; `req` holds where it has come to and what it   *)
(* read.  The sequence that numbers the letters, Drive, mail and the model *)
(* are external: a call does its work or fails.                            *)
(***************************************************************************)
EXTENDS Naturals, FiniteSets, FiniteSetsExt

CONSTANTS
  Tasks,         \* requests the API process can serve at the same time
  Candidates,    \* the candidates the numbers are shared by
  Docs,          \* joining documents one of them uploads
  FacilityLinks, \* rows of FacilityNotification for one facility of theirs
  Ids,           \* employee numbers HR can type
  Allowances     \* bound: how many times people ask about each kind of paper

(* The signature is uploaded like any other document; the signed Code of Conduct and
   the medical report are filed among them. *)
Signature == "signature"
Form == "form"
Report == "report"
Ours == {Form, Report}
Rows == Docs \cup Ours

ASSUME DocsAssumption == Signature \in Docs /\ Docs \cap Ours = {}

(* Somebody is hired, and there are numbers to type and people to ask. *)
ASSUME SomeAssumption ==
  Candidates # {} /\ IsFiniteSet(Candidates) /\ Ids # {} /\ FacilityLinks # {}

Kinds == {"letter", "numbers", "conduct", "check", "facility"}

ASSUME AllowancesAssumption == Allowances \subseteq [Kinds -> Nat]

VARIABLES
  letter,      \* the medical test columns of the Onboarding row
  issued,      \* the last number medical_test_ref_seq has given
  posted,      \* history: what was mailed: the numbers, and who was told
  exam,        \* number on each candidate's MedicalExam, 0 before the first save
  employeeId,  \* each candidate's employee number, if any
  conduct,     \* the Code of Conduct columns and the copies on file
  papers,      \* the joining documents and the verdict on them
  asked,       \* the FacilityNotification rows of one facility
  task,        \* where each request in flight has come to
  allowed,     \* history: how many more requests people will make
  inLine       \* history: nothing overlapped that the code does not keep apart

jvars == <<letter, issued, posted, exam, employeeId, conduct, papers, asked, task, allowed, inLine>>

medicalTest == <<letter, issued, posted>>
numbers == <<exam, employeeId>>

-----------------------------------------------------------------------------
(* Values *)

Sides == {"team", "candidate"}
(* A reference is a number the sequence has given, 0 for none, or the one that the
   paper register gave and HR has typed. *)
Typed == 99

Letter == [ref : Nat, pending : BOOLEAN, told : SUBSET Sides]
Posted == [refs : SUBSET Nat, told : SUBSET Sides]

Conduct == [sent : BOOLEAN, signed : BOOLEAN, filed : Nat, onFile : BOOLEAN]

(* HR can have a document extracted by hand. *)
DocStates == {"none", "uploaded", "extracted", "byHand"}
Papers == [doc : [Rows -> DocStates], by : {"none", "ai", "hr"}, covers : SUBSET Rows, verdicts : Nat]

(* Two columns, so that one row can say both. *)
Link == [sent : BOOLEAN, expired : BOOLEAN, answers : SUBSET {"confirmed", "declined"}]

Steps == {"none", "issue", "team", "candidate", "record", "number", "exam", "id",
          "mailForm", "sign", "file", "attach", "fileRow", "extract", "summarize", "look",
          "auto", "verdict",
          "confirmed", "declined"}

Task ==
  [step : Steps, saw : Letter, ref : Nat, to : SUBSET Sides, told : SUBSET Sides,
   candidate : Candidates, id : Ids, doc : Rows, covers : SUBSET Rows, was : Nat,
   link : FacilityLinks]

Blank == [ref |-> 0, pending |-> FALSE, told |-> {}]
NoPapers == [doc |-> [d \in Rows |-> "none"], by |-> "none", covers |-> {}, verdicts |-> 0]

NoTask == [step |-> "none", saw |-> Blank, ref |-> 0, to |-> {}, told |-> {},
         candidate |-> CHOOSE c \in Candidates : TRUE, id |-> CHOOSE n \in Ids : TRUE,
         doc |-> Form, covers |-> {}, was |-> 0, link |-> CHOOSE l \in FacilityLinks : TRUE]

JoiningTypeOK ==
  /\ letter \in Letter
  /\ issued \in Nat
  /\ posted \in Posted
  /\ exam \in [Candidates -> Nat]
  /\ employeeId \in [Candidates -> SUBSET Ids]
  /\ conduct \in Conduct
  /\ papers \in Papers
  /\ asked \in [FacilityLinks -> Link]
  /\ task \in [Tasks -> Task]
  /\ allowed \in [Kinds -> Nat]
  /\ inLine \in BOOLEAN

-----------------------------------------------------------------------------
(* Requests *)

Doing(r, step) == task[r].step = step
Some(steps) == \E r \in Tasks : task[r].step \in steps

Asked(kind) == allowed[kind] > 0 /\ allowed' = [allowed EXCEPT ![kind] = @ - 1]

Begin(r, kind, request) ==
  /\ Doing(r, "none")
  /\ Asked(kind)
  /\ task' = [task EXCEPT ![r] = request]

GoOn(r, step) == task' = [task EXCEPT ![r].step = step] /\ UNCHANGED allowed
Done(r) == task' = [task EXCEPT ![r] = NoTask] /\ UNCHANGED allowed

Keeps(condition) == inLine' = (inLine /\ condition)

-----------------------------------------------------------------------------
(* The letter to the medical test *)

Sending == {"issue", "team", "candidate", "record"}

(* A typed reference replaces the stored one, a blank keeps it. *)
RequestMedicalTest ==
  \E typed \in BOOLEAN :
    /\ Asked("letter")
    /\ letter' = [letter EXCEPT !.pending = TRUE, !.ref = IF typed THEN Typed ELSE @]
    /\ Keeps(~Some(Sending))
    /\ UNCHANGED <<issued, posted, numbers, conduct, papers, asked, task>>

(* Variant: every send takes a number of its own. *)
KeptAnew(saw) == 0

(* "The reference is issued once and kept." *)
Kept(saw) == saw.ref

(* HR writes to one side or to both; a batch reads all its rows before the first
   mail and is otherwise the same. *)
SendLetter(r) ==
  \E to \in (SUBSET Sides) \ {{}}, typed \in BOOLEAN :
    LET ref == IF typed THEN Typed ELSE Kept(letter) IN
    /\ Begin(r, "letter", [NoTask EXCEPT !.step = IF ref = 0 THEN "issue" ELSE "team",
                                     !.saw = letter, !.ref = ref, !.to = to])
    /\ Keeps(~Some(Sending))
    /\ UNCHANGED <<medicalTest, numbers, conduct, papers, asked>>

(* The number is spent even when nobody turns out to hold a medical role. *)
Issue(r) ==
  /\ Doing(r, "issue")
  /\ issued' = issued + 1
  /\ \/ task' = [task EXCEPT ![r].ref = issued + 1, ![r].step = "team"]
     \/ task' = [task EXCEPT ![r] = NoTask]
  /\ UNCHANGED <<letter, posted, numbers, conduct, papers, asked, allowed, inLine>>

(* The team's turn comes first; whether its mails leave, the candidate's follows. *)
PostLetter(r, side, next) ==
  \E leaves \in IF side \in task[r].to THEN BOOLEAN ELSE {FALSE} :
    /\ posted' = IF leaves THEN [refs |-> posted.refs \cup {task[r].ref}, told |-> posted.told \cup {side}]
                 ELSE posted
    /\ task' = [task EXCEPT ![r].step = next, ![r].told = IF leaves THEN @ \cup {side} ELSE @]
    /\ UNCHANGED <<letter, issued, numbers, conduct, papers, asked, allowed, inLine>>

MailTeam(r) == Doing(r, "team") /\ PostLetter(r, "team", "candidate")
MailCandidate(r) == Doing(r, "candidate") /\ PostLetter(r, "candidate", "record")

(* Variant: a side this letter did not go to counts as not told. *)
NumberKeptAfresh(saw, told) == told

(* "Kept from the previous send when this one did not target that side." *)
NumberKept(saw, told) == saw.told \cup told

RecordLetter(r) ==
  /\ Doing(r, "record")
  /\ letter' = [ref |-> task[r].ref, pending |-> letter.pending /\ task[r].told = {},
                told |-> NumberKept(task[r].saw, task[r].told)]
  /\ Done(r)
  /\ UNCHANGED <<issued, posted, numbers, conduct, papers, asked, inLine>>

-----------------------------------------------------------------------------
(* The number of a medical form, and the employee number *)

(* Saving the form again writes the number it has. *)
UpsertMedicalExam(r) ==
  \E c \in Candidates :
    /\ Begin(r, "numbers", [NoTask EXCEPT !.step = IF exam[c] = 0 THEN "number" ELSE "exam",
                                      !.candidate = c, !.ref = exam[c]])
    /\ Keeps(exam[c] # 0 \/ ~Some({"number", "exam"}))
    /\ UNCHANGED <<medicalTest, numbers, conduct, papers, asked>>

NextNumber == Max({exam[c] : c \in Candidates}) + 1

GenerateMedicalRefNo(r) ==
  /\ Doing(r, "number")
  /\ task' = [task EXCEPT ![r].ref = NextNumber, ![r].step = "exam"]
  /\ UNCHANGED <<medicalTest, numbers, conduct, papers, asked, allowed, inLine>>

CommitExam(r) ==
  /\ Doing(r, "exam")
  /\ exam' = [exam EXCEPT ![task[r].candidate] = task[r].ref]
  /\ Done(r)
  /\ UNCHANGED <<medicalTest, employeeId, conduct, papers, asked, inLine>>

(* Somebody else has the number. *)
Clash(c, n) == \E d \in Candidates \ {c} : n \in employeeId[d]

SetEmployeeId(r) ==
  \E c \in Candidates, n \in Ids :
    /\ ~Clash(c, n)
    /\ Begin(r, "numbers", [NoTask EXCEPT !.step = "id", !.candidate = c, !.id = n])
    /\ Keeps(~Some({"id"}))
    /\ UNCHANGED <<medicalTest, numbers, conduct, papers, asked>>

CommitEmployeeId(r) ==
  /\ Doing(r, "id")
  /\ employeeId' = [employeeId EXCEPT ![task[r].candidate] = {task[r].id}]
  /\ Done(r)
  /\ UNCHANGED <<medicalTest, exam, conduct, papers, asked, inLine>>

-----------------------------------------------------------------------------
(* The Code of Conduct *)

SendCoc(r) ==
  /\ ~conduct.signed
  /\ Begin(r, "conduct", [NoTask EXCEPT !.step = "mailForm"])
  /\ UNCHANGED <<medicalTest, numbers, conduct, papers, asked, inLine>>

(* A mail that does not leave ends the request in an error. *)
CommitSendCoc(r) ==
  /\ Doing(r, "mailForm")
  /\ \E leaves \in BOOLEAN : conduct' = [conduct EXCEPT !.sent = @ \/ leaves]
  /\ Done(r)
  /\ UNCHANGED <<medicalTest, numbers, papers, asked, inLine>>

MayAcknowledge == conduct.sent /\ ~conduct.signed /\ papers.doc[Signature] # "none"

PublicAcknowledgeCoc(r) ==
  /\ MayAcknowledge
  /\ Begin(r, "conduct", [NoTask EXCEPT !.step = "sign"])
  /\ Keeps(~Some({"sign"}))
  /\ UNCHANGED <<medicalTest, numbers, conduct, papers, asked>>

(* "The acknowledgement is recorded BEFORE the PDF is produced." *)
SignCoc(r) ==
  /\ Doing(r, "sign")
  /\ conduct' = [conduct EXCEPT !.signed = TRUE]
  /\ GoOn(r, "file")
  /\ UNCHANGED <<medicalTest, numbers, papers, asked, inLine>>

(* Rendering and filing are allowed to fail. *)
FileCoc(r) ==
  /\ Doing(r, "file")
  /\ \/ GoOn(r, "attach") /\ conduct' = [conduct EXCEPT !.filed = @ + 1]
     \/ Done(r) /\ UNCHANGED conduct
  /\ UNCHANGED <<medicalTest, numbers, papers, asked, inLine>>

AttachCoc(r) ==
  /\ Doing(r, "attach")
  /\ conduct' = [conduct EXCEPT !.onFile = TRUE]
  /\ GoOn(r, "fileRow")
  /\ UNCHANGED <<medicalTest, numbers, papers, asked, inLine>>

(* The form becomes one of the joining documents. *)
AddCocRow(r) ==
  /\ Doing(r, "fileRow")
  /\ papers' = [papers EXCEPT !.doc[Form] = IF @ = "none" THEN "uploaded" ELSE @]
  /\ Done(r)
  /\ UNCHANGED <<medicalTest, numbers, conduct, asked, inLine>>

-----------------------------------------------------------------------------
(* The joining documents and their cross-check *)

Checking == {"extract", "look", "auto", "verdict"}
Present == {d \in Rows : papers.doc[d] # "none"}
Extracted == {d \in Rows : papers.doc[d] \in {"extracted", "byHand"}}

(* A row of its own, and the extraction goes on behind the answer. *)
PublicUpload(r) ==
  \E d \in {s \in Docs : papers.doc[s] = "none"} :
    /\ Begin(r, "check", [NoTask EXCEPT !.step = "extract", !.doc = d])
    /\ papers' = [papers EXCEPT !.doc[d] = "uploaded"]
    /\ UNCHANGED <<medicalTest, numbers, conduct, asked, inLine>>

(* The medical report is filed too, and nothing reads it. *)
UploadMedicalReport ==
  /\ papers.doc[Report] = "none"
  /\ Asked("check")
  /\ papers' = [papers EXCEPT !.doc[Report] = "uploaded"]
  /\ UNCHANGED <<medicalTest, numbers, conduct, asked, task, inLine>>

AutoSummarizeDoc(r) ==
  /\ Doing(r, "extract")
  /\ \/ /\ papers' = [papers EXCEPT !.doc[task[r].doc] = "extracted"]
        /\ GoOn(r, "look")
     \/ Done(r) /\ UNCHANGED papers
  /\ UNCHANGED <<medicalTest, numbers, conduct, asked, inLine>>

SummarizeDoc(r) ==
  \E d \in Present :
    /\ Begin(r, "check", [NoTask EXCEPT !.step = "summarize", !.doc = d])
    /\ UNCHANGED <<medicalTest, numbers, conduct, papers, asked, inLine>>

CommitSummarizeDoc(r) ==
  /\ Doing(r, "summarize")
  /\ papers' = [papers EXCEPT !.doc[task[r].doc] = "byHand"]
  /\ Done(r)
  /\ UNCHANGED <<medicalTest, numbers, conduct, asked, inLine>>

(* "Still extracting others." *)
Ready == Present = Extracted

CheckOf(r, step) ==
  [task[r] EXCEPT !.step = step, !.covers = Extracted, !.was = papers.verdicts]

AutoCrossCheck(r) ==
  /\ Doing(r, "look")
  /\ task' = [task EXCEPT ![r] = IF Ready THEN CheckOf(r, "auto") ELSE NoTask]
  /\ UNCHANGED <<medicalTest, numbers, conduct, papers, asked, allowed, inLine>>

(* HR has the model compare what is extracted so far. *)
CrossVerify(r) ==
  /\ Extracted # {}
  /\ Begin(r, "check", CheckOf(r, "verdict"))
  /\ UNCHANGED <<medicalTest, numbers, conduct, papers, asked, inLine>>

Verdict(by, covers) == [papers EXCEPT !.by = by, !.covers = covers, !.verdicts = @ + 1]

(* The last verdict to arrive is the one on file. *)
CommitVerdict(r) ==
  /\ \E step \in {"auto", "verdict"} : Doing(r, step)
  /\ papers' = Verdict("ai", task[r].covers)
  /\ Done(r)
  /\ Keeps(papers.verdicts = task[r].was)
  /\ UNCHANGED <<medicalTest, numbers, conduct, asked>>

(* The model does not answer: HR sees it, the automatic check only logs it. *)
CheckFails(r) ==
  /\ \E step \in {"auto", "verdict"} : Doing(r, step)
  /\ Done(r)
  /\ Keeps(Doing(r, "verdict"))
  /\ UNCHANGED <<medicalTest, numbers, conduct, papers, asked>>

ManualCrossCheck ==
  /\ Asked("check")
  /\ papers' = Verdict("hr", {})
  /\ UNCHANGED <<medicalTest, numbers, conduct, asked, task, inLine>>

-----------------------------------------------------------------------------
(* A facility others are asked to arrange *)

Notify ==
  \E l \in FacilityLinks :
    /\ ~asked[l].sent
    /\ Asked("facility")
    /\ asked' = [asked EXCEPT ![l].sent = TRUE]
    /\ UNCHANGED <<medicalTest, numbers, conduct, papers, task, inLine>>

(* Fourteen days pass. *)
Expire ==
  \E l \in FacilityLinks :
    /\ asked[l].sent /\ ~asked[l].expired
    /\ asked' = [asked EXCEPT ![l].expired = TRUE]
    /\ UNCHANGED <<medicalTest, numbers, conduct, papers, task, allowed, inLine>>

Unanswered(l) == asked[l].sent /\ ~asked[l].expired /\ asked[l].answers = {}

Reply(r, answer) ==
  \E l \in FacilityLinks :
    /\ Unanswered(l)
    /\ Begin(r, "facility", [NoTask EXCEPT !.step = answer, !.link = l])
    /\ UNCHANGED <<medicalTest, numbers, conduct, papers, asked, inLine>>

ConfirmByToken(r) == Reply(r, "confirmed")
DeclineByToken(r) == Reply(r, "declined")

(* Variant: one status column. *)
AnswerReplaced(answers, answer) == {answer}

(* Two timestamps, so a confirmation and a refusal from one open page both stay. *)
Answered(answers, answer) == answers \cup {answer}

CommitAnswer(r) ==
  \E answer \in {"confirmed", "declined"} :
    /\ Doing(r, answer)
    /\ asked' = [asked EXCEPT ![task[r].link].answers = Answered(@, answer)]
    /\ Done(r)
    /\ UNCHANGED <<medicalTest, numbers, conduct, papers, inLine>>

(* What HR's list says of the facility. *)
GetStatus ==
  IF \E l \in FacilityLinks : "confirmed" \in asked[l].answers THEN "arranged"
  ELSE IF \E l \in FacilityLinks : "declined" \in asked[l].answers THEN "refused"
  ELSE IF \E l \in FacilityLinks : asked[l].sent THEN "waiting"
  ELSE "idle"

-----------------------------------------------------------------------------

(* The process restarts and what was in flight is gone. *)
Restart ==
  /\ \E r \in Tasks : task[r] # NoTask
  /\ task' = [r \in Tasks |-> NoTask]
  /\ Keeps(\A r \in Tasks : task[r].told = {} /\ task[r].step \notin {"look", "auto"})
  /\ UNCHANGED <<medicalTest, numbers, conduct, papers, asked, allowed>>

JoiningInit ==
  /\ letter = Blank
  /\ issued = 0
  /\ posted = [refs |-> {}, told |-> {}]
  /\ exam = [c \in Candidates |-> 0]
  /\ employeeId = [c \in Candidates |-> {}]
  /\ conduct = [sent |-> FALSE, signed |-> FALSE, filed |-> 0, onFile |-> FALSE]
  /\ papers = NoPapers
  /\ asked = [l \in FacilityLinks |-> [sent |-> FALSE, expired |-> FALSE, answers |-> {}]]
  /\ task = [r \in Tasks |-> NoTask]
  /\ allowed \in Allowances
  /\ inLine = TRUE

Step(r) ==
  \/ SendLetter(r) \/ Issue(r) \/ MailTeam(r) \/ MailCandidate(r) \/ RecordLetter(r)
  \/ UpsertMedicalExam(r) \/ GenerateMedicalRefNo(r) \/ CommitExam(r)
  \/ SetEmployeeId(r) \/ CommitEmployeeId(r)
  \/ SendCoc(r) \/ CommitSendCoc(r) \/ PublicAcknowledgeCoc(r) \/ SignCoc(r) \/ FileCoc(r)
  \/ AttachCoc(r) \/ AddCocRow(r)
  \/ PublicUpload(r) \/ AutoSummarizeDoc(r) \/ SummarizeDoc(r) \/ CommitSummarizeDoc(r)
  \/ AutoCrossCheck(r) \/ CrossVerify(r) \/ CommitVerdict(r) \/ CheckFails(r)
  \/ ConfirmByToken(r) \/ DeclineByToken(r) \/ CommitAnswer(r)

JoiningNext ==
  \/ \E r \in Tasks : Step(r)
  \/ RequestMedicalTest \/ UploadMedicalReport \/ ManualCrossCheck
  \/ Notify \/ Expire \/ Restart

JoiningSpec == JoiningInit /\ [][JoiningNext]_jvars

-----------------------------------------------------------------------------
(* Properties *)

(* "Must not produce a second number for the same person, because the clinic files by
   it": of the numbers the system issues at most one is ever mailed, and the row keeps
   the record that a side was told however the sends are repeated, to one side or to
   both (deliverMedicalLetter), as long as two sends do not overlap. *)
LetterStands ==
  inLine =>
    /\ Cardinality(posted.refs \ {Typed}) <= 1
    /\ posted.told \subseteq letter.told \cup UNION {task[r].told : r \in Tasks}

(* Two candidates' medical forms never carry one number and two employees never one ID
   (generateMedicalRefNo, setEmployeeId): both are read first and written later, so it
   takes that two first saves do not overlap; neither column is unique. *)
NumbersApart ==
  inLine => \A c, d \in Candidates : c # d =>
              /\ exam[c] = exam[d] => exam[c] = 0
              /\ employeeId[c] \cap employeeId[d] = {}

(* The signed Code of Conduct is filed once, whatever the candidate presses and
   wherever filing fails or the process stops (publicAcknowledgeCoc), and it is among
   the joining documents only when the onboarding itself can open it. *)
FormFiledOnce ==
  inLine => /\ conduct.filed <= 1
            /\ conduct.filed = 1 => conduct.signed
            /\ Form \in Present => conduct.onFile

(* "Once every submitted doc is extracted, cross-check them automatically": the verdict
   on file speaks of every paper, in whatever order the uploads are extracted
   (autoSummarizeDoc, autoCrossCheck), unless HR gave a verdict or extracted a paper by
   hand, the model failed, or a late verdict overtook a newer one. *)
AllCrossChecked ==
  (/\ inLine /\ ~Some(Checking)
   /\ Present # {} /\ \A d \in Present : papers.doc[d] = "extracted")
     => papers.by = "hr" \/ papers.covers = Present

(* The joining papers are in order: a number is one person's and the one that was
   mailed, the form is filed once, and the verdict speaks of all that is on file
   (sendMedicalLetter, setEmployeeId, publicAcknowledgeCoc, autoSummarizeDoc). *)
PapersInOrder == LetterStands /\ NumbersApart /\ FormFiledOnce /\ AllCrossChecked

(* The facility's line goes the way HR is promised: "any one confirming marks it
   arranged", for good, however many are asked and whatever races (notify,
   confirmByToken, declineByToken, getStatus). *)
A == INSTANCE Arrangement WITH standing <- GetStatus
FacilityArranged == A!Spec
=============================================================================
