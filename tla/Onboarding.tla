---------------------------- MODULE Onboarding ----------------------------
(***************************************************************************)
(* The onboarding of one candidate (onboarding.service.ts, hr-verify.ts,   *)
(* medical-approval.ts, it-account-request.service.ts): the joining        *)
(* documents and HR's waivers, the alert to the medical team, the medical  *)
(* finding and the Central Medical Officer, the offer and its answer, the  *)
(* final verification, and the request to IT with its link and its answer. *)
(*                                                                         *)
(* A handler that reads and then writes is one action for what it reads    *)
(* and one for each write; `req` holds what it remembers in between.  A    *)
(* handler whose write does not depend on what it read is one action.      *)
(***************************************************************************)
EXTENDS Naturals, Sequences, FiniteSets

CONSTANTS
  Requests,    \* requests the API process can serve at the same time
  Crashes,     \* whether the process may restart under them
  Budgets      \* bound: how many times people ask about papers, the medical, and IT
               \* and the appointment that follow it

ASSUME CrashesAssumption == Crashes \in BOOLEAN
ASSUME BudgetsAssumption == Budgets \subseteq [papers : Nat, medical : Nat, it : Nat]

VARIABLES
  status,     \* Onboarding.status
  docs,       \* status of each OnboardingDoc row, oldest first
  stamps,     \* the dates, ticks and particulars of the row that are filled in
  medical,    \* the medical columns
  board,      \* whether the BoardApproval stands approved
  email,      \* whose work email is on the row
  ticket,     \* the ItAccountRequest row
  links,      \* history: whether the mail with each link to IT left
  req,        \* what each request in flight remembers
  left,       \* history: how many more requests people will make
  inTurn      \* history: every write so far was one that its handler's checks still allowed

vars == <<status, docs, stamps, medical, board, email, ticket, links, req, left, inTurn>>

-----------------------------------------------------------------------------
(* Values *)

Statuses == {"docs_pending", "docs_submitted", "offer_sent", "offer_accepted", "medical",
             "hr_final", "onboarded"}

DocStatuses == {"pending", "verified", "rejected"}

(* `nid` stands for the four NID particulars and `reference` for a ReferenceCheck row. *)
Waivers == {"docsSkipped", "verificationSkipped", "facilitiesReviewed"}
Particulars == {"nid", "reference"}
Stamps == Waivers \cup Particulars \cup
            {"medicalNotified", "offerSent", "offerAccepted", "offerDeclined", "hrVerified",
             "appointmentSent", "itNotified", "archived"}

Findings == {"pending", "cleared", "rejected"}
Verdicts == {"approve", "reject", "return"}

Medical == [status : Findings \cup {"submitted"}, proposed : {"none", "cleared", "rejected"},
            byHand : BOOLEAN, approved : BOOLEAN]

(* Whose address: IT's, or one that HR recorded. *)
Emails == {"none", "hr", "it"}

(* A row is known by the first link made for it; 0 when there is none. *)
Ticket == [id : Nat, link : Nat, answered : BOOLEAN, closed : BOOLEAN]
NoTicket == [id |-> 0, link |-> 0, answered |-> FALSE, closed |-> FALSE]

Ops == {"none", "due", "alert", "upload", "submitted", "acceptByHand", "accept", "decline",
        "verify", "record", "decide", "close", "complete", "save", "mail", "undo", "claim", "answer"}

Request == [op : Ops,
            status : Statuses,                     \* the status as read
            finding : Findings \cup {"none"},      \* the finding to write, or the one proposed
            byHand : BOOLEAN,
            verdict : Verdicts \cup {"none"},
            ticket : Ticket,                       \* the request to IT as read
            link : Nat,                            \* the link it made
            email : Emails,                        \* the address as read, or to write
            done : BOOLEAN]                        \* IT had been notified

Idle == [op |-> "none", status |-> "docs_pending", finding |-> "none", byHand |-> FALSE,
         verdict |-> "none", ticket |-> NoTicket, link |-> 0, email |-> "none", done |-> FALSE]

TypeOK ==
  /\ status \in Statuses
  /\ docs \in Seq(DocStatuses)
  /\ stamps \subseteq Stamps
  /\ medical \in Medical
  /\ board \in BOOLEAN
  /\ email \in Emails
  /\ ticket \in Ticket
  /\ links \in Seq({"made", "mailed"})
  /\ req \in [Requests -> Request]
  /\ left \in [papers : Nat, medical : Nat, it : Nat]
  /\ inTurn \in BOOLEAN

-----------------------------------------------------------------------------
(* Reading *)

At(r, op) == req[r].op = op

Has(stamp) == stamp \in stamps

(* MEDICAL_DUE. *)
MedicalDue ==
  /\ docs # << >> \/ Has("docsSkipped")
  /\ Has("verificationSkipped") \/ (docs # << >> /\ \A i \in DOMAIN docs : docs[i] = "verified")
  /\ Has("facilitiesReviewed")

(* notifyMedicalTeamIfDue: the medical team has something to do and was never told. *)
AlertDue ==
  /\ MedicalDue
  /\ medical.status = "pending"
  /\ ~Has("medicalNotified") /\ ~Has("archived")

(* missingDocs; the required documents are one (bound). *)
Held == \E i \in DOMAIN docs : docs[i] # "rejected"

(* hrVerifyBlocker: "checked by hand" waives the documents, the NID and the reference. *)
MayVerify ==
  /\ medical.status = "cleared"
  /\ Has("docsSkipped") \/ (Held /\ Particulars \subseteq stamps)
  /\ Has("verificationSkipped") \/ \A i \in DOMAIN docs : docs[i] # "pending"

MayAccept == Has("offerSent") /\ ~Has("offerDeclined") /\ ~Has("offerAccepted")

MayDecline == Has("offerSent") /\ ~Has("offerAccepted") /\ ~Has("offerDeclined")

(* submissionBlocker. *)
MayDecide == medical.status = "submitted" /\ medical.proposed # "none"

(* Variant: the final verification is not looked at. *)
MayFinishUnverified == board

(* notifyIt, and assertReady besides. *)
MayFinish == Has("hrVerified") /\ board

MayRequestIt == MayFinish /\ ~Has("itNotified")

Open(t) == t.id # 0 /\ ~t.answered /\ ~t.closed

-----------------------------------------------------------------------------
(* Asking and writing *)

Spend(budget) == left[budget] > 0 /\ left' = [left EXCEPT ![budget] = @ - 1]

(* What a request is about to do, or nothing: the others go on as they were. *)
Then(r, request) == req' = [req EXCEPT ![r] = request]

Ask(r, budget, request) ==
  /\ At(r, "none")
  /\ Spend(budget)
  /\ Then(r, request)
  /\ UNCHANGED <<status, docs, stamps, medical, board, email, ticket, links, inTurn>>

(* `inTurn` becomes FALSE, for good, when a write lands although what its handler
   read no longer holds, when HR asks IT between the two writes by which HR ends the
   onboarding by hand, and when a request dies between two writes that go together. *)
Stays(condition) == inTurn' = (inTurn /\ condition)

(* start: the row is created. *)
Init ==
  /\ status = "docs_pending"
  /\ docs = << >>
  /\ stamps = {}
  /\ medical = [status |-> "pending", proposed |-> "none", byHand |-> FALSE, approved |-> FALSE]
  /\ board \in BOOLEAN
  /\ email = "none"
  /\ ticket = NoTicket
  /\ links = << >>
  /\ req = [r \in Requests |-> Idle]
  /\ left \in Budgets
  /\ inTurn = TRUE

-----------------------------------------------------------------------------
(* Papers and the medical team's alert *)

(* skipDocs, skipVerification and reviewFacilities; each then looks whether the
   medical has become due. *)
Waive(r) ==
  /\ At(r, "none") /\ Spend("papers")
  /\ \E w \in Waivers : stamps' = stamps \cup {w}
  /\ Then(r, [Idle EXCEPT !.op = "due"])
  /\ UNCHANGED <<status, docs, medical, board, email, ticket, links, inTurn>>

(* verifyDoc: HR sets a document to any status, and looks likewise. *)
VerifyDoc(r) ==
  /\ At(r, "none") /\ Spend("papers")
  /\ \E i \in DOMAIN docs, s \in DocStatuses : docs' = [docs EXCEPT ![i] = s]
  /\ Then(r, [Idle EXCEPT !.op = "due"])
  /\ UNCHANGED <<status, stamps, medical, board, email, ticket, links, inTurn>>

CheckDue(r) ==
  /\ At(r, "due")
  /\ Then(r, [Idle EXCEPT !.op = IF AlertDue THEN "alert" ELSE "none"])
  /\ UNCHANGED <<status, docs, stamps, medical, board, email, ticket, links, left, inTurn>>

CommitAlert(r) ==
  /\ At(r, "alert")
  /\ stamps' = stamps \cup {"medicalNotified"}
  /\ Then(r, Idle)
  /\ Stays(medical.status = "pending")
  /\ UNCHANGED <<status, docs, medical, board, email, ticket, links, left>>

(* alertMedicalTeam: HR tells them by hand, while no result is recorded. *)
AlertByHand(r) == medical.status = "pending" /\ Ask(r, "medical", [Idle EXCEPT !.op = "alert"])

(* publicUpload: the row is read, the file goes to Drive ... *)
Upload(r) == Ask(r, "papers", [Idle EXCEPT !.op = "upload", !.status = status])

(* ... the document is created, and a row read as docs_pending moves on. *)
CommitUpload(r) ==
  /\ At(r, "upload")
  /\ docs' = Append(docs, "pending")
  /\ Then(r, IF req[r].status = "docs_pending" THEN [Idle EXCEPT !.op = "submitted"] ELSE Idle)
  /\ UNCHANGED <<status, stamps, medical, board, email, ticket, links, left, inTurn>>

CommitSubmitted(r) ==
  /\ At(r, "submitted")
  /\ status' = "docs_submitted"
  /\ Then(r, Idle)
  /\ Stays(status = "docs_pending")
  /\ UNCHANGED <<docs, stamps, medical, board, email, ticket, links, left>>

(* publicSaveNid saves or blanks the particulars; a reference check is saved or removed. *)
SaveParticulars ==
  /\ Spend("papers")
  /\ \E p \in Particulars : stamps' \in {stamps \cup {p}, stamps \ {p}}
  /\ UNCHANGED <<status, docs, medical, board, email, ticket, links, req, inTurn>>

-----------------------------------------------------------------------------
(* The offer *)

(* doSendOffer: a fresh offer supersedes a refusal; one is sent at a time. *)
SendOffer ==
  /\ Spend("papers")
  /\ stamps' = (stamps \cup {"offerSent"}) \ {"offerDeclined"}
  /\ status' = "offer_sent"
  /\ UNCHANGED <<docs, medical, board, email, ticket, links, req, inTurn>>

(* markOfferAcceptedManually: whether it was accepted already is all that is read. *)
AcceptByHand(r) ==
  /\ ~Has("offerAccepted")
  /\ Ask(r, "papers", [Idle EXCEPT !.op = "acceptByHand"])

(* publicAcceptOffer: the countersigned copy is rendered before the write. *)
Accept(r) == MayAccept /\ Ask(r, "papers", [Idle EXCEPT !.op = "accept"])

CommitAccept(r) ==
  /\ At(r, "acceptByHand") \/ At(r, "accept")
  /\ stamps' = stamps \cup {"offerAccepted"}
  /\ status' = "offer_accepted"
  /\ Then(r, Idle)
  /\ Stays(IF At(r, "accept") THEN MayAccept ELSE ~Has("offerAccepted"))
  /\ UNCHANGED <<docs, medical, board, email, ticket, links, left>>

(* publicDeclineOffer. *)
Decline(r) == MayDecline /\ Ask(r, "papers", [Idle EXCEPT !.op = "decline"])

CommitDecline(r) ==
  /\ At(r, "decline")
  /\ stamps' = stamps \cup {"offerDeclined"}
  /\ Then(r, Idle)
  /\ Stays(MayDecline)
  /\ UNCHANGED <<status, docs, medical, board, email, ticket, links, left>>

-----------------------------------------------------------------------------
(* The medical *)

(* setMedical: an officer's finding waits for the Central Medical Officer, one by
   hand counts at once, and an earlier decision goes. *)
Recorded(finding, byHand) ==
  LET awaitsCmo == finding # "pending" /\ ~byHand IN
  [status |-> IF awaitsCmo THEN "submitted" ELSE finding,
   proposed |-> IF awaitsCmo THEN finding ELSE "none",
   byHand |-> byHand /\ finding # "pending",
   approved |-> FALSE]

SetMedical(r) ==
  \E f \in Findings, h \in BOOLEAN :
    Ask(r, "medical", [Idle EXCEPT !.op = "record", !.finding = f, !.byHand = h, !.status = status])

(* The status goes back as it was read, except after an accepted offer. *)
CommitMedical(r) ==
  /\ At(r, "record")
  /\ medical' = Recorded(req[r].finding, req[r].byHand)
  /\ status' = IF req[r].status = "offer_accepted" THEN "medical" ELSE req[r].status
  /\ Then(r, Idle)
  /\ Stays(status = req[r].status)
  /\ UNCHANGED <<docs, stamps, board, email, ticket, links, left>>

(* applyCmoDecision, to the finding that was read; whether it was by hand is left alone. *)
Decided(verdict, proposed) ==
  IF verdict = "return"
    THEN [medical EXCEPT !.status = "pending", !.proposed = "none", !.approved = FALSE]
    ELSE [medical EXCEPT !.status = IF verdict = "approve" THEN proposed ELSE "rejected",
                         !.proposed = proposed, !.approved = TRUE]

(* decideOne. *)
Decide(r) ==
  \E v \in Verdicts :
    /\ MayDecide
    /\ Ask(r, "medical", [Idle EXCEPT !.op = "decide", !.verdict = v, !.finding = medical.proposed])

CommitDecision(r) ==
  /\ At(r, "decide")
  /\ medical' = Decided(req[r].verdict, req[r].finding)
  /\ Then(r, Idle)
  /\ Stays(MayDecide /\ medical.proposed = req[r].finding)
  /\ UNCHANGED <<status, docs, stamps, board, email, ticket, links, left>>

-----------------------------------------------------------------------------
(* Final verification and what needs it *)

(* hrVerify; that it also rejects the requisition's other applicants is
   RejectRemaining of CandidatePipeline. *)
HrVerify(r) == MayVerify /\ Ask(r, "medical", [Idle EXCEPT !.op = "verify"])

CommitVerify(r) ==
  /\ At(r, "verify")
  /\ stamps' = stamps \cup {"hrVerified"}
  /\ status' = "hr_final"
  /\ Then(r, Idle)
  /\ Stays(MayVerify)
  /\ UNCHANGED <<docs, medical, board, email, ticket, links, left>>

(* doSendAppointmentLetter: only after the final verification, which is for good. *)
SendAppointmentLetter ==
  /\ Spend("it")
  /\ Has("hrVerified")
  /\ stamps' = stamps \cup {"appointmentSent"}
  /\ UNCHANGED <<status, docs, medical, board, email, ticket, links, req, inTurn>>

(* archive: at any time. *)
Archive ==
  /\ Spend("papers")
  /\ stamps' = stamps \cup {"archived"}
  /\ UNCHANGED <<status, docs, medical, board, email, ticket, links, req, inTurn>>

(* The board approves; a sheet that still carries the candidate may be rejected
   afterwards (submitSheetVote). *)
BoardMoves ==
  /\ Spend("it")
  /\ board' = ~board
  /\ UNCHANGED <<status, docs, stamps, medical, email, ticket, links, req, inTurn>>

-----------------------------------------------------------------------------
(* Ending the onboarding by hand *)

(* notifyIt: the gates, then the webhook, which may answer with an address ... *)
NotifyIt(r) ==
  \E e \in {"none", "hr"} :
    MayFinish /\ Ask(r, "it", [Idle EXCEPT !.op = "close", !.email = e])

(* Variant: an answered request is closed instead. *)
ClosedWhenAnswered(t) == [t EXCEPT !.closed = @ \/ t.answered]

(* ... a request that waits on IT is closed ... *)
Closed(t) == [t EXCEPT !.closed = @ \/ Open(t)]

CloseTicket(r) ==
  /\ At(r, "close")
  /\ ticket' = Closed(ticket)
  /\ Then(r, [req[r] EXCEPT !.op = "complete"])
  /\ Stays(MayFinish)
  /\ UNCHANGED <<status, docs, stamps, medical, board, email, links, left>>

(* ... and the address is written, or blanked if there is none. *)
Complete(r) ==
  /\ At(r, "complete")
  /\ email' = req[r].email
  /\ stamps' = stamps \cup {"itNotified"}
  /\ status' = "onboarded"
  /\ Then(r, Idle)
  /\ Stays(MayFinish)
  /\ UNCHANGED <<docs, medical, board, ticket, links, left>>

-----------------------------------------------------------------------------
(* Asking IT *)

(* send: the row and its request are read ... *)
RequestIt(r) == MayRequestIt /\ Ask(r, "it", [Idle EXCEPT !.op = "save", !.ticket = ticket])

(* ... the request is saved with a new link, open again; it is created if none was
   read, which a unique onboardingId refuses when there is one by now ... *)
SaveTicket(r) ==
  LET was == req[r].ticket
      link == Len(links) + 1
  IN
  /\ At(r, "save")
  /\ IF ticket.id = was.id
       THEN /\ ticket' = [ticket EXCEPT !.id = IF was.id = 0 THEN link ELSE @,
                                        !.link = link, !.closed = FALSE]
            /\ links' = Append(links, "made")
            /\ Then(r, [req[r] EXCEPT !.op = "mail", !.link = link])
            /\ Stays(MayRequestIt /\ ticket = was /\ ~\E s \in Requests : At(s, "complete"))
       ELSE Then(r, Idle) /\ UNCHANGED <<ticket, links, inTurn>>
  /\ UNCHANGED <<status, docs, stamps, medical, board, email, left>>

(* ... and mailed; if the mail does not leave, the request is put back. *)
Mail(r) ==
  /\ At(r, "mail")
  /\ \/ /\ links' = [links EXCEPT ![req[r].link] = "mailed"]
        /\ Then(r, Idle)
     \/ Then(r, [req[r] EXCEPT !.op = "undo"]) /\ UNCHANGED links
  /\ UNCHANGED <<status, docs, stamps, medical, board, email, ticket, left, inTurn>>

(* Variant: the new link stays. *)
PutBackOpen(t, was) == [t EXCEPT !.closed = was.closed]

PutBack(t, was) ==
  IF was.id = 0 THEN NoTicket ELSE [t EXCEPT !.link = was.link, !.closed = was.closed]

(* undo, by the row's id; a row that is gone is only logged. *)
Undo(r) ==
  LET was == req[r].ticket
      mine == IF was.id = 0 THEN req[r].link ELSE was.id
  IN
  /\ At(r, "undo")
  /\ ticket' = IF ticket.id = mine THEN PutBack(ticket, was) ELSE ticket
  /\ Then(r, Idle)
  /\ Stays(ticket.link = req[r].link /\ ~ticket.closed)
  /\ UNCHANGED <<status, docs, stamps, medical, board, email, links, left>>

(* completeByToken: whoever holds the live link answers; the onboarding is read. *)
Answer(r) ==
  /\ Open(ticket) /\ links[ticket.link] = "mailed"
  /\ Ask(r, "it", [Idle EXCEPT !.op = "claim", !.ticket = ticket,
                               !.email = email, !.done = Has("itNotified")])

(* One answer only: a conditional update by the row's id. *)
Claim(r) ==
  /\ At(r, "claim")
  /\ IF ticket.id = req[r].ticket.id /\ Open(ticket)
       THEN /\ ticket' = [ticket EXCEPT !.answered = TRUE]
            /\ Then(r, [req[r] EXCEPT !.op = "answer"])
            /\ Stays(ticket = req[r].ticket)
       ELSE Then(r, Idle) /\ UNCHANGED <<ticket, inTurn>>
  /\ UNCHANGED <<status, docs, stamps, medical, board, email, links, left>>

(* IT's answer ends the onboarding unless HR had done so. *)
Completes(done) == ~done

(* Variant: IT's address always counts. *)
ItsAddress(done, read) == "it"

AddressAfter(done, read) == IF Completes(done) \/ read = "none" THEN "it" ELSE email

RecordAnswer(r) ==
  /\ At(r, "answer")
  /\ email' = AddressAfter(req[r].done, req[r].email)
  /\ IF Completes(req[r].done)
       THEN stamps' = stamps \cup {"itNotified"} /\ status' = "onboarded"
       ELSE UNCHANGED <<stamps, status>>
  /\ Then(r, Idle)
  /\ Stays(email = req[r].email /\ Has("itNotified") = req[r].done)
  /\ UNCHANGED <<docs, medical, board, ticket, links, left>>

(* The process restarts under a request. *)
Fail(r) ==
  /\ Crashes /\ ~At(r, "none")
  /\ Then(r, Idle)
  /\ Stays(req[r].op \notin {"complete", "mail", "undo", "answer"})
  /\ UNCHANGED <<status, docs, stamps, medical, board, email, ticket, links, left>>

-----------------------------------------------------------------------------

PapersStep(r) ==
  \/ Waive(r) \/ VerifyDoc(r) \/ CheckDue(r) \/ CommitAlert(r) \/ AlertByHand(r)
  \/ Upload(r) \/ CommitUpload(r) \/ CommitSubmitted(r)
  \/ AcceptByHand(r) \/ Accept(r) \/ CommitAccept(r) \/ Decline(r) \/ CommitDecline(r)

MedicalStep(r) ==
  \/ SetMedical(r) \/ CommitMedical(r) \/ Decide(r) \/ CommitDecision(r)
  \/ HrVerify(r) \/ CommitVerify(r)

ItStep(r) ==
  \/ NotifyIt(r) \/ CloseTicket(r) \/ Complete(r)
  \/ RequestIt(r) \/ SaveTicket(r) \/ Mail(r) \/ Undo(r)
  \/ Answer(r) \/ Claim(r) \/ RecordAnswer(r)

Next ==
  \/ SaveParticulars \/ SendOffer \/ SendAppointmentLetter \/ Archive \/ BoardMoves
  \/ \E r \in Requests : PapersStep(r) \/ MedicalStep(r) \/ ItStep(r) \/ Fail(r)

Spec == Init /\ [][Next]_vars

-----------------------------------------------------------------------------
(* Properties *)

(* A finding counts only with somebody's name to it: the Central Medical Officer's,
   or HR's by hand; as long as every write landed in turn, never both, "so the two
   are always distinguishable" (setMedical, decideOne). *)
MedicalSigned ==
  medical.status \in {"cleared", "rejected"} =>
    /\ medical.approved \/ medical.byHand
    /\ inTurn => ~(medical.approved /\ medical.byHand)

(* Nobody is appointed, IT is not asked and the onboarding does not end before HR's
   final verification, whoever asks and whatever fails (doSendAppointmentLetter,
   assertReady, notifyIt). *)
VerifiedFirst ==
  ticket.id # 0 \/ Has("itNotified") \/ Has("appointmentSent") => Has("hrVerified")

(* Every step stands on the signature it takes: the finding on its own, and all that
   follows on HR's verification. *)
NothingUnsigned == MedicalSigned /\ VerifiedFirst

(* As long as every write landed in turn, the live link to IT is one whose mail left,
   or is about to leave or to be put back: "the link inside a mail that never left
   must not be the live one" (send, undo). *)
LiveLink ==
  inTurn /\ ticket.id # 0 =>
    \/ links[ticket.link] = "mailed"
    \/ \E r \in Requests : (At(r, "mail") \/ At(r, "undo")) /\ req[r].link = ticket.link

(* As long as every write landed in turn, an onboarding that has ended leaves no
   request open at IT, "so nobody makes a second account" (notifyIt, send, undo). *)
DoneIsClosed == inTurn /\ Has("itNotified") => ~Open(ticket)

(* As long as every write landed in turn, IT's answer ends the onboarding, or is about
   to; it is not lost to a re-send, an undo or an end by hand (completeByToken). *)
AnswerCounts ==
  inTurn /\ ticket.answered => Has("itNotified") \/ \E r \in Requests : At(r, "answer")

(* The end of the onboarding and the request at IT speak of each other: an end leaves
   nothing open there, and what IT answers becomes an end. *)
EndMeetsRequest == DoneIsClosed /\ AnswerCounts

(* An address that HR had recorded by hand when IT opened the answer "stays as
   recorded" until HR records another (completeByToken, notifyIt). *)
HandAddressStays ==
  [][email = "hr" /\ email' # "hr" =>
       \E r \in Requests : Complete(r) \/ (At(r, "answer") /\ req[r].email # "hr")]_vars

=============================================================================
