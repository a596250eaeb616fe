--------------------------- MODULE OnboardingDesk ---------------------------
(***************************************************************************)
(* What several hires have in common (onboarding.service): the lists that   *)
(* HR, the Head of Talent Acquisition, the medical officers and the Central *)
(* Medical Officers work from, the letters the Head sends many at a time,   *)
(* the findings that are decided many at a time, and the papers a candidate *)
(* is chased for.                                                           *)
(*                                                                          *)
(* A batch reads first and then takes its hires one after the other, each   *)
(* with mails or notices that take their time; `desk` is how far it is.     *)
(* Reference numbers and the two mails of one letter are in Joining, the    *)
(* offer and the end of an onboarding in Onboarding.                        *)
(***************************************************************************)
EXTENDS Naturals, Sequences, FiniteSets

CONSTANTS
  Desks,       \* batches that can be under way at the same time
  Hires,       \* candidates with an onboarding
  Bands,       \* the two test lists
  Keys,        \* the required documents
  Demands      \* bound: how often each kind of request is made

Wanted == {"ask", "letters", "finding", "ruling", "paper"}

ASSUME DemandsAssumption == Demands \subseteq [Wanted -> Nat]

VARIABLES
  test,      \* the request for a medical test and its letter, on each row
  checkup,   \* the medical columns of each row
  pile,      \* the documents and the waivers of each row
  desk,      \* what each batch remembers
  demands,   \* history: how many more requests are made
  heard,     \* history: the request whose letter last reached somebody
  rulings,   \* history: central decisions on the finding that is submitted
  skippedOver, \* history: hires whose finding a batch ended without and left as it was
  undisturbed  \* history: nothing a batch had read was changed under it

dvars == <<test, checkup, pile, desk, demands, heard, rulings, skippedOver, undisturbed>>

-----------------------------------------------------------------------------
(* Values *)

None == "none"

ASSUME KeysAssumption == Keys # {}    \* some documents are required of everybody

(* `asked` stands for medicalRequestedAt, `told` for the times a letter left. *)
Test == [asked : Nat, pending : BOOLEAN, band : Bands \cup {None},
         told : SUBSET {"team", "candidate"}]

(* `made` numbers the findings. *)
Checkup == [status : {"pending", "submitted", "cleared", "rejected"},
            proposed : {None, "cleared", "rejected"}, made : Nat, byHand : BOOLEAN,
            signed : BOOLEAN]

Piles == [rows : Seq([key : Keys, status : {"pending", "verified", "rejected"}]),
          waived : SUBSET {"docsSkipped", "verificationSkipped", "facilitiesReviewed", "archived"},
          chased : SUBSET Keys]

Desk == [at : {None, "mail", "record", "look", "write", "notify"},
         todo : SUBSET Hires,                 \* the hires still to come
         on : SUBSET Hires,                   \* the one it is at
         given : SUBSET Hires,                \* those it was given
         read : [Hires -> Test],
         band : Bands \cup {None}, told : SUBSET {"team", "candidate"},
         verdict : {None, "approve", "reject", "return"},
         made : [Hires -> Nat],               \* the finding each had when it began
         proposed : {None, "cleared", "rejected"}]

Unasked == [asked |-> 0, pending |-> FALSE, band |-> None, told |-> {}]

Free == [at |-> None, todo |-> {}, on |-> {}, given |-> {},
         read |-> [h \in Hires |-> Unasked], band |-> None, told |-> {}, verdict |-> None,
         made |-> [h \in Hires |-> 0], proposed |-> None]

DeskTypeOK ==
  /\ test \in [Hires -> Test]
  /\ checkup \in [Hires -> Checkup]
  /\ pile \in [Hires -> Piles]
  /\ desk \in [Desks -> Desk]
  /\ demands \in [Wanted -> Nat]
  /\ heard \in [Hires -> Nat]
  /\ rulings \in [Hires -> Nat]
  /\ undisturbed \in BOOLEAN

Demand(kind) == demands[kind] > 0 /\ demands' = [demands EXCEPT ![kind] = @ - 1]

Undisturbed(condition) == undisturbed' = (undisturbed /\ condition)

-----------------------------------------------------------------------------
(* The lists *)

Waived(h, stamp) == stamp \in pile[h].waived

Slips(h) == {pile[h].rows[i] : i \in DOMAIN pile[h].rows}

(* MEDICAL_DUE. *)
Due(h) ==
  /\ Slips(h) # {} \/ Waived(h, "docsSkipped")
  /\ Waived(h, "verificationSkipped") \/ (Slips(h) # {} /\ \A d \in Slips(h) : d.status = "verified")
  /\ Waived(h, "facilitiesReviewed")

MedicalQueue == {h \in Hires : checkup[h].status = "pending" /\ ~Waived(h, "archived") /\ Due(h)}

MedicalApprovalQueue == {h \in Hires : checkup[h].status = "submitted" /\ ~Waived(h, "archived")}

MedicalRequestInbox == {h \in Hires : test[h].pending /\ checkup[h].status # "cleared"}

(* missingDocs and rejectedDocs of the rows alone: what a chase lists, whatever is waived. *)
Outstanding(h) ==
  {k \in Keys : \A d \in Slips(h) : d.key = k => d.status = "rejected"}

SentBack(h) == {d.key : d \in {e \in Slips(h) : e.status = "rejected"}}

Chased(h) == Outstanding(h) \cup SentBack(h)

(* missingDocs and pendingDocs as the final verification asks them. *)
DocsBlock(h) ==
  \/ ~Waived(h, "docsSkipped") /\ Outstanding(h) # {}
  \/ ~Waived(h, "verificationSkipped") /\ \E d \in Slips(h) : d.status = "pending"

-----------------------------------------------------------------------------
(* Papers *)

(* publicUpload: always one more row. *)
Submit ==
  \E h \in Hires, k \in Keys :
    /\ Demand("paper")
    /\ pile' = [pile EXCEPT ![h].rows = Append(@, [key |-> k, status |-> "pending"])]
    /\ UNCHANGED <<test, checkup, desk, heard, rulings, skippedOver, undisturbed>>

(* verifyDoc. *)
Inspect ==
  \E h \in Hires : \E i \in DOMAIN pile[h].rows, s \in {"verified", "rejected"} :
    /\ Demand("paper")
    /\ pile' = [pile EXCEPT ![h].rows[i].status = s]
    /\ UNCHANGED <<test, checkup, desk, heard, rulings, skippedOver, undisturbed>>

(* skipDocs, skipVerification, reviewFacilities and archive: a stamp that stays. *)
Stamp ==
  \E h \in Hires, w \in {"docsSkipped", "verificationSkipped", "facilitiesReviewed", "archived"} :
    /\ Demand("paper")
    /\ pile' = [pile EXCEPT ![h].waived = @ \cup {w}]
    /\ UNCHANGED <<test, checkup, desk, heard, rulings, skippedOver, undisturbed>>

ChasePendingDocs ==
  \E h \in Hires :
    /\ Demand("paper")
    /\ Chased(h) # {}
    /\ pile' = [pile EXCEPT ![h].chased = Chased(h)]
    /\ UNCHANGED <<test, checkup, desk, heard, rulings, skippedOver, undisturbed>>

-----------------------------------------------------------------------------
(* Requests for a test, and letters *)

RequestMedical ==
  \E h \in Hires, b \in Bands :
    /\ Demand("ask")
    /\ checkup[h].status # "cleared"
    /\ test' = [test EXCEPT ![h] = [test[h] EXCEPT !.asked = @ + 1, !.pending = TRUE, !.band = b]]
    /\ UNCHANGED <<checkup, pile, desk, heard, rulings, skippedOver, undisturbed>>

(* The Head sends to hires of the inbox or to any others, each on a date of its own
   (left out); all rows are read now. *)
SendMedicalRequests(k) ==
  \E hires \in (SUBSET Hires) \ {{}} :
    /\ desk[k].at = None /\ Demand("letters")
    /\ desk' = [desk EXCEPT ![k] =
         [Free EXCEPT !.at = "mail", !.todo = hires, !.given = hires,
                      !.read = [h \in Hires |-> IF h \in hires THEN test[h] ELSE Unasked]]]
    /\ UNCHANGED <<test, checkup, pile, heard, rulings, skippedOver, undisturbed>>

(* A letter for the one it is at, with the test list the Head chose or the one asked for;
   any of its addressees may fail to get it. *)
DeliverMedicalLetter(k) ==
  \E h \in desk[k].todo, told \in SUBSET {"team", "candidate"} :
    \E band \in (Bands \cup {desk[k].read[h].band}) \ {None} :
    /\ desk[k].at = "mail"
    /\ desk' = [desk EXCEPT ![k] =
         [desk[k] EXCEPT !.at = "record", !.todo = @ \ {h}, !.on = {h}, !.band = band, !.told = told]]
    /\ heard' = [heard EXCEPT ![h] = IF told = {} \/ desk[k].read[h].asked < @ THEN @
                                              ELSE desk[k].read[h].asked]
    /\ UNCHANGED <<test, checkup, pile, demands, rulings, skippedOver, undisturbed>>

(* "Choose the test list", or nobody to write to: the next one is taken. *)
RefuseLetter(k) ==
  \E h \in desk[k].todo :
    /\ desk[k].at = "mail"
    /\ desk' = [desk EXCEPT ![k].todo = @ \ {h}]
    /\ UNCHANGED <<test, checkup, pile, demands, heard, rulings, skippedOver, undisturbed>>

(* Variant: the request is off the list however the mails went. *)
PendingNever(h, told) == FALSE

(* "Out of Head of Talent Acquisition's inbox once anybody was told." *)
PendingAfter(h, told) == IF told = {} THEN test[h].pending ELSE FALSE

RecordMedicalLetter(k) ==
  \E h \in desk[k].on :
    /\ desk[k].at = "record"
    /\ test' = [test EXCEPT ![h] =
         [@ EXCEPT !.pending = PendingAfter(h, desk[k].told),
                   !.band = desk[k].band,
                   !.told = desk[k].read[h].told \cup desk[k].told]]
    /\ desk' = [desk EXCEPT ![k] = [@ EXCEPT !.at = "mail", !.on = {}, !.band = None, !.told = {}]]
    /\ Undisturbed(test[h] = desk[k].read[h])
    /\ UNCHANGED <<checkup, pile, demands, heard, rulings, skippedOver>>

LettersSent(k) ==
  /\ desk[k].at = "mail"
  /\ desk[k].todo = {}
  /\ desk' = [desk EXCEPT ![k] = Free]
  /\ UNCHANGED <<test, checkup, pile, demands, heard, rulings, skippedOver, undisturbed>>

-----------------------------------------------------------------------------
(* Findings, and the Central Medical Officers *)

(* setMedical: any finding, at any time; a finding by hand is not submitted. *)
RecordFinding ==
  \E h \in Hires, finding \in {"pending", "cleared", "rejected"}, byHand \in BOOLEAN :
    LET submitted == finding # "pending" /\ ~byHand
    IN /\ Demand("finding")
       /\ checkup' = [checkup EXCEPT ![h] =
            [status |-> IF submitted THEN "submitted" ELSE finding,
             proposed |-> IF submitted THEN finding ELSE None,
             made |-> checkup[h].made + 1, byHand |-> byHand /\ finding # "pending",
             signed |-> FALSE]]
       /\ rulings' = [rulings EXCEPT ![h] = 0]
       /\ UNCHANGED <<test, pile, desk, heard, skippedOver, undisturbed>>

(* decideMedical is the same with one. *)
DecideMedicalMany(k) ==
  \E hires \in (SUBSET MedicalApprovalQueue) \ {{}}, verdict \in {"approve", "reject", "return"} :
    /\ desk[k].at = None /\ Demand("ruling")
    /\ desk' = [desk EXCEPT ![k] =
         [Free EXCEPT !.at = "look", !.todo = hires, !.given = hires, !.verdict = verdict,
                      !.made = [h \in Hires |-> IF h \in hires THEN checkup[h].made ELSE 0]]]
    /\ UNCHANGED <<test, checkup, pile, heard, rulings, skippedOver, undisturbed>>

(* decideOne reads the row; submissionBlocker.  "One candidate having been handled by
   another CMO in the meantime must not fail the other forty." *)
LookAtFinding(k) ==
  \E h \in desk[k].todo :
    /\ desk[k].at = "look"
    /\ desk' = [desk EXCEPT ![k] =
         IF checkup[h].status = "submitted"
         THEN [desk[k] EXCEPT !.at = "write", !.todo = @ \ {h}, !.on = {h},
                        !.proposed = checkup[h].proposed,
                        !.made = [desk[k].made EXCEPT ![h] = checkup[h].made]]
         ELSE [desk[k] EXCEPT !.todo = @ \ {h}]]
    /\ UNCHANGED <<test, checkup, pile, demands, heard, rulings, skippedOver, undisturbed>>

(* applyCmoDecision: a return withdraws the finding. *)
WriteRuling(k) ==
  \E h \in desk[k].on :
    LET verdict == desk[k].verdict
        decided == verdict # "return"
    IN /\ desk[k].at = "write"
       /\ checkup' = [checkup EXCEPT ![h] =
            [@ EXCEPT !.status = CASE verdict = "approve" -> desk[k].proposed
                                   [] verdict = "reject" -> "rejected"
                                   [] OTHER -> "pending",
                      !.proposed = IF decided THEN desk[k].proposed ELSE None,
                      !.signed = decided]]
       /\ rulings' = [rulings EXCEPT ![h] = @ + 1]
       /\ Undisturbed(checkup[h].status = "submitted" /\ checkup[h].made = desk[k].made[h])
       /\ desk' = [desk EXCEPT ![k] = [@ EXCEPT !.at = "notify", !.on = {}, !.proposed = None]]
       /\ UNCHANGED <<test, pile, demands, heard, skippedOver>>

(* The officer's and recruitment's notices; one that cannot be written ends the batch. *)
NotifyRuling(k) ==
  /\ desk[k].at = "notify"
  /\ desk' = [desk EXCEPT ![k].at = "look"]
  /\ UNCHANGED <<test, checkup, pile, demands, heard, rulings, skippedOver, undisturbed>>

(* `skippedOver` takes a finding that was there from the beginning and is there still. *)
RulingsMade(k) ==
  /\ desk[k].at = "look"
  /\ desk[k].todo = {}
  /\ desk' = [desk EXCEPT ![k] = Free]
  /\ skippedOver' = skippedOver \cup
       {h \in desk[k].given : checkup[h].status = "submitted" /\ checkup[h].made = desk[k].made[h]}
  /\ UNCHANGED <<test, checkup, pile, demands, heard, rulings, undisturbed>>

(* The process restarts, or a notice fails: the batch ends wherever it is. *)
BreakOff(k) ==
  /\ desk[k].at # None
  /\ desk' = [desk EXCEPT ![k] = Free]
  /\ UNCHANGED <<test, checkup, pile, demands, heard, rulings, skippedOver, undisturbed>>

-----------------------------------------------------------------------------

DeskInit ==
  /\ test = [h \in Hires |-> Unasked]
  /\ checkup = [h \in Hires |-> [status |-> "pending", proposed |-> None, made |-> 0,
                                 byHand |-> FALSE, signed |-> FALSE]]
  /\ pile = [h \in Hires |-> [rows |-> << >>, waived |-> {}, chased |-> {}]]
  /\ desk = [k \in Desks |-> Free]
  /\ demands \in Demands
  /\ heard = [h \in Hires |-> 0]
  /\ rulings = [h \in Hires |-> 0]
  /\ skippedOver = {}
  /\ undisturbed = TRUE

DeskNext ==
  \/ Submit \/ Inspect \/ Stamp \/ ChasePendingDocs \/ RequestMedical \/ RecordFinding
  \/ \E k \in Desks :
       \/ SendMedicalRequests(k) \/ RefuseLetter(k) \/ DeliverMedicalLetter(k) \/ RecordMedicalLetter(k)
       \/ LettersSent(k) \/ DecideMedicalMany(k) \/ LookAtFinding(k) \/ WriteRuling(k)
       \/ NotifyRuling(k) \/ RulingsMade(k) \/ BreakOff(k)

DeskSpec == DeskInit /\ [][DeskNext]_dvars

-----------------------------------------------------------------------------
(* Properties *)

(* "The request waits for Head of Talent Acquisition": a test that HR asked for is on the
   Head's list until a letter for that very request, and not for an earlier one, reached
   somebody, whatever mails fail and wherever a batch stops (sendMedicalRequests). *)
AskedIsHeard ==
  undisturbed => \A h \in Hires :
    test[h].asked > heard[h] /\ checkup[h].status # "cleared" => h \in MedicalRequestInbox

(* A finding is decided at most once however many officers decide batches that hold it,
   and what stands without being typed by hand was decided (decideMedicalMany). *)
RuledOnce ==
  undisturbed => \A h \in Hires :
    /\ rulings[h] <= 1
    /\ checkup[h].status \in {"cleared", "rejected"} /\ ~checkup[h].byHand
         => rulings[h] = 1 /\ checkup[h].signed /\ checkup[h].proposed # None

(* A batch of decisions that ended left none of its findings waiting: one that another
   officer "handled a moment earlier must not fail the other forty" (decideMedicalMany). *)
NobodyLeftOut == undisturbed => skippedOver = {}

(* What a chase lists and the papers HR has yet to look at are together all that keeps the
   documents from passing and the medical from falling due (chasePendingDocs beside
   hrVerifyBlocker and MEDICAL_DUE). *)
ChaseSuffices ==
  \A h \in Hires :
    (Chased(h) = {} /\ \A d \in Slips(h) : d.status # "pending")
      => ~DocsBlock(h) /\ (Waived(h, "facilitiesReviewed") => Due(h))

(* The lists hold whoever waits, and a batch sees to all it was given. *)
DeskServes == AskedIsHeard /\ RuledOnce /\ NobodyLeftOut /\ ChaseSuffices
=============================================================================
