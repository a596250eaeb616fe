------------------------------- MODULE Intake -------------------------------
(***************************************************************************)
(* The ways a CV reaches one posted requisition: the recruitment inbox, the *)
(* careers page, an upload by hand, the Drive folder and Bdjobs, and what   *)
(* the readings of a CV write on the row afterwards (gmail-ingest.service,  *)
(* gmail.service, candidates.service, bdjobs.service).                      *)
(*                                                                          *)
(* Each handler reads, then waits for Drive, for a language model or for    *)
(* the database, then writes; `req` holds where it has come to and what it  *)
(* read.  Addresses stand for people: "own" is the one whose mails and      *)
(* Bdjobs application arrive here, "other" anybody else's.  Drive and Gmail *)
(* are external: a call does its work or fails.                             *)
(***************************************************************************)
EXTENDS Integers, Sequences, FiniteSets

CONSTANTS
  Requests,      \* requests the API process can serve at the same time
  Mails,         \* mails with a CV the applicant has sent
  MaxRows,       \* bound: candidate rows
  MaxFiles,      \* bound: CVs uploaded to Drive
  MaxAsks        \* bound: requests made

ASSUME BoundsAssumption == MaxRows \in Nat /\ MaxFiles \in Nat /\ MaxAsks \in Nat

VARIABLES
  rows,        \* Candidate: the rows of the requisition, in the order created
  folder,      \* the CVs in the requisition's folder on Drive
  uploads,     \* CVs uploaded so far: the number of the last one
  processed,   \* Setting: the mails an earlier scan has recorded
  registry,    \* RedFlagRegistry: the applicant's address is in it
  req,         \* where each request in flight has come to
  asks,        \* history: requests made
  inTurn       \* history: nothing overlapped that the code does not keep apart

vars == <<rows, folder, uploads, processed, registry, req, asks, inTurn>>

-----------------------------------------------------------------------------
(* Values *)

Emails == {"none", "own", "other"}
Sources == {"email", "application", "upload", "drive", "bdjobs"}

(* `cvFile` 0 is none; `opens` is what the row's CV link leads to. *)
Candidate ==
  [source : Sources, live : BOOLEAN, cvFile : 0..MaxFiles, opens : {"none", "file", "link"},
   email : Emails, typed : BOOLEAN, cvProfile : {"none", "read", "bdjobs"}, flagged : BOOLEAN]

Blank == [source |-> "upload", live |-> TRUE, cvFile |-> 0, opens |-> "none", email |-> "none",
          typed |-> FALSE, cvProfile |-> "none", flagged |-> FALSE]

Steps == {"none", "route", "upload", "check", "create", "mark", "write", "attach",
          "list", "import", "remove", "read", "screen", "receive"}

(* `row` is the row in hand, 0 a new one; `was` is how it was read. *)
Request ==
  [step : Steps, row : 0..MaxRows, was : Candidate, todo : SUBSET Mails, mail : SUBSET Mails,
   saw : SUBSET Mails, files : SUBSET (1..MaxFiles), fresh : BOOLEAN]   \* history

Idle == [step |-> "none", row |-> 0, was |-> Blank, todo |-> {}, mail |-> {}, saw |-> {},
         files |-> {}, fresh |-> TRUE]

TypeOK ==
  /\ rows \in Seq(Candidate) /\ Len(rows) <= MaxRows
  /\ folder \subseteq 1..MaxFiles
  /\ uploads \in 0..MaxFiles
  /\ processed \subseteq Mails
  /\ registry \in BOOLEAN
  /\ req \in [Requests -> Request]
  /\ asks \in Nat
  /\ inTurn \in BOOLEAN

-----------------------------------------------------------------------------
(* Requests and rows *)

At(r, step) == req[r].step = step

Ask(r, request) ==
  /\ At(r, "none")
  /\ asks < MaxAsks /\ asks' = asks + 1
  /\ req' = [req EXCEPT ![r] = request]

Stays(condition) == inTurn' = (inTurn /\ condition)

(* Those who have read row n and are still to write it have read what is past. *)
Overtaken(n) ==
  [q \in Requests |-> IF n # 0 /\ req[q].row = n THEN [req[q] EXCEPT !.fresh = FALSE] ELSE req[q]]

Done(r, n) == req' = [Overtaken(n) EXCEPT ![r] = Idle]

Added(candidate) == Len(rows) < MaxRows /\ rows' = Append(rows, candidate)

Known(email) == \E n \in DOMAIN rows : rows[n].email = email

-----------------------------------------------------------------------------
(* The recruitment inbox *)

Scanning(r) == req[r].todo # {}

(* Every quarter of an hour, or when somebody asks: nothing keeps two scans apart. *)
Ingest(r) ==
  /\ Mails \ processed # {}
  /\ Ask(r, [Idle EXCEPT !.step = "route", !.todo = Mails \ processed])
  /\ Stays(\A q \in Requests : ~Scanning(q))
  /\ UNCHANGED <<rows, folder, uploads, processed, registry>>

(* Variant: a row that was removed does not count. *)
AppliedLive == \E n \in DOMAIN rows : rows[n].live /\ rows[n].email = "own"

(* The sender is on some row of the requisition, removed or not. *)
Applied == Known("own")

(* No requisition found, or the sender is known: the mail is done with. *)
MatchRequisition(r) ==
  \E m \in req[r].todo, found \in BOOLEAN :
    /\ At(r, "route")
    /\ req' = [req EXCEPT ![r].mail = {m},
                          ![r].was = [Blank EXCEPT !.source = "email", !.email = "own"],
                          ![r].step = IF found /\ ~Applied THEN "upload" ELSE "mark"]
    /\ UNCHANGED <<rows, folder, uploads, processed, registry, asks, inTurn>>

(* On to the next mail; this one is not looked at again in this scan. *)
NextMail(r) ==
  LET rest == req[r].todo \ req[r].mail IN
  IF rest = {} THEN Idle ELSE [Idle EXCEPT !.step = "route", !.todo = rest]

MarkProcessed(r) ==
  /\ At(r, "mark")
  /\ req' = [req EXCEPT ![r].step = "write", ![r].saw = processed]
  /\ UNCHANGED <<rows, folder, uploads, processed, registry, asks, inTurn>>

(* The whole record is written back, with what has been added since lost. *)
SaveProcessedId(r) ==
  /\ At(r, "write")
  /\ processed' = req[r].saw \cup req[r].mail
  /\ req' = [req EXCEPT ![r] = NextMail(r)]
  /\ UNCHANGED <<rows, folder, uploads, registry, asks, inTurn>>

-----------------------------------------------------------------------------
(* The careers page and an upload by hand *)

PublicApply(r) ==
  \E email \in {"own", "other"} :
    /\ Ask(r, [Idle EXCEPT !.step = "upload",
                           !.was = [Blank EXCEPT !.source = "application", !.email = email]])
    /\ UNCHANGED <<rows, folder, uploads, processed, registry, inTurn>>

Create(r) ==
  \E email \in Emails, file \in BOOLEAN :
    /\ Ask(r, [Idle EXCEPT !.step = IF file THEN "upload" ELSE "check",
                           !.was = [Blank EXCEPT !.email = email, !.typed = (email # "none")]])
    /\ UNCHANGED <<rows, folder, uploads, processed, registry, inTurn>>

UploadCv(r) ==
  \E n \in DOMAIN rows :
    /\ Ask(r, [Idle EXCEPT !.step = "upload", !.row = n, !.was = rows[n]])
    /\ UNCHANGED <<rows, folder, uploads, processed, registry, inTurn>>

AfterUpload(r) ==
  IF req[r].row # 0 THEN "attach"
  ELSE IF req[r].was.source = "email" THEN "create" ELSE "check"

(* A CV for a row that is past Applied goes to another folder than the one synced. *)
UploadFile(r) ==
  \E inFolder \in {TRUE} \cup (IF req[r].row # 0 THEN {FALSE} ELSE {}) :
    /\ At(r, "upload") /\ uploads < MaxFiles
    /\ uploads' = uploads + 1
    /\ folder' = IF inFolder THEN folder \cup {uploads + 1} ELSE folder
    /\ req' = [req EXCEPT ![r].files = {uploads + 1}, ![r].step = AfterUpload(r)]
    /\ UNCHANGED <<rows, processed, registry, asks, inTurn>>

(* Drive refuses: the request ends in an error, a scan leaves the mail for later. *)
UploadFails(r) ==
  /\ At(r, "upload")
  /\ req' = [req EXCEPT ![r] = IF Scanning(r) THEN NextMail(r) ELSE Idle]
  /\ UNCHANGED <<rows, folder, uploads, processed, registry, asks, inTurn>>

File(r) == IF req[r].files = {} THEN 0 ELSE CHOOSE f \in req[r].files : TRUE

Registered(email) == registry /\ email = "own"

CheckRegistry(r) ==
  /\ At(r, "check")
  /\ req' = [req EXCEPT ![r].step = "create", ![r].was.flagged = Registered(req[r].was.email)]
  /\ UNCHANGED <<rows, folder, uploads, processed, registry, asks, inTurn>>

CommitCreate(r) ==
  /\ At(r, "create")
  /\ Added([req[r].was EXCEPT !.cvFile = File(r), !.opens = IF File(r) = 0 THEN "none" ELSE "file"])
  /\ req' = [req EXCEPT ![r] = IF Scanning(r) THEN [@ EXCEPT !.step = "mark"] ELSE Idle]
  /\ UNCHANGED <<folder, uploads, processed, registry, asks, inTurn>>

CommitUpload(r) ==
  LET n == req[r].row IN
  /\ At(r, "attach")
  /\ rows' = [rows EXCEPT ![n].cvFile = File(r), ![n].opens = "file"]
  /\ Done(r, n)
  /\ UNCHANGED <<folder, uploads, processed, registry, asks, inTurn>>

(* A person types an address in, or takes it out. *)
Update ==
  \E n \in DOMAIN rows, email \in Emails :
    /\ asks < MaxAsks /\ asks' = asks + 1
    /\ email # rows[n].email
    /\ rows' = [rows EXCEPT ![n].email = email, ![n].typed = (email # "none")]
    /\ req' = Overtaken(n)
    /\ Stays(rows[n].source # "email")
    /\ UNCHANGED <<folder, uploads, processed, registry>>

-----------------------------------------------------------------------------
(* Removal and the Drive folder *)

(* The CV goes from Drive first; a refusal is only logged. *)
Remove(r) ==
  \E n \in DOMAIN rows, refused \in BOOLEAN :
    /\ Ask(r, [Idle EXCEPT !.step = "remove", !.row = n, !.was = rows[n]])
    /\ folder' = IF refused THEN folder ELSE folder \ {rows[n].cvFile}
    /\ UNCHANGED <<rows, uploads, processed, registry, inTurn>>

CommitRemove(r) ==
  LET n == req[r].row IN
  /\ At(r, "remove")
  /\ rows' = [rows EXCEPT ![n].live = FALSE]
  /\ Done(r, n)
  /\ UNCHANGED <<folder, uploads, processed, registry, asks, inTurn>>

SyncFromDrive(r) ==
  /\ Ask(r, [Idle EXCEPT !.step = "list", !.files = folder])
  /\ UNCHANGED <<rows, folder, uploads, processed, registry, inTurn>>

Tracked == {rows[n].cvFile : n \in {m \in DOMAIN rows : rows[m].live}}

(* The CVs no row that was not removed has. *)
Compare(r) ==
  LET fresh == req[r].files \ Tracked IN
  /\ At(r, "list")
  /\ req' = [req EXCEPT ![r] = IF fresh = {} THEN Idle
                               ELSE [@ EXCEPT !.step = "import", !.files = fresh]]
  /\ UNCHANGED <<rows, folder, uploads, processed, registry, asks, inTurn>>

(* In some order: as Drive lists them. *)
InOrder(files) == CHOOSE s \in [1..Cardinality(files) -> files] :
                    \A i, j \in 1..Cardinality(files) : s[i] = s[j] => i = j

Imported(files) ==
  [i \in 1..Cardinality(files) |->
     [Blank EXCEPT !.source = "drive", !.cvFile = InOrder(files)[i], !.opens = "file"]]

(* A CV that somebody has uploaded and is still to make a row for. *)
InHand(files) == \E q \in Requests : req[q].step \in {"check", "create", "attach"} /\ req[q].files \cap files # {}

CommitImport(r) ==
  LET files == req[r].files IN
  /\ At(r, "import") /\ Len(rows) + Cardinality(files) <= MaxRows
  /\ rows' = rows \o Imported(files)
  /\ req' = [req EXCEPT ![r] = Idle]
  /\ Stays(~InHand(files) /\ files \cap Tracked = {})
  /\ UNCHANGED <<folder, uploads, processed, registry, asks>>

-----------------------------------------------------------------------------
(* What is read off a CV *)

(* A profile Bdjobs sent is never read over, not even when somebody asks. *)
EnsureCvProfile(r) ==
  \E n \in DOMAIN rows :
    /\ rows[n].cvFile # 0 /\ rows[n].cvProfile # "bdjobs"
    /\ Ask(r, [Idle EXCEPT !.step = "read", !.row = n, !.was = rows[n]])
    /\ UNCHANGED <<rows, folder, uploads, processed, registry, inTurn>>

(* Only what was missing when the row was read is filled in. *)
Backfilled(was, row, email) ==
  IF was.email = "none" /\ email # "none" THEN [row EXCEPT !.email = email, !.typed = FALSE] ELSE row

CommitRead(r) ==
  LET n == req[r].row IN
  \E email \in Emails, found \in BOOLEAN :
    /\ At(r, "read")
    /\ rows' = IF found
                 THEN [rows EXCEPT ![n] = Backfilled(req[r].was, [@ EXCEPT !.cvProfile = "read"], email)]
                 ELSE rows
    /\ Done(r, n)
    /\ UNCHANGED <<folder, uploads, processed, registry, asks, inTurn>>

RunScreen(r) ==
  \E n \in DOMAIN rows :
    /\ rows[n].cvFile # 0 \/ rows[n].cvProfile # "none"
    /\ Ask(r, [Idle EXCEPT !.step = "screen", !.row = n, !.was = rows[n]])
    /\ UNCHANGED <<rows, folder, uploads, processed, registry, inTurn>>

(* A candidate who scores well is shortlisted: the CV moves to another folder. *)
CommitScreen(r) ==
  LET n == req[r].row IN
  \E email \in Emails, shortlisted \in BOOLEAN :
    /\ At(r, "screen")
    /\ rows' = [rows EXCEPT ![n] = Backfilled(req[r].was, @, email)]
    /\ folder' = IF shortlisted THEN folder \ {req[r].was.cvFile} ELSE folder
    /\ Done(r, n)
    /\ UNCHANGED <<uploads, processed, registry, asks, inTurn>>

-----------------------------------------------------------------------------
(* Bdjobs *)

Application == {n \in DOMAIN rows : rows[n].source = "bdjobs"}

(* The application is looked up by its number. *)
ReceiveCandidate(r) ==
  \E n \in IF Application = {} THEN {0} ELSE Application :
    /\ Ask(r, [Idle EXCEPT !.step = "receive", !.row = n, !.was = IF n = 0 THEN Blank ELSE rows[n]])
    /\ UNCHANGED <<rows, folder, uploads, processed, registry, inTurn>>

(* The number is unique: the second of two that arrive together is refused. *)
CommitCreateBdjobs(r) ==
  \E email \in Emails, cv \in BOOLEAN, link \in BOOLEAN :
    /\ At(r, "receive") /\ req[r].row = 0
    /\ IF Application # {} THEN UNCHANGED rows
       ELSE Added([Blank EXCEPT !.source = "bdjobs", !.email = email,
                                !.cvProfile = IF cv THEN "bdjobs" ELSE "none",
                                !.opens = IF link THEN "link" ELSE "none"])
    /\ Done(r, 0)
    /\ UNCHANGED <<folder, uploads, processed, registry, asks, inTurn>>

(* Variant: the link the applicant attached always wins. *)
RelinkedAlways(was, row, link) == IF link THEN [row EXCEPT !.opens = "link"] ELSE row

(* The file HR has uploaded stays the CV the row opens. *)
Relinked(was, row, link) == IF link /\ was.cvFile = 0 THEN [row EXCEPT !.opens = "link"] ELSE row

Reprofiled(row, sent) == IF sent THEN [row EXCEPT !.cvProfile = "bdjobs"] ELSE row

(* A resend; the same payload again changes nothing. *)
RefreshExisting(r) ==
  LET n == req[r].row
      was == req[r].was
  IN \E same, cv, link \in BOOLEAN, email \in Emails :
       /\ At(r, "receive") /\ n # 0
       /\ rows' = IF same THEN rows
                  ELSE [rows EXCEPT ![n] = Relinked(was, Backfilled(was, Reprofiled(@, cv), email), link)]
       /\ Done(r, n)
       /\ UNCHANGED <<folder, uploads, processed, registry, asks, inTurn>>

-----------------------------------------------------------------------------
(* Red flags *)

(* The row and the registry, in one transaction. *)
FlagCandidate ==
  \E n \in DOMAIN rows :
    /\ asks < MaxAsks /\ asks' = asks + 1
    /\ rows' = [rows EXCEPT ![n].flagged = TRUE]
    /\ registry' = (registry \/ rows[n].email = "own")
    /\ Stays(registry \/ \A r \in Requests : ~(At(r, "create") /\ req[r].was.email = "own"))
    /\ UNCHANGED <<folder, uploads, processed, req>>

(* The registry keeps the address. *)
UnflagCandidate ==
  \E n \in DOMAIN rows :
    /\ rows[n].flagged
    /\ asks < MaxAsks /\ asks' = asks + 1
    /\ rows' = [rows EXCEPT ![n].flagged = FALSE]
    /\ UNCHANGED <<folder, uploads, processed, registry, req, inTurn>>

-----------------------------------------------------------------------------
(* The process restarts: what was in flight is lost, what was written stays. *)
Restart ==
  /\ \E r \in Requests : ~At(r, "none")
  /\ req' = [r \in Requests |-> Idle]
  /\ UNCHANGED <<rows, folder, uploads, processed, registry, asks, inTurn>>

Init ==
  /\ rows = << >> /\ folder = {} /\ uploads = 0 /\ processed = {}
  /\ registry \in BOOLEAN
  /\ req = [r \in Requests |-> Idle]
  /\ asks = 0 /\ inTurn = TRUE

Next ==
  \/ Update \/ FlagCandidate \/ UnflagCandidate \/ Restart
  \/ \E r \in Requests :
       \/ Ingest(r)           \/ MatchRequisition(r)  \/ MarkProcessed(r)  \/ SaveProcessedId(r)
       \/ PublicApply(r)      \/ Create(r)            \/ UploadCv(r)
       \/ UploadFile(r)       \/ UploadFails(r)
       \/ CheckRegistry(r)    \/ CommitCreate(r)      \/ CommitUpload(r)
       \/ Remove(r)           \/ CommitRemove(r)
       \/ SyncFromDrive(r)    \/ Compare(r)           \/ CommitImport(r)
       \/ EnsureCvProfile(r)  \/ CommitRead(r)        \/ RunScreen(r)      \/ CommitScreen(r)
       \/ ReceiveCandidate(r) \/ CommitCreateBdjobs(r) \/ RefreshExisting(r)

Spec == Init /\ [][Next]_vars

-----------------------------------------------------------------------------
(* Properties *)

(* As long as two scans of the inbox do not overlap and nobody changes the address of
   a candidate who mailed, one sender's mails make one candidate of the requisition,
   whatever is scanned again after a crash, and whoever was removed (importEmailedCv,
   markProcessed). *)
MailOnce == inTurn => Cardinality({n \in DOMAIN rows : rows[n].source = "email"}) <= 1

(* As long as no CV was between its upload and its row when the folder was synced, no
   two candidates of the requisition stand for the same CV (syncFromDrive, create,
   publicApply, uploadCv, remove). *)
FileOnce ==
  inTurn => \A m, n \in DOMAIN rows :
              rows[m].live /\ rows[n].live /\ rows[m].cvFile = rows[n].cvFile /\ rows[m].cvFile # 0
                => m = n

(* Whatever comes in again makes no second candidate. *)
OneCandidateEach == MailOnce /\ FileOnce

(* r ends by writing row n, and nobody has written it since r read it. *)
Writes(r, n) == req[r].row = n /\ req[r].fresh /\ ~At(r, "none") /\ req'[r].step = "none"

(* What a person has typed in as the address is replaced by no reading of a CV and by
   no resend from Bdjobs, unless it was typed after they had read the row
   ("never overwrite details entered by a person"). *)
AddressStands ==
  [][\A r \in Requests, n \in DOMAIN rows :
       Writes(r, n) /\ rows[n].typed => rows'[n].email = rows[n].email]_vars

(* The CV of a Bdjobs applicant stays theirs: a reading never replaces the profile
   Bdjobs sent, and a resend never hides the file HR has uploaded, unless that
   happened after they had read the row (ensureCvProfile, refreshUpdate). *)
CvStands ==
  [][\A r \in Requests, n \in DOMAIN rows :
       Writes(r, n) => /\ rows[n].cvProfile = "bdjobs" => rows'[n].cvProfile = "bdjobs"
                       /\ rows[n].opens = "file" => rows'[n].opens = "file"]_vars

(* Whoever applies on the careers page or is entered with an address in the red-flag
   registry is flagged from the first, unless the flag was raised between the look
   and the row ("so future applications auto-flag"). *)
FlaggedAgain ==
  [][\A n \in DOMAIN rows' :
       n > Len(rows) /\ registry /\ inTurn /\ rows'[n].source \in {"application", "upload"}
         /\ rows'[n].email = "own" => rows'[n].flagged]_vars

(* What a person or the applicant gave, and what HR has put in the registry, stands *)
(* against whatever is read automatically or comes in again.                        *)
GivenStands == AddressStands /\ CvStands /\ FlaggedAgain

(* Who comes in, once, and as they were given. *)
IntakeStands == []OneCandidateEach /\ GivenStands
=============================================================================
