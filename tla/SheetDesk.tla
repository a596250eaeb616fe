------------------------------ MODULE SheetDesk ------------------------------
(***************************************************************************)
(* What lies around the sheets of ApprovalSheets (board.service): the links *)
(* one candidate's own row carries, which are answered in a chain of their  *)
(* own (submitVote, openStage); the desk of Head of Talent Acquisition and  *)
(* the cells corrected there; what is mailed, shown and exported.           *)
(*                                                                          *)
(* A chain of links is one that was begun before sheets were introduced;    *)
(* nothing begins one any more.  The sheet's own steps are those of         *)
(* ApprovalSheets, with what each does to the rest.  A link past its sixty  *)
(* days is one nobody answers.  The salary, which is shown as it stands, is *)
(* in SalaryFixation; where it has been reopened, or nobody holds the next  *)
(* role, the next link is not opened, which is `FailDesk`.                  *)
(***************************************************************************)
EXTENDS ApprovalSheets

LOCAL INSTANCE SequencesExt

CONSTANTS
  Heads,     \* who holds Head of Talent Acquisition
  Supers,    \* those of them who are super users
  Begun,     \* the chains under way at first: no row, or a row at a stage
  Errands    \* bound: how many requests of each kind are made

Asked == {"request", "override", "sheet", "answer", "link", "edit", "read"}

ASSUME HeadsAssumption == Supers \subseteq Heads /\ Heads \cap Users = {}
ASSUME BegunAssumption == Begun \subseteq {"none", "corporate_hr", "chro", "board"}
ASSUME ErrandsAssumption == Errands \subseteq [Asked -> Nat]

VARIABLES
  forms,    \* the rest of each row: its stage, the Head and board it names, its cells
  links,    \* votes cast on one row, the deleted ones kept as "deleted"
  cv,       \* what is known of the candidate from the CV
  makers,   \* who made each sheet
  mailed,   \* history: the cells mailed with each vote of a sheet
  desk,     \* what each request in flight on a link, or a cell, remembers
  former,   \* history: the answers each row had when it was last asked for, and
            \*          whether every request that deleted its links came to reset it
  inStep,   \* history: no request for approval came upon a row another had taken up
  errands   \* history: how many more requests are made

own == <<forms, links, cv, makers, mailed, desk, former, inStep, errands>>
allvars == <<vars, own>>

-----------------------------------------------------------------------------
(* Values *)

Unset == "unset"
LinkStages == {"corporate_hr", "chro", "board"}

(* A cell is what HR typed, what the applicant filled in, or what was read in a CV. *)
Columns == {"education", "experience"}
Sources == {"typed", "profile", "extract"}
Cells == [Columns -> {"typed", Unset}]

Form == [stage : LinkStages, head : Heads \cup {Unset}, board : SUBSET Members, cells : Cells]

Link == [row : Nat, user : Users \cup Heads, stage : LinkStages,
         status : Outcomes \cup {"deleted"}]

Errand(kind) == errands[kind] > 0 /\ errands' = [errands EXCEPT ![kind] = @ - 1]

(* `read` is the sheet's rows as they were read for the mails. *)
Memory == [at : {"none", "claim", "reject", "complete", "stage", "clear", "issue", "edit",
                  "reset"},
           link : Nat, row : Nat, stage : LinkStages, decision : Decisions, to : SUBSET Users,
           cells : Cells, user : Heads \cup {Unset},
           read : UNION {[d -> [Columns -> Sources \cup {Unset}]] : d \in SUBSET (1..Len(rows))}]

Blank == [c \in Columns |-> Unset]

Quiet == [at |-> "none", link |-> 0, row |-> 0, stage |-> "chro", decision |-> "approved",
          to |-> {}, cells |-> Blank, user |-> Unset, read |-> << >>]

(* No request before this one. *)
Never == [links |-> {}, votes |-> {}, reset |-> TRUE]

DeskTypeOK ==
  /\ forms \in Seq(Form) /\ Len(forms) = Len(rows)
  /\ links \in Seq(Link)
  /\ cv \in [Candidates -> [profile : BOOLEAN, extract : BOOLEAN]]
  /\ \A s \in DOMAIN makers : makers[s] \in Heads
  /\ desk \in [Requests -> Memory]
  /\ DOMAIN former = DOMAIN rows

Free(r) == At(r, "none") /\ desk[r].at = "none"

-----------------------------------------------------------------------------
(* Reading *)

(* HR's correction first, then what the applicant filled in; only the education *)
(* falls back on what was read in a CV.                                         *)
Shown(i, column) ==
  LET known == cv[rows[i].cand]
  IN  CASE forms[i].cells[column] # Unset -> "typed"
        [] forms[i].cells[column] = Unset /\ known.profile -> "profile"
        [] forms[i].cells[column] = Unset /\ ~known.profile /\ known.extract
             /\ column = "education" -> "extract"
        [] OTHER -> Unset

SheetRow(i) == [column \in Columns |-> Shown(i, column)]

(* The desk of one Head; a super user's holds everybody's. *)
HrInbox(u) ==
  {i \in DOMAIN rows : /\ Waiting(i) /\ forms[i].stage = "corporate_hr"
                       /\ u \in Supers \/ forms[i].head \in {u, Unset}}

ListSheets(u) == {s \in DOMAIN sheets : u \in Supers \/ makers[s] = u}

OwnLinks(i) == {l \in DOMAIN links : links[l].row = i /\ links[l].status # "deleted"}

SheetVotes(i) == {v \in DOMAIN votes : votes[v].sheet = rows[i].sheet /\ votes[v].sheet # 0
                                       /\ votes[v].status # "deleted"}

(* A row's own links and those of the sheet it is on. *)
GetApprovalStatus(i) == [links |-> OwnLinks(i), votes |-> SheetVotes(i)]

(* What a sheet's link shows, answered or not. *)
GetSheetVoteInfo(v) == [i \in OnSheet(votes[v].sheet) |-> SheetRow(i)]

(* The papers a link opens: only until it is answered. *)
StreamSheetCv(v) == IF votes[v].status = "pending" THEN OnSheet(votes[v].sheet) ELSE {}

StreamVoteCv(l) == IF links[l].status = "pending" THEN {links[l].row} ELSE {}

SheetDetail(s) ==
  [rows |-> [i \in OnSheet(s) |-> SheetRow(i)],
   votes |-> {v \in DOMAIN votes : votes[v].sheet = s /\ votes[v].status # "deleted"}]

(* The workbook: a numbered line for each row, oldest first, and the trail of answers. *)
ExportSheet(s) ==
  LET detail == SheetDetail(s)
      order == SetToSortSeq(DOMAIN detail.rows, <)
  IN  [lines |-> [n \in DOMAIN order |-> detail.rows[order[n]]], trail |-> detail.votes]

-----------------------------------------------------------------------------
(* The sheet's steps, with what they do to the rest *)

(* What was typed stays; the chain starts over at Head of Talent Acquisition. *)
Afresh(form) == [form EXCEPT !.stage = "corporate_hr", !.head = Unset, !.board = {}]

NewForm == [stage |-> "corporate_hr", head |-> Unset, board |-> {}, cells |-> Blank]

(* Variant: the links of the request before stay. *)
KeepLinks(l, gone) == l

(* The links of the request before are deleted. *)
Deleted(l, gone) == IF l.row \in gone THEN [l EXCEPT !.status = "deleted"] ELSE l

AskFor(r) ==
  /\ Free(r) /\ Errand("request")
  /\ SendForApproval(r)
  /\ UNCHANGED <<forms, links, cv, makers, mailed, desk, former, inStep>>

(* Two writes, and no transaction around them: a request may die, and others run,
   between the links and the row. *)
RemoveLinks(r) ==
  LET again == req[r].rows
  IN /\ At(r, "request") /\ again # {} /\ desk[r].at = "none"
     /\ links' = [l \in DOMAIN links |-> Deleted(links[l], again)]
     /\ desk' = [desk EXCEPT ![r].at = "reset"]
     /\ former' = [i \in DOMAIN former |->
                     [former[i] EXCEPT !.reset = @ /\ i \notin again]]
     /\ inStep' = (inStep /\ \A i \in again : Requestable(i))
     /\ UNCHANGED <<vars, forms, cv, makers, mailed, errands>>

Record(r) ==
  LET again == req[r].rows
  IN /\ again # {} => desk[r].at = "reset"
     /\ CommitRequest(r)
     /\ forms' = IF again = {} THEN Append(forms, NewForm)
                 ELSE [i \in DOMAIN forms |-> IF i \in again THEN Afresh(forms[i]) ELSE forms[i]]
     /\ former' = IF again = {} THEN Append(former, Never)
                  ELSE [i \in DOMAIN former |->
                          IF i \in again
                          THEN [links |-> DOMAIN links, votes |-> DOMAIN votes, reset |-> TRUE]
                          ELSE former[i]]
     /\ inStep' = (inStep /\ \A i \in again : Requestable(i))
     /\ desk' = [desk EXCEPT ![r] = Quiet]
     /\ UNCHANGED <<links, cv, makers, mailed, errands>>

OverrideByHr(r) ==
  /\ Free(r) /\ Errand("override")
  /\ HrApprove(r)
  /\ UNCHANGED <<forms, links, cv, makers, mailed, desk, former, inStep>>

RecordOverride(r) ==
  /\ CommitOverride(r)
  /\ IF req[r].rows = {}
     THEN /\ forms' = Append(forms, [NewForm EXCEPT !.stage = "board"])
          /\ former' = Append(former, Never)
     ELSE UNCHANGED <<forms, former>>
  /\ UNCHANGED <<links, cv, makers, mailed, desk, inStep, errands>>

Make(r) ==
  \E u \in Heads :
    /\ Free(r) /\ Errand("sheet")
    /\ SendSheet(r)
    /\ desk' = [desk EXCEPT ![r] = [Quiet EXCEPT !.user = u]]
    /\ UNCHANGED <<forms, links, cv, makers, mailed, former, inStep>>

RecordSheet(r) ==
  /\ CreateSheet(r)
  /\ makers' = Append(makers, desk[r].user)
  /\ UNCHANGED <<forms, links, cv, mailed, desk, former, inStep, errands>>

AtStage(these, stage) ==
  [i \in DOMAIN forms |-> IF i \in these THEN [forms[i] EXCEPT !.stage = stage] ELSE forms[i]]

Place(r) ==
  /\ PlaceRows(r)
  /\ forms' = AtStage(req[r].rows, "chro")
  /\ UNCHANGED <<links, cv, makers, mailed, desk, former, inStep, errands>>

(* The rows are read once, for all the mails of the stage. *)
Turn(r) ==
  /\ OpenStage(r)
  /\ forms' = AtStage(OnSheet(req[r].sheet), req[r].stage)
  /\ desk' = [desk EXCEPT ![r].read = [i \in OnSheet(req[r].sheet) |-> SheetRow(i)]]
  /\ UNCHANGED <<links, cv, makers, mailed, former, inStep, errands>>

MailLink(r) ==
  /\ IssueLink(r)
  /\ IF req[r].to = {}
     THEN desk' = [desk EXCEPT ![r] = Quiet] /\ UNCHANGED mailed
     ELSE mailed' = Append(mailed, desk[r].read) /\ UNCHANGED desk
  /\ UNCHANGED <<forms, links, cv, makers, former, inStep, errands>>

AnswerSheet(r) ==
  /\ Free(r) /\ Errand("answer")
  /\ SubmitSheetVote(r)
  /\ UNCHANGED <<forms, links, cv, makers, mailed, desk, former, inStep>>

(* These leave the rest alone. *)
GoOn(r) ==
  /\ ClearPending(r) \/ ClaimVote(r) \/ DecideSheet(r) \/ SpreadDecision(r)
  /\ UNCHANGED own

FailSheet(r) ==
  /\ Fail(r)
  /\ desk' = [desk EXCEPT ![r] = Quiet]
  /\ UNCHANGED <<forms, links, cv, makers, mailed, former, inStep, errands>>

-----------------------------------------------------------------------------
(* The links of one row *)

SubmitVote(r) ==
  \E l \in DOMAIN links, d \in Decisions :
    /\ Free(r) /\ Errand("link")
    /\ links[l].status = "pending"
    /\ desk' = [desk EXCEPT ![r] = [Quiet EXCEPT !.at = "claim", !.link = l, !.decision = d,
                                                 !.row = links[l].row]]
    /\ UNCHANGED <<vars, forms, links, cv, makers, mailed, former, inStep>>

NextStage(stage) == IF stage = "corporate_hr" THEN "chro" ELSE "board"

(* A rejection ends the chain; an approval hands on, or at the board completes it. *)
AfterClaim(r) ==
  LET stage == links[desk[r].link].stage
  IN CASE desk[r].decision = "rejected" -> [desk[r] EXCEPT !.at = "reject"]
       [] desk[r].decision = "approved" /\ stage = "board" -> [desk[r] EXCEPT !.at = "complete"]
       [] OTHER -> [desk[r] EXCEPT !.at = "stage", !.stage = NextStage(stage)]

ClaimLink(r) ==
  LET l == desk[r].link
  IN /\ desk[r].at = "claim"
     /\ IF links[l].status = "pending"
        THEN /\ links' = [links EXCEPT ![l].status = desk[r].decision]
             /\ desk' = [desk EXCEPT ![r] = AfterClaim(r)]
        ELSE desk' = [desk EXCEPT ![r] = Quiet] /\ UNCHANGED links
     /\ UNCHANGED <<vars, forms, cv, makers, mailed, former, inStep, errands>>

(* What was answered is still what is asked. *)
StillAsked(r) ==
  links[desk[r].link].status # "deleted" /\ Waiting(desk[r].row)

DecideRow(r) ==
  /\ desk[r].at \in {"reject", "complete"}
  /\ rows' = [rows EXCEPT ![desk[r].row] = [@ EXCEPT !.status = desk[r].decision, !.by = "link"]]
  /\ Stays(StillAsked(r))
  /\ desk' = [desk EXCEPT ![r] = Quiet]
  /\ UNCHANGED <<sheets, votes, req, resends>>
  /\ UNCHANGED <<forms, links, cv, makers, mailed, former, inStep, errands>>

(* openStage: the stage, then the stale links, then a link each. *)
OpenLinkStage(r) ==
  LET i == desk[r].row
      to == IF desk[r].stage = "board" THEN forms[i].board ELSE {Chro}
  IN /\ desk[r].at = "stage"
     /\ Stays(StillAsked(r))
     /\ IF to = {}
        THEN desk' = [desk EXCEPT ![r] = Quiet] /\ UNCHANGED forms
        ELSE /\ forms' = AtStage({i}, desk[r].stage)
             /\ desk' = [desk EXCEPT ![r] = [@ EXCEPT !.at = "clear", !.to = to]]
     /\ UNCHANGED <<rows, sheets, votes, req, resends>>
     /\ UNCHANGED <<links, cv, makers, mailed, former, inStep, errands>>

ClearLinks(r) ==
  /\ desk[r].at = "clear"
  /\ links' = [l \in DOMAIN links |->
                 IF links[l].row = desk[r].row /\ links[l].stage = desk[r].stage
                      /\ links[l].status = "pending"
                 THEN [links[l] EXCEPT !.status = "deleted"] ELSE links[l]]
  /\ desk' = [desk EXCEPT ![r].at = "issue"]
  /\ UNCHANGED <<vars, forms, cv, makers, mailed, former, inStep, errands>>

IssueOwnLink(r) ==
  /\ desk[r].at = "issue"
  /\ IF desk[r].to = {}
     THEN desk' = [desk EXCEPT ![r] = Quiet] /\ UNCHANGED <<links, inTurn>>
     ELSE \E u \in desk[r].to :
            /\ links' = Append(links, [row |-> desk[r].row, user |-> u, stage |-> desk[r].stage,
                                       status |-> "pending"])
            /\ desk' = [desk EXCEPT ![r].to = @ \ {u}]
            /\ Stays(StillAsked(r))
  /\ UNCHANGED <<rows, sheets, votes, req, resends>>
  /\ UNCHANGED <<forms, cv, makers, mailed, former, inStep, errands>>

(* Refused or dead on the way; an answer already claimed is then carried no further. *)
FailDesk(r) ==
  /\ desk[r].at \in MayDie
  /\ Stays(desk[r].at \in {"claim", "edit"})
  /\ desk' = [desk EXCEPT ![r] = Quiet]
  /\ UNCHANGED <<rows, sheets, votes, req, resends>>
  /\ UNCHANGED <<forms, links, cv, makers, mailed, former, inStep, errands>>

-----------------------------------------------------------------------------
(* The cells *)

(* Only while the candidate is on no sheet. *)
Editable(i) == rows[i].sheet = 0

UpdateSheetRow(r) ==
  \E i \in DOMAIN rows, cells \in Cells :
    /\ Free(r) /\ Errand("edit") /\ Editable(i)
    /\ desk' = [desk EXCEPT ![r] = [Quiet EXCEPT !.at = "edit", !.row = i, !.cells = cells]]
    /\ UNCHANGED <<vars, forms, links, cv, makers, mailed, former, inStep>>

CommitCells(r) ==
  LET i == desk[r].row
  IN /\ desk[r].at = "edit"
     /\ forms' = [forms EXCEPT ![i].cells = desk[r].cells]
     /\ Stays(Editable(i))
     /\ desk' = [desk EXCEPT ![r] = Quiet]
     /\ UNCHANGED <<rows, sheets, votes, req, resends>>
     /\ UNCHANGED <<links, cv, makers, mailed, former, inStep, errands>>

(* The candidate's CV is read, or filled in on Bdjobs. *)
ReadCv ==
  \E c \in Candidates, known \in [profile : BOOLEAN, extract : BOOLEAN] :
    /\ Errand("read") /\ known # cv[c]
    /\ cv' = [cv EXCEPT ![c] = known]
    /\ UNCHANGED <<vars, forms, links, makers, mailed, desk, former, inStep>>

-----------------------------------------------------------------------------
(* Specification *)

(* The links of a chain that has come to the Head, or past the Head to the CHRO. *)
LinksOf(stage, head) ==
  LET first == [row |-> 1, user |-> head, stage |-> "corporate_hr", status |-> "pending"]
  IN IF stage = "corporate_hr" THEN <<first>>
     ELSE <<[first EXCEPT !.status = "approved"],
            [row |-> 1, user |-> Chro, stage |-> "chro", status |-> "pending"]>>

DeskInit ==
  \E stage \in Begun, c \in Candidates, head \in Heads :
    LET none == stage = "none"
    IN /\ rows = IF none THEN << >> ELSE <<FreshRow(c)>>
       /\ forms = IF none THEN << >>
                  ELSE <<[NewForm EXCEPT !.stage = stage, !.head = head, !.board = Members]>>
       /\ links = IF none THEN << >> ELSE LinksOf(stage, head)
       /\ former = IF none THEN << >> ELSE <<Never>>
       /\ sheets = << >> /\ votes = << >> /\ makers = << >> /\ mailed = << >>
       /\ req = [r \in Requests |-> Idle]
       /\ desk = [r \in Requests |-> Quiet]
       /\ cv = [d \in Candidates |-> [profile |-> FALSE, extract |-> FALSE]]
       /\ resends = 0 /\ inTurn = TRUE /\ inStep = TRUE
       /\ errands \in Errands

DeskStep(r) ==
  \/ AskFor(r) \/ RemoveLinks(r) \/ Record(r) \/ OverrideByHr(r) \/ RecordOverride(r)
  \/ Make(r) \/ RecordSheet(r) \/ Place(r) \/ Turn(r) \/ MailLink(r)
  \/ AnswerSheet(r) \/ GoOn(r) \/ FailSheet(r)
  \/ SubmitVote(r) \/ ClaimLink(r) \/ DecideRow(r)
  \/ OpenLinkStage(r) \/ ClearLinks(r) \/ IssueOwnLink(r) \/ FailDesk(r)
  \/ UpdateSheetRow(r) \/ CommitCells(r)

DeskNext == (\E r \in Requests : DeskStep(r)) \/ ReadCv

DeskSpec == DeskInit /\ [][DeskNext]_allvars

-----------------------------------------------------------------------------
(* Properties *)

Answered(of, stage, d) == \E l \in of : links[l].stage = stage /\ links[l].status = d

(* A row's own links follow the chain, and it is decided by them only as they say, *)
(* unless a request has deleted them and not come to the row: a crash between the   *)
(* two leaves it decided by nobody until it is asked for again.                     *)
LinksInOrder ==
  \A i \in DOMAIN rows :
    LET mine == OwnLinks(i)
    IN /\ \A l \in mine :
            /\ links[l].stage = "chro" => Answered(mine, "corporate_hr", "approved")
            /\ links[l].stage = "board" => Answered(mine, "chro", "approved")
       /\ rows[i].by = "link" /\ former[i].reset =>
            IF rows[i].status = "approved" THEN Answered(mine, "board", "approved")
            ELSE \E stage \in LinkStages : Answered(mine, stage, "rejected")

(* What is shown of a request is its own: no answer to the one before counts as its *)
(* progress, and a candidate a sheet approved is shown with the signatures for it.  *)
ProgressIsOwn ==
  \A i \in DOMAIN rows :
    LET shown == GetApprovalStatus(i)
    IN /\ shown.links \cap former[i].links = {} /\ shown.votes \cap former[i].votes = {}
       /\ rows[i].status = "approved" /\ rows[i].by = "sheet" =>
            \A stage \in Stages : \E v \in shown.votes \cap ExportSheet(rows[i].sheet).trail :
              votes[v].stage = stage /\ votes[v].status = "approved"

(* A candidate who waits is on somebody's desk, on a sheet its maker sees, at the other *)
(* end of a live link, or about to be, with the same exception: past the Head, a row    *)
(* whose links are gone is on no desk until it is asked for again.                      *)
NobodyStranded ==
  \A i \in DOMAIN rows : rows[i].status = "pending" /\ former[i].reset =>
    \/ \E u \in Heads : i \in HrInbox(u) \/ rows[i].sheet \in ListSheets(u)
    \/ \E l \in OwnLinks(i) : i \in StreamVoteCv(l)
    \/ \E r \in Requests : desk[r].row = i

(* Everybody who is asked about a sheet is mailed the same rows with the same           *)
(* corrections, the link opens their papers and no others, and the page shows them so.  *)
MailedStands ==
  \A v \in DOMAIN votes :
   votes[v].status # "deleted" /\ sheets[votes[v].sheet].status = "pending" =>
    /\ DOMAIN mailed[v] = DOMAIN GetSheetVoteInfo(v)
    /\ votes[v].status = "pending" => StreamSheetCv(v) = DOMAIN mailed[v]
    /\ Len(ExportSheet(votes[v].sheet).lines) = Cardinality(DOMAIN mailed[v])
    /\ \A i \in DOMAIN mailed[v], column \in Columns :
         (mailed[v][i][column] = "typed") = (GetSheetVoteInfo(v)[i][column] = "typed")

(* All of this, as long as every write lands on what its handler had read. *)
DeskStands ==
  inTurn /\ inStep => LinksInOrder /\ ProgressIsOwn /\ NobodyStranded /\ MailedStands
=============================================================================
