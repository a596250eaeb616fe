------------------------- MODULE MCApprovalSheets -------------------------
(***************************************************************************)
(* Two requests in flight at a time and a board of two: two answers to one *)
(* sheet, an answer and a resend, two sheets after the same candidate, two *)
(* candidates on one sheet.                                                *)
(*                                                                         *)
(* One run tells two stories, and `story` says which.  In "sheets" the     *)
(* requests are those of ApprovalSheets, without a bound on how many are   *)
(* made, as they are in the runs of that module alone.                     *)
(*                                                                         *)
(* In "desk" five plans bound them: a whole chain of links with a request  *)
(* beside it; two answers beside HR's own approval; two answers while the  *)
(* row is put on a sheet; a request beside a sheet that is answered twice; *)
(* and cells corrected while a sheet is made of the row.                   *)
(***************************************************************************)
EXTENDS ApprovalSheets, SheetDesk, TLC

CONSTANTS r1, r2, m1, m2, c1, c2, chro

TwoRequests == {r1, r2}
TwoMembers == {m1, m2}
OneMember == {m1}
TwoCandidates == {c1, c2}
OneCandidate == {c1}

Plan(request, override, sheet, answer, link, edit, read) ==
  [k \in Asked |-> CASE k = "request" -> request [] k = "override" -> override
                     [] k = "sheet" -> sheet [] k = "answer" -> answer [] k = "link" -> link
                     [] k = "edit" -> edit [] k = "read" -> read]

MCErrands ==
  {Plan(1, 0, 0, 0, 3, 0, 0), Plan(1, 1, 0, 0, 2, 0, 0), Plan(0, 0, 1, 1, 2, 0, 0),
   Plan(1, 0, 1, 2, 0, 0, 0), Plan(1, 0, 1, 1, 0, 1, 1)}

VARIABLE story

(* In "sheets" nothing around the sheets is followed, which `inStep` says. *)
Unfollowed ==
  /\ forms = << >> /\ links = << >> /\ makers = << >> /\ mailed = << >> /\ former = << >>
  /\ cv = [c \in Candidates |-> [profile |-> FALSE, extract |-> FALSE]]
  /\ desk = [r \in Requests |-> Quiet]
  /\ errands = Plan(0, 0, 0, 0, 0, 0, 0)
  /\ inStep = FALSE

SheetsInit == story = "sheets" /\ Init /\ Unfollowed

StoriesInit ==
  \/ SheetsInit
  \/ story = "desk" /\ DeskInit

StoriesNext ==
  \/ story = "sheets" /\ Next /\ UNCHANGED <<own, story>>
  \/ story = "desk" /\ DeskNext /\ UNCHANGED story

Stories == StoriesInit /\ [][StoriesNext]_<<allvars, story>>

(* The sheets alone, and with every request answered in the end. *)
SheetsAlone == SheetsInit /\ [][Next /\ UNCHANGED <<own, story>>]_<<allvars, story>>

SheetsFairly == SheetsAlone /\ Fairness

Symmetric == Permutations(Requests) \cup Permutations(Members) \cup Permutations(Candidates)
===========================================================================
