------------------------------ MODULE Stewards ------------------------------
(***************************************************************************)
(* Who looks after one requisition while people are away: its recruiter,   *)
(* the colleague standing in during the recruiter's leave, and the Factory *)
(* HR whose turn it is to write the job analysis (leave.service.ts,        *)
(* permissions.service.ts, requisition.service.ts).                        *)
(*                                                                         *)
(* A leave is a dated row.  It stops counting by itself when its date      *)
(* passes, and at once when its owner ends it; the set of people away is   *)
(* remembered by the process for half a minute.  `req` holds where each    *)
(* request in flight has come to.                                          *)
(*                                                                         *)
(* Left out: the head office roles, which open every requisition of the    *)
(* unit; users without any role; the requisition's raiser and approvers,   *)
(* who open their own business whoever is away.                            *)
(***************************************************************************)
EXTENDS Integers, Sequences, FiniteSets

CONSTANTS
  Requests,      \* requests the API process can serve at the same time
  Recruiters,    \* holders of the corporate recruiter role
  Analysts,      \* the unit's Factory HR
  MaxLeaves,     \* bound: leaves taken
  MaxMoves       \* bound: leaves begun or ended, recruiters assigned

People == Recruiters \cup Analysts

ASSUME RolesAssumption == Recruiters \cap Analysts = {}
ASSUME MovesAssumption == MaxLeaves \in Nat /\ MaxMoves \in Nat

VARIABLES
  stage,        \* how far the requisition has come
  author,       \* Requisition.jobAnalysisById: at most one person
  sourced,      \* whether the CV collection sources are ticked
  recruiter,    \* Requisition.recruiterId: at most one person
  cover,        \* the stand-in, and the leave it is for: at most one
  leaves,       \* LeavePeriod rows in the order they were created
  remembered,   \* the answer to who is away, when the process has it
  req,          \* where each request in flight has come to
  moves,        \* history: leaves begun or ended, recruiters assigned
  inTurn        \* history: no request was overtaken by another

vars == <<stage, author, sourced, recruiter, cover, leaves, remembered, req,
          moves, inTurn>>

-----------------------------------------------------------------------------
(* Values *)

Stages == {"analysis", "approval", "approved", "posted"}

Optional(S) == {{}} \cup {{x} : x \in S}

(* A leave until further notice is one whose last day never comes. *)
Leave == [who : People, past : BOOLEAN, over : BOOLEAN]
Cover == [who : People, leave : 1 .. MaxLeaves]

Steps == {"none", "create", "invalidate", "look", "cover", "commitCover",
          "commitEnd", "commitAssign", "store"}

(* `choice` is who was picked: to stand in, or to recruit. *)
Request == [step : Steps, who : Optional(People),
            choice : Optional(People), leave : 0 .. MaxLeaves, saw : SUBSET People,
            fresh : BOOLEAN]   \* history

Idle == [step |-> "none", who |-> {}, choice |-> {}, leave |-> 0, saw |-> {}, fresh |-> TRUE]

StewardsOK ==
  /\ stage \in Stages
  /\ author \in Optional(People)
  /\ sourced \in BOOLEAN
  /\ recruiter \in Optional(People)
  /\ cover \in Optional(Cover)
  /\ leaves \in Seq(Leave)
  /\ remembered \in Optional(SUBSET People)
  /\ req \in [Requests -> Request]
  /\ moves \in Nat
  /\ inTurn \in BOOLEAN

-----------------------------------------------------------------------------
(* Who is away *)

At(r, step) == req[r].step = step

Active(l) == ~leaves[l].over /\ ~leaves[l].past

ActiveLeaves == {l \in DOMAIN leaves : Active(l)}
Away == {leaves[l].who : l \in ActiveLeaves}

(* activePeriod: the leave of p that counts, the latest of them. *)
ActivePeriod(p) == {l \in ActiveLeaves : leaves[l].who = p
                      /\ \A m \in ActiveLeaves : leaves[m].who = p => m <= l}

(* What routing is told: what the process remembers, or else the rows. *)
OnLeave == IF remembered = {} THEN Away ELSE UNION remembered

(* Every look at the rows that is under way has read what is past. *)
Overtaken == [q \in Requests |-> IF At(q, "store") \/ At(q, "cover")
                                   THEN [req[q] EXCEPT !.fresh = FALSE] ELSE req[q]]

Stays(condition) == inTurn' = (inTurn /\ condition)

(* Routing asks who is away, and the process does not know. *)
LookAway(r) ==
  /\ At(r, "none") /\ remembered = {}
  /\ req' = [req EXCEPT ![r] = [Idle EXCEPT !.step = "store", !.saw = Away]]
  /\ UNCHANGED <<stage, author, sourced, recruiter, cover, leaves, remembered,
                 moves, inTurn>>

(* wrap stores what was read, whether or not it was invalidated meanwhile. *)
StoreAway(r) ==
  /\ At(r, "store")
  /\ remembered' = {req[r].saw}
  /\ req' = [req EXCEPT ![r] = Idle]
  /\ Stays(req[r].fresh)
  /\ UNCHANGED <<stage, author, sourced, recruiter, cover, leaves, moves>>

(* The half minute is over. *)
ForgetAway ==
  /\ remembered # {}
  /\ remembered' = {}
  /\ UNCHANGED <<stage, author, sourced, recruiter, cover, leaves, req, moves, inTurn>>

(* The last day of a leave is over: nothing runs, the row stops matching. *)
Lapse ==
  \E l \in ActiveLeaves :
    /\ leaves' = [leaves EXCEPT ![l].past = TRUE]
    /\ UNCHANGED <<stage, author, sourced, recruiter, cover, remembered, req,
                   moves, inTurn>>

-----------------------------------------------------------------------------
(* Going on leave, and coming back *)

Ask(r, request) ==
  /\ At(r, "none")
  /\ moves < MaxMoves /\ moves' = moves + 1
  /\ req' = [req EXCEPT ![r] = request]

StartLeave(r) ==
  \E p \in People, choice \in Optional(People) :
    /\ ActivePeriod(p) = {}
    /\ choice # {} => p \in Recruiters
    /\ Ask(r, [Idle EXCEPT !.step = "create", !.who = {p}, !.choice = choice])
    /\ UNCHANGED <<stage, author, sourced, recruiter, cover, leaves, remembered, inTurn>>

CreateLeave(r) ==
  /\ At(r, "create")
  /\ Len(leaves) < MaxLeaves
  /\ \E p \in req[r].who :
       /\ leaves' = Append(leaves, [who |-> p, past |-> FALSE, over |-> FALSE])
       /\ Stays(p \notin Away)
  /\ req' = [req EXCEPT ![r].step = "invalidate", ![r].leave = Len(leaves')]
  /\ UNCHANGED <<stage, author, sourced, recruiter, cover, remembered, moves>>

(* After a leave started or ended the process forgets who is away.  No job
   analysis is addressed to one person any more, so none is moved on; the
   requisition is handed over if a stand-in was picked. *)
InvalidateLeave(r) ==
  /\ At(r, "invalidate")
  /\ remembered' = {}
  /\ req' = [Overtaken EXCEPT ![r] = IF req[r].choice = {} THEN Idle
                                       ELSE [req[r] EXCEPT !.step = "look"]]
  /\ UNCHANGED <<stage, author, sourced, recruiter, cover, leaves, moves, inTurn>>

ReadAway(r) ==
  /\ At(r, "look")
  /\ req' = [req EXCEPT ![r] = [@ EXCEPT !.step = "cover", !.saw = OnLeave, !.fresh = TRUE]]
  /\ UNCHANGED <<stage, author, sourced, recruiter, cover, leaves, remembered,
                 moves, inTurn>>

(* applyCovers refuses a requisition that is not one's own, oneself, somebody
   without the role and somebody away: the leave stands all the same. *)
MayHandOver(r) ==
  /\ recruiter = req[r].who
  /\ req[r].choice \cap (Recruiters \ (req[r].saw \cup req[r].who)) # {}

CheckCover(r) ==
  /\ At(r, "cover")
  /\ remembered' = IF remembered = {} THEN {req[r].saw} ELSE remembered
  /\ req' = [req EXCEPT ![r] = IF MayHandOver(r) THEN [@ EXCEPT !.step = "commitCover"]
                                                 ELSE Idle]
  /\ Stays(req[r].fresh \/ remembered # {})
  /\ UNCHANGED <<stage, author, sourced, recruiter, cover, leaves, moves>>

CommitCover(r) ==
  /\ At(r, "commitCover")
  /\ cover' = {[who |-> p, leave |-> req[r].leave] : p \in req[r].choice}
  /\ req' = [req EXCEPT ![r] = Idle]
  /\ Stays(recruiter = req[r].who /\ ~leaves[req[r].leave].over)
  /\ UNCHANGED <<stage, author, sourced, recruiter, leaves, remembered, moves>>

EndLeave(r) ==
  \E p \in People : \E l \in ActivePeriod(p) :
    /\ Ask(r, [Idle EXCEPT !.step = "commitEnd", !.leave = l])
    /\ UNCHANGED <<stage, author, sourced, recruiter, cover, leaves, remembered, inTurn>>

(* Variant: the leave ends, what it handed over does not. *)
CoverKept(l) == cover

(* What l handed over lapses with it. *)
CoverWithout(l) == {c \in cover : c.leave # l}

CommitEnd(r) ==
  /\ At(r, "commitEnd")
  /\ leaves' = [leaves EXCEPT ![req[r].leave].over = TRUE]
  /\ cover' = CoverWithout(req[r].leave)
  /\ req' = [req EXCEPT ![r].step = "invalidate"]
  /\ UNCHANGED <<stage, author, sourced, recruiter, remembered, moves, inTurn>>

-----------------------------------------------------------------------------
(* The recruitment lead *)

(* The first tick of a CV collection source; later ticks only replace it. *)
SetCvSources(r) ==
  /\ At(r, "none")
  /\ stage \in {"approved", "posted"}
  /\ ~sourced /\ sourced' = TRUE
  /\ UNCHANGED <<stage, author, recruiter, cover, leaves, remembered, req, moves, inTurn>>

AssignRecruiter(r) ==
  \E choice \in Optional(Recruiters) :
    /\ stage \in {"approved", "posted"}
    /\ choice # {} => sourced
    /\ Ask(r, [Idle EXCEPT !.step = "commitAssign", !.choice = choice])
    /\ UNCHANGED <<stage, author, sourced, recruiter, cover, leaves, remembered, inTurn>>

(* The stand-in stood in for the recruiter the requisition had before. *)
CommitAssign(r) ==
  /\ At(r, "commitAssign")
  /\ recruiter' = req[r].choice
  /\ cover' = {}
  /\ req' = [req EXCEPT ![r] = Idle]
  /\ UNCHANGED <<stage, author, sourced, leaves, remembered, moves, inTurn>>

-----------------------------------------------------------------------------
(* Whose turn the job analysis is, and who is let in *)

OnDuty == Analysts \ OnLeave

(* Variant: somebody on leave keeps the job analyses of the unit. *)
OwnersOnLeaveToo == IF Analysts # {} THEN Analysts ELSE Recruiters

(* The whole queue on duty, or the corporate side when nobody is. *)
JobAnalysisOwners == IF OnDuty # {} THEN OnDuty ELSE Recruiters

CanCompleteJobAnalysis(p) == p \in JobAnalysisOwners

CoverCounts(c) == ~leaves[c.leave].past

IsRecruiter(p) == p \in recruiter \/ \E c \in cover : c.who = p /\ CoverCounts(c)

CvSubmitter(p) == p \in Analysts

(* load: p is let into the requisition. *)
Opens(p) ==
  \/ p \in author \/ IsRecruiter(p)
  \/ stage = "analysis" /\ CanCompleteJobAnalysis(p)
  \/ stage = "posted" /\ CvSubmitter(p)

(* requisitionVisibility: the requisition is in p's list and on p's tiles. *)
UnitNamesWithFactoryHr == OnDuty # {}

Listed(p) ==
  \/ p \in author \/ p \in recruiter
  \/ \E c \in cover : c.who = p
  \/ p \in Analysts \ OnLeave /\ stage = "analysis"
  \/ p \in Analysts /\ stage = "posted"
  \/ p \in Recruiters /\ stage = "analysis" /\ ~UnitNamesWithFactoryHr

(* The job analysis is submitted by somebody whose turn it is. *)
SubmitJobAnalysis ==
  \E p \in People :
    /\ stage = "analysis" /\ CanCompleteJobAnalysis(p)
    /\ stage' = "approval" /\ author' = {p}
    /\ UNCHANGED <<sourced, recruiter, cover, leaves, remembered, req, moves, inTurn>>

(* The chain signs, and the requisition is posted: RequisitionChain. *)
MoveOn ==
  /\ \/ stage = "approval" /\ stage' = "approved"
     \/ stage = "approved" /\ stage' = "posted"
  /\ UNCHANGED <<author, sourced, recruiter, cover, leaves, remembered, req, moves, inTurn>>

-----------------------------------------------------------------------------
(* Specification *)

Init ==
  /\ stage = "analysis" /\ author = {} /\ sourced = FALSE
  /\ recruiter = {} /\ cover = {} /\ leaves = << >> /\ remembered = {}
  /\ req = [r \in Requests |-> Idle] /\ moves = 0 /\ inTurn = TRUE

Next ==
  \/ \E r \in Requests :
       \/ LookAway(r) \/ StoreAway(r) \/ StartLeave(r) \/ CreateLeave(r)
       \/ InvalidateLeave(r) \/ ReadAway(r) \/ CheckCover(r) \/ CommitCover(r)
       \/ EndLeave(r) \/ CommitEnd(r)
       \/ SetCvSources(r) \/ AssignRecruiter(r) \/ CommitAssign(r)
  \/ ForgetAway \/ Lapse \/ SubmitJobAnalysis \/ MoveOn

Spec == Init /\ [][Next]_vars

-----------------------------------------------------------------------------
(* Properties *)

(* As long as no request is overtaken, whoever stands in does so for the
   recruiter the requisition has, and for a leave that person has not come
   back from: coming back, and a new recruiter, both end it. *)
CoverStandsIn ==
  inTurn => \A c \in cover : recruiter = {leaves[c.leave].who} /\ ~leaves[c.leave].over

(* Somebody picked to stand in or to write a job analysis is picked from what
   the process remembers.  Unless a look was overtaken, it remembers everybody
   who is away, and nobody who came back, once no leave is half recorded. *)
AwayIsKnown ==
  inTurn /\ (\A r \in Requests : ~At(r, "invalidate")) =>
    \A known \in remembered :
      /\ Away \subseteq known
      /\ \A p \in known \ Away : \E l \in DOMAIN leaves :
           leaves[l].who = p /\ leaves[l].past /\ ~leaves[l].over

(* The list and the door work out for themselves who is concerned, one by unit
   and one by requisition, and agree whoever is away: except that a stand-in
   whose leave has lapsed still sees what is no longer opened. *)
ListMatchesDoor ==
  \A p \in People :
    Listed(p) <=> Opens(p) \/ \E c \in cover : c.who = p /\ ~CoverCounts(c)

(* What the process remembers of who is away, and the list each person sees, agree
   with the leaves and with the doors. *)
SeenAsItStands == AwayIsKnown /\ ListMatchesDoor
=============================================================================
