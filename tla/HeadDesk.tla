------------------------------ MODULE HeadDesk ------------------------------
(***************************************************************************)
(* Several candidates of one requisition on their way through a handed-over *)
(* first interview: Factory HR's hand-offs, the batch verdict, the Factory  *)
(* HR Head's queue and e-mailed links, the notices that follow, the regret  *)
(* letter, and the screens that show who holds what (interview.service,     *)
(* first-interview-approval.service).                                       *)
(*                                                                          *)
(* The unit is one.  What several requests do to one candidate's rounds,    *)
(* marks and stage is in CandidatePipeline; here the point is the batch.    *)
(***************************************************************************)
EXTENDS Integers, FiniteSets

CONSTANTS
  Desks,       \* requests that can be under way at the same time
  Applicants,  \* candidates of the requisition
  Factory,     \* people of the unit: who is handed candidates, who is Head
  Heads,       \* those who hold the Factory HR Head's role
  Recruiter,   \* who hands candidates over
  LinkDays,    \* CANDIDATE_APPROVAL_LINK_DAYS
  Batches,     \* bound: the sets of candidates a request names
  Crews,       \* bound: the sets of people candidates are handed to
  Sittings,    \* bound: the sets of rounds a candidate is looked at with
  MaxDay,      \* bound: days
  Plans        \* bound: how many requests of each kind are made

ASSUME HeadsAssumption ==
  /\ Heads \subseteq Factory /\ Recruiter \notin Factory /\ LinkDays \in Nat
  /\ Batches \subseteq SUBSET Applicants \ {{}} /\ Crews \subseteq SUBSET Factory \ {{}}

Acts == {"hand", "revoke", "judge", "decide", "letter", "restage"}

ASSUME PlansAssumption == Plans \subseteq [Acts -> Nat]

VARIABLES
  file,      \* Candidate: stage, whether rejectedAt and regretSentAt are set
  hand,      \* InterviewDelegation, for each candidate and person
  granted,   \* who holds the interviewer's role in the unit
  review,    \* FirstInterviewApproval, for each candidate
  mailed,    \* CandidateApprovalLink rows
  desk,      \* where each request has come to
  today,     \* the day
  plan,      \* history: how many more requests are made
  asked,     \* history: Heads asked about a candidate since it was last put to them
  heard,      \* history: what the recruiter was last told of a Head's verdict
  letters,   \* history: regret letters that left
  crossed    \* history: candidates two requests had in hand at once, or one was cut short on

dvars == <<file, hand, granted, review, mailed, desk, today, plan, asked, heard, letters, crossed>>

-----------------------------------------------------------------------------
(* Values *)

Nobody == "nobody"

File == [stage : {"interview", "final", "rejected"}, turned : BOOLEAN, regret : BOOLEAN]

Handing == [sends : Nat, last : 0..MaxDay, revoked : BOOLEAN, done : BOOLEAN]

Unsent == [sends |-> 0, last |-> 0, revoked |-> FALSE, done |-> FALSE]

Review == [status : {"none", "pending", "approved", "rejected", "returned"},
           by : Factory \cup {Recruiter, Nobody}]

Unasked == [status |-> "none", by |-> Nobody]

Mailed == [head : Heads, covers : SUBSET Applicants, until : 0..(MaxDay + LinkDays)]

(* `todo` is left to go through, `on` is in hand, `wait` went to the Heads. *)
Phases == {"none", "grant", "upsert", "judge", "settle", "ask", "link", "consider", "decide",
           "tell", "letter", "post", "stamp"}

Desk == [phase : Phases, who : Factory \cup {Recruiter}, verdict : {"none", "final", "rejected",
           "approved", "returned"},
         todo : SUBSET Applicants, on : SUBSET Applicants, wait : SUBSET Applicants,
         people : SUBSET Factory, pairs : SUBSET (Applicants \X Factory), to : BOOLEAN]

Clear == [phase |-> "none", who |-> Recruiter, verdict |-> "none", todo |-> {}, on |-> {},
          wait |-> {}, people |-> {}, pairs |-> {}, to |-> FALSE]

DeskTypeOK ==
  /\ file \in [Applicants -> File]
  /\ hand \in [Applicants -> [Factory -> Handing]]
  /\ granted \subseteq Factory
  /\ review \in [Applicants -> Review]
  /\ mailed \subseteq Mailed
  /\ desk \in [Desks -> Desk]
  /\ today \in 0..MaxDay /\ plan \in [Acts -> Nat]
  /\ asked \in [Applicants -> SUBSET Heads]
  /\ heard \in [Applicants -> {"none", "approved", "rejected"}]
  /\ letters \in [Applicants -> Nat]
  /\ crossed \subseteq Applicants

Asks(kind) == plan[kind] > 0 /\ plan' = [plan EXCEPT ![kind] = @ - 1]

Free(k, kind, request) ==
  /\ desk[k].phase = "none" /\ desk' = [desk EXCEPT ![k] = request]
  /\ Asks(kind)

(* A candidate somebody else has in hand at the moment. *)
InHand(k) == UNION {desk[j].on : j \in Desks \ {k}}

Held(c, d) == hand[c][d].sends > 0 /\ ~hand[c][d].revoked

OpenHand(c, d) == Held(c, d) /\ ~hand[c][d].done

(* The hand-offs of a candidate end, and do not come back with the stage. *)
Finished(c) == [hand EXCEPT ![c] = [d \in Factory |->
                  IF OpenHand(c, d) THEN [hand[c][d] EXCEPT !.done = TRUE] ELSE hand[c][d]]]

-----------------------------------------------------------------------------
(* Handing candidates over *)

Delegated(k) ==
  \E cs \in Batches, ds \in Crews :
    /\ Free(k, "hand", [Clear EXCEPT !.phase = "grant", !.people = ds, !.pairs = cs \X ds])
    /\ UNCHANGED <<file, hand, granted, review, mailed, today, asked, heard, letters, crossed>>

GrantInterviewerRole(k) ==
  \E d \in desk[k].people :
    LET rest == desk[k].people \ {d}
    IN /\ desk[k].phase = "grant"
       /\ granted' = granted \cup {d}
       /\ desk' = [desk EXCEPT ![k].people = rest,
                               ![k].phase = IF rest = {} THEN "upsert" ELSE "grant"]
       /\ UNCHANGED <<file, hand, review, mailed, today, plan, asked, heard, letters, crossed>>

(* A pair sent before is sent again: no longer withdrawn, but as finished as it was. *)
UpsertPair(k) ==
  \E p \in desk[k].pairs :
    /\ desk[k].phase = "upsert"
    /\ hand' = [hand EXCEPT ![p[1]][p[2]] =
                  [@ EXCEPT !.sends = @ + 1, !.last = today, !.revoked = FALSE]]
    /\ desk' = [desk EXCEPT ![k] = IF desk[k].pairs = {p} THEN Clear
                                   ELSE [@ EXCEPT !.pairs = @ \ {p}]]
    /\ UNCHANGED <<file, granted, review, mailed, today, plan, asked, heard, letters, crossed>>

(* Not while the Head has the candidate. *)
RevokeHanding ==
  \E c \in Applicants, d \in Factory :
    /\ Asks("revoke")
    /\ Held(c, d) /\ review[c].status # "pending"
    /\ hand' = [hand EXCEPT ![c][d].revoked = TRUE]
    /\ UNCHANGED <<file, granted, review, mailed, desk, today, asked, heard, letters, crossed>>

-----------------------------------------------------------------------------
(* The verdict on the first interview, one or a batch *)

OutcomeMany(k) ==
  \E who \in Factory \cup {Recruiter}, verdict \in {"final", "rejected"}, cs \in Batches :
    /\ Free(k, "judge", [Clear EXCEPT !.phase = "judge", !.who = who, !.verdict = verdict, !.todo = cs])
    /\ UNCHANGED <<file, hand, granted, review, mailed, today, asked, heard, letters, crossed>>

MayJudge(c, who) ==
  /\ who = Recruiter \/ Held(c, who)
  /\ file[c].stage = "interview" /\ review[c].status # "pending"

(* The next one is looked at, or passed over: a test of it may be unmarked.  *)
(* `to` is that it goes to the Head.                                         *)
Judge(k) ==
  \E c \in desk[k].todo, marked \in BOOLEAN :
    LET left == [desk[k] EXCEPT !.todo = @ \ {c}]
        may == MayJudge(c, desk[k].who) /\ marked
        head == desk[k].verdict = "final" /\ Heads # {} /\ \E d \in Factory : OpenHand(c, d)
    IN /\ desk[k].phase = "judge"
       /\ desk' = [desk EXCEPT ![k] = IF may THEN [left EXCEPT !.on = {c}, !.to = head,
                                                               !.phase = "settle"] ELSE left]
       /\ crossed' = IF may THEN crossed \cup ({c} \cap InHand(k)) ELSE crossed
       /\ UNCHANGED <<file, hand, granted, review, mailed, today, plan, asked, heard, letters>>

(* Variant for the negative check: only the last of a batch is kept. *)
WaitingLast(wait, c) == {c}

(* Those that go to the Heads are kept, to be asked about when the batch is through. *)
Waiting(wait, c) == wait \cup {c}

(* A verdict that does not go to the Head ends the hand-offs at once. *)
Settle(k) ==
  \E c \in desk[k].on :
    LET done == [desk[k] EXCEPT !.on = {}, !.phase = "judge"]
    IN /\ desk[k].phase = "settle"
       /\ IF desk[k].to
          THEN /\ review' = [review EXCEPT ![c] = [status |-> "pending", by |-> desk[k].who]]
               /\ asked' = [asked EXCEPT ![c] = {}]
               /\ desk' = [desk EXCEPT ![k] = [done EXCEPT !.wait = Waiting(@, c)]]
               /\ UNCHANGED <<file, hand>>
          ELSE /\ file' = [file EXCEPT ![c] = [@ EXCEPT !.stage = desk[k].verdict,
                                                        !.turned = desk[k].verdict = "rejected"]]
               /\ hand' = Finished(c)
               /\ desk' = [desk EXCEPT ![k] = done]
               /\ UNCHANGED <<review, asked>>
       /\ UNCHANGED <<granted, mailed, today, plan, heard, letters, crossed>>

(* When all are judged the Heads are asked about those still with them, each *)
(* by one link over all, except who put them there.                          *)
AskForApproval(k) ==
  LET covers == {c \in desk[k].wait : review[c].status = "pending"}
      heads == IF covers = {} THEN {} ELSE Heads \ {desk[k].who}
  IN /\ desk[k].phase = "judge" /\ desk[k].todo = {}
     /\ desk' = [desk EXCEPT ![k] = IF heads = {} THEN Clear
                   ELSE [@ EXCEPT !.phase = "link", !.people = heads, !.wait = covers]]
     /\ UNCHANGED <<file, hand, granted, review, mailed, today, plan, asked, heard, letters, crossed>>

(* The notice that carries the mail may fail, and with it those not yet asked. *)
AskHead(k) ==
  \E h \in desk[k].people, sent \in BOOLEAN :
    LET rest == desk[k].people \ {h}
        over == ~sent \/ rest = {}
    IN /\ desk[k].phase = "link"
       /\ mailed' = mailed \cup {[head |-> h, covers |-> desk[k].wait, until |-> today + LinkDays]}
       /\ asked' = [c \in Applicants |-> IF sent /\ c \in desk[k].wait THEN asked[c] \cup {h}
                                         ELSE asked[c]]
       /\ crossed' = IF sent THEN crossed ELSE crossed \cup desk[k].wait
       /\ desk' = [desk EXCEPT ![k] = IF over THEN Clear ELSE [@ EXCEPT !.people = rest]]
       /\ UNCHANGED <<file, hand, granted, review, today, plan, heard, letters>>

-----------------------------------------------------------------------------
(* The Head's decision, on the page or by a link *)

DecideMany(k) ==
  \E h \in Heads, verdict \in {"approved", "rejected", "returned"}, cs \in Batches :
    /\ Free(k, "decide", [Clear EXCEPT !.phase = "consider", !.who = h, !.verdict = verdict, !.todo = cs])
    /\ UNCHANGED <<file, hand, granted, review, mailed, today, asked, heard, letters, crossed>>

(* Only those it covers, and not once it has expired. *)
DecideByLink(k) ==
  \E link \in mailed, verdict \in {"approved", "rejected", "returned"}, cs \in Batches :
    /\ link.until >= today /\ cs \cap link.covers # {}
    /\ Free(k, "decide", [Clear EXCEPT !.phase = "consider", !.who = link.head, !.verdict = verdict,
                             !.todo = cs \cap link.covers])
    /\ UNCHANGED <<file, hand, granted, review, mailed, today, asked, heard, letters, crossed>>

Decidable(c) == review[c].status = "pending" /\ file[c].stage = "interview"

Consider(k) ==
  /\ desk[k].phase = "consider"
  /\ \/ /\ desk[k].todo = {} /\ desk' = [desk EXCEPT ![k] = Clear] /\ UNCHANGED crossed
     \/ \E c \in desk[k].todo :
          LET left == [desk[k] EXCEPT !.todo = @ \ {c}]
          IN /\ desk' = [desk EXCEPT ![k] = IF Decidable(c)
                           THEN [left EXCEPT !.on = {c}, !.phase = "decide"] ELSE left]
             /\ crossed' = IF Decidable(c) THEN crossed \cup ({c} \cap InHand(k)) ELSE crossed
  /\ UNCHANGED <<file, hand, granted, review, mailed, today, plan, asked, heard, letters>>

(* A candidate returned stays at interview, and the hand-offs stay open. *)
CommitHead(k) ==
  \E c \in desk[k].on :
    LET verdict == desk[k].verdict
    IN /\ desk[k].phase = "decide"
       /\ review' = [review EXCEPT ![c].status = verdict]
       /\ IF verdict = "returned" THEN UNCHANGED <<file, hand>>
          ELSE /\ hand' = Finished(c)
               /\ file' = [file EXCEPT ![c] = [@ EXCEPT
                    !.stage = IF verdict = "approved" THEN "final" ELSE "rejected",
                    !.turned = verdict = "rejected"]]
       /\ desk' = [desk EXCEPT ![k].phase = "tell"]
       /\ UNCHANGED <<granted, mailed, today, plan, asked, heard, letters, crossed>>

(* The recruiter hears when the candidate is theirs to go on with, or gone. *)
NotifyOutcome(k) ==
  \E c \in desk[k].on, sent \in BOOLEAN :
    LET verdict == desk[k].verdict
        hears == verdict # "returned"
    IN /\ desk[k].phase = "tell"
       /\ heard' = IF sent /\ hears THEN [heard EXCEPT ![c] = verdict] ELSE heard
       /\ crossed' = IF hears /\ ~sent THEN crossed \cup {c} ELSE crossed
       /\ desk' = [desk EXCEPT ![k] = [@ EXCEPT !.on = {}, !.phase = "consider"]]
       /\ UNCHANGED <<file, hand, granted, review, mailed, today, plan, asked, letters>>

-----------------------------------------------------------------------------
(* The regret letter *)

SendRegretMail(k) ==
  \E cs \in Batches :
    /\ Free(k, "letter", [Clear EXCEPT !.phase = "letter", !.todo = cs])
    /\ UNCHANGED <<file, hand, granted, review, mailed, today, asked, heard, letters, crossed>>

RegretMailBlocker(c) == file[c].stage # "rejected" \/ file[c].regret

NextLetter(k) ==
  /\ desk[k].phase = "letter"
  /\ \/ /\ desk[k].todo = {} /\ desk' = [desk EXCEPT ![k] = Clear] /\ UNCHANGED crossed
     \/ \E c \in desk[k].todo :
          LET left == [desk[k] EXCEPT !.todo = @ \ {c}]
          IN /\ desk' = [desk EXCEPT ![k] = IF RegretMailBlocker(c) THEN left
                           ELSE [left EXCEPT !.on = {c}, !.phase = "post"]]
             /\ crossed' = IF RegretMailBlocker(c) THEN crossed
                           ELSE crossed \cup ({c} \cap InHand(k))
  /\ UNCHANGED <<file, hand, granted, review, mailed, today, plan, asked, heard, letters>>

(* The mail leaves, or fails or is switched off: then it can be tried again. *)
PostLetter(k) ==
  \E c \in desk[k].on, sent \in BOOLEAN :
    /\ desk[k].phase = "post"
    /\ letters' = IF sent THEN [letters EXCEPT ![c] = @ + 1] ELSE letters
    /\ desk' = [desk EXCEPT ![k] = IF sent THEN [@ EXCEPT !.phase = "stamp"]
                                   ELSE [@ EXCEPT !.on = {}, !.phase = "letter"]]
    /\ UNCHANGED <<file, hand, granted, review, mailed, today, plan, asked, heard, crossed>>

StampLetter(k) ==
  \E c \in desk[k].on :
    /\ desk[k].phase = "stamp"
    /\ file' = [file EXCEPT ![c].regret = TRUE]
    /\ desk' = [desk EXCEPT ![k] = [@ EXCEPT !.on = {}, !.phase = "letter"]]
    /\ UNCHANGED <<hand, granted, review, mailed, today, plan, asked, heard, letters, crossed>>

-----------------------------------------------------------------------------
(* What goes on around *)

(* The recruiter rejects at interview, or moves the stage by hand, which keeps *)
(* rejectedAt.                                                                 *)
Restage ==
  \E c \in Applicants, stage \in {"interview", "final", "rejected"}, formal \in BOOLEAN :
    /\ Asks("restage")
    /\ formal => stage = "rejected" /\ file[c].stage # "rejected"
    /\ file' = [file EXCEPT ![c] = [@ EXCEPT !.stage = stage, !.turned = @ \/ formal]]
    /\ crossed' = IF review[c].status = "pending" \/ c \in UNION {desk[k].on : k \in Desks}
                  THEN crossed \cup {c} ELSE crossed
    /\ UNCHANGED <<hand, granted, review, mailed, desk, today, asked, heard, letters>>

NextDay ==
  /\ today < MaxDay /\ today' = today + 1
  /\ UNCHANGED <<file, hand, granted, review, mailed, desk, plan, asked, heard, letters, crossed>>

(* The process starts again: what was under way is lost. *)
RestartDesk ==
  /\ \E k \in Desks : desk[k].phase # "none"
  /\ desk' = [k \in Desks |-> Clear]
  /\ crossed' = crossed \cup UNION {desk[k].on \cup desk[k].wait : k \in Desks}
  /\ UNCHANGED <<file, hand, granted, review, mailed, today, plan, asked, heard, letters>>

-----------------------------------------------------------------------------
(* The screens *)

(* A round is what its status, time and marks make of it. *)
RoundsSeen == {"undated", "ahead", "past", "completed", "called_off", "marked"}

IsDecided(c) == file[c].turned \/ file[c].stage \in {"final", "rejected"}

DelegationProgress(c, rounds) ==
  LET live == rounds \ {"called_off"}
  IN  CASE IsDecided(c) -> "decided"
        [] ~IsDecided(c) /\ "marked" \in live -> "marked"
        [] ~IsDecided(c) /\ "marked" \notin live /\ live \cap {"completed", "past"} # {} -> "interviewed"
        [] ~IsDecided(c) /\ live \cap {"marked", "completed", "past"} = {} /\ "ahead" \in live -> "scheduled"
        [] OTHER -> "sent"

Complete(stage) == stage \in {"decided", "marked"}

(* What a person carries, for whoever hands more over. *)
DelegateWorkload(d, rounds) ==
  LET mine == {c \in Applicants : Held(c, d)}
      waiting == {c \in mine : DelegationProgress(c, rounds[c]) = "sent"}
      going == {c \in mine : DelegationProgress(c, rounds[c]) \in {"scheduled", "interviewed"}}
  IN  [holds |-> Cardinality(mine), waiting |-> Cardinality(waiting),
       inProgress |-> Cardinality(going), done |-> Cardinality(mine \ (waiting \cup going)),
       resent |-> Cardinality({c \in mine : hand[c][d].sends > 1}),
       oldest |-> {today - hand[c][d].last : c \in waiting}]

(* The requisition's board, rolled up for each person. *)
DelegationBoard(rounds) ==
  LET items == {[c |-> p[1], d |-> p[2], stage |-> DelegationProgress(p[1], rounds[p[1]])] :
                  p \in {q \in Applicants \X Factory : Held(q[1], q[2])}}
      of(d) == {i \in items : i.d = d}
  IN  [total |-> Cardinality(items),
       delegates |-> [d \in {i.d : i \in items} |->
         [holds |-> Cardinality(of(d)),
          waiting |-> Cardinality({i \in of(d) : i.stage = "sent"}),
          done |-> Cardinality({i \in of(d) : Complete(i.stage)})]]]

(* Who holds a candidate, as the candidate's own page has it. *)
ListDelegations(c) == {d \in Factory : Held(c, d)}

(* One person's list, and who else has the same candidate. *)
MyHandOffs(d) == {c \in Applicants : Held(c, d)}

Worklist(d) ==
  [c \in MyHandOffs(d) |-> [also |-> {e \in Factory \ {d} : Held(c, e)},
                            done |-> hand[c][d].done,
                            head |-> review[c].status]]

(* What waits on a Head. *)
Queue == {c \in Applicants : review[c].status = "pending"}

(* What a link shows of those it covers. *)
LinkInfo(link) ==
  [expired |-> link.until < today,
   rows |-> [c \in {x \in link.covers : review[x].status # "none"} |-> review[c].status]]

-----------------------------------------------------------------------------
(* Specification *)

(* Nobody has anything yet where candidates are going to be handed over; else *)
(* everybody was handed to everybody, and is perhaps with the Heads.            *)
DeskInit ==
  /\ plan \in Plans
  /\ file = [c \in Applicants |-> [stage |-> "interview", turned |-> FALSE, regret |-> FALSE]]
  /\ LET begun == plan["hand"] = 0
     IN /\ hand = [c \in Applicants |-> [d \in Factory |->
                      [Unsent EXCEPT !.sends = IF begun THEN 1 ELSE 0]]]
        /\ granted = IF begun THEN Factory ELSE {}
        /\ \E put \in {FALSE, begun /\ Heads # {}} :
             /\ review = [c \in Applicants |->
                            IF put THEN [status |-> "pending", by |-> Recruiter] ELSE Unasked]
             /\ asked = [c \in Applicants |-> IF put THEN Heads ELSE {}]
             /\ mailed = {[head |-> h, covers |-> Applicants, until |-> LinkDays] :
                           h \in IF put THEN Heads ELSE {}}
  /\ desk = [k \in Desks |-> Clear]
  /\ today = 0
  /\ heard = [c \in Applicants |-> "none"]
  /\ letters = [c \in Applicants |-> 0]
  /\ crossed = {}

DeskNext ==
  \/ \E k \in Desks :
       \/ Delegated(k) \/ GrantInterviewerRole(k) \/ UpsertPair(k)
       \/ OutcomeMany(k) \/ Judge(k) \/ Settle(k) \/ AskForApproval(k) \/ AskHead(k)
       \/ DecideMany(k) \/ DecideByLink(k) \/ Consider(k) \/ CommitHead(k) \/ NotifyOutcome(k)
       \/ SendRegretMail(k) \/ NextLetter(k) \/ PostLetter(k) \/ StampLetter(k)
  \/ RevokeHanding \/ Restage \/ NextDay \/ RestartDesk

DeskSpec == DeskInit /\ [][DeskNext]_dvars

-----------------------------------------------------------------------------
(* Properties *)

AllAsked(c) == Heads \ {review[c].by} \subseteq asked[c]

InBatch(c) == \E k \in Desks : c \in desk[k].on \cup desk[k].wait

Telling(c) == \E k \in Desks : desk[k].phase = "tell" /\ c \in desk[k].on

Posting(c) == \E k \in Desks : desk[k].phase \in {"post", "stamp"} /\ c \in desk[k].on

(* Screens that count the same hand-offs count alike, whatever came of the rounds. *)
ScreensAgree ==
  \A rounds \in [Applicants -> Sittings] :
    LET board == DelegationBoard(rounds)
    IN \A d \in Factory :
         LET load == DelegateWorkload(d, rounds)
         IN /\ load.holds = load.waiting + load.inProgress + load.done
            /\ load.holds = Cardinality(DOMAIN Worklist(d))
            /\ IF d \in DOMAIN board.delegates
               THEN board.delegates[d] = [holds |-> load.holds, waiting |-> load.waiting,
                                          done |-> load.done]
               ELSE load.holds = 0
            /\ \A c \in MyHandOffs(d) : ListDelegations(c) = Worklist(d)[c].also \cup {d}

(* Unless two requests had the candidate in hand at once, or one was cut      *)
(* short or could not send: everybody who can decide on a candidate that      *)
(* waits has been asked, and can still decide; the recruiter was last told    *)
(* what stands; and the regret letter goes out once, and is on the file.      *)
(* Whoever holds a hand-off may sign in, and the screens agree.               *)
DeskInOrder ==
  /\ \A c \in Applicants \ crossed :
       /\ c \in Queue /\ ~InBatch(c) => AllAsked(c) /\ Decidable(c)
       /\ review[c].status \in {"approved", "rejected"} /\ ~Telling(c) => heard[c] = review[c].status
       /\ ~Posting(c) => letters[c] = IF file[c].regret THEN 1 ELSE 0
  /\ \A c \in Applicants, d \in Factory : Held(c, d) => d \in granted
  /\ (\A k \in Desks : desk[k].phase = "none") => ScreensAgree
=============================================================================
