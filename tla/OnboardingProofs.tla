-------------------------- MODULE OnboardingProofs --------------------------
(***************************************************************************)
(* Theorems of Onboarding for any number of requests and any budgets, with *)
(* mails that fail and with crashes, of Joining for any number of          *)
(* requests, candidates, documents and people asked, of ItLetter, and of   *)
(* Archive for any number of uploads and archivings.                       *)
(*                                                                         *)
(* `Sound` says what a request in flight may hold, whatever lands out of   *)
(* turn; what follows it adds, property by property, what the request was  *)
(* entitled to when it was asked for.  The second part does the same for   *)
(* the joining papers: one invariant for the letter, the numbers, the form *)
(* and the cross-check each, and lemmas that say which of them a step can  *)
(* touch at all.  The third is the request to IT and its answer, and the   *)
(* fourth the permanent file, folder by folder.                            *)
(***************************************************************************)
EXTENDS Onboarding, Joining, ItLetter, Archive, FiniteSetTheorems, SequenceTheorems, TLAPS

(* A request to IT is none, or one whose live link was made. *)
Linked(t, D) == t = NoTicket \/ (t.id # 0 /\ t.link \in D)

(* What a request in flight holds, with links to IT at the places D. *)
Countable(q, D) ==
  /\ q.op = "record" => q.finding \in Findings
  /\ q.op = "decide" => q.finding \in {"cleared", "rejected"}
  /\ q.op \in {"mail", "undo"} => q.link \in D /\ q.ticket.link < q.link
  /\ Linked(q.ticket, D)

Sound ==
  /\ TypeOK
  /\ Linked(ticket, DOMAIN links)
  /\ \A r \in Requests : Countable(req[r], DOMAIN links)

-----------------------------------------------------------------------------
(* Values *)

LEMMA NoTicketType == NoTicket \in Ticket /\ NoTicket.id = 0 /\ NoTicket.link = 0
BY DEF NoTicket, Ticket

LEMMA IdleType == Idle \in Request /\ Idle.op = "none" /\ Idle.ticket = NoTicket
BY NoTicketType DEF Idle, Request, Ops, Statuses, Findings, Verdicts, Emails

LEMMA IdleCountable == ASSUME NEW D PROVE Countable(Idle, D)
BY IdleType DEF Countable, Linked

(* A list that grows keeps its places. *)
LEMMA PlacesKept ==
  ASSUME NEW q, NEW D, NEW E, D \subseteq E, Countable(q, D)
  PROVE  Countable(q, E)
BY DEF Countable, Linked

LEMMA OpChanged ==
  ASSUME NEW q \in Request, NEW op \in Ops
  PROVE  /\ [q EXCEPT !.op = op] \in Request
         /\ [q EXCEPT !.op = op].op = op
         /\ [q EXCEPT !.op = op].ticket = q.ticket
         /\ [q EXCEPT !.op = op].link = q.link
         /\ [q EXCEPT !.op = op].email = q.email
         /\ [q EXCEPT !.op = op].done = q.done
BY DEF Request

-----------------------------------------------------------------------------
(* What a step leaves sound *)

(* A step that changes one request and leaves the rest well typed. *)
LEMMA Frame ==
  ASSUME Sound, NEW r \in Requests, NEW q \in Request,
         req' = [req EXCEPT ![r] = q],
         links' \in Seq({"made", "mailed"}), DOMAIN links \subseteq DOMAIN links',
         Countable(q, DOMAIN links'),
         ticket' \in Ticket, Linked(ticket', DOMAIN links'),
         status' \in Statuses, docs' \in Seq(DocStatuses), stamps' \subseteq Stamps,
         medical' \in Medical, board' \in BOOLEAN, email' \in Emails,
         left' \in [papers : Nat, medical : Nat, it : Nat], inTurn' \in BOOLEAN
  PROVE  Sound'
<1>1. req' \in [Requests -> Request]
  BY DEF Sound, TypeOK
<1>2. TypeOK'
  BY <1>1 DEF TypeOK
<1>3. ASSUME NEW s \in Requests
      PROVE  Countable(req[s], DOMAIN links)'
  <2>1. Countable(req[s], DOMAIN links)
    BY DEF Sound
  <2>2. CASE s = r
    <3>1. req'[s] = q
      BY <2>2 DEF Sound, TypeOK
    <3>. QED
      BY <3>1
  <2>3. CASE s # r
    <3>1. req'[s] = req[s]
      BY <2>3 DEF Sound, TypeOK
    <3>2. Countable(req[s], DOMAIN links')
      BY <2>1, PlacesKept
    <3>. QED
      BY <3>1, <3>2
  <2>. QED
    BY <2>2, <2>3
<1>. QED
  BY <1>2, <1>3 DEF Sound

(* The same for a step that leaves the request to IT and its links alone. *)
LEMMA FrameAside ==
  ASSUME Sound, NEW r \in Requests, NEW q \in Request,
         req' = [req EXCEPT ![r] = q], Countable(q, DOMAIN links),
         UNCHANGED <<ticket, links>>,
         status' \in Statuses, docs' \in Seq(DocStatuses), stamps' \subseteq Stamps,
         medical' \in Medical, board' \in BOOLEAN, email' \in Emails,
         left' \in [papers : Nat, medical : Nat, it : Nat], inTurn' \in BOOLEAN
  PROVE  Sound'
<1>1. /\ links' \in Seq({"made", "mailed"}) /\ DOMAIN links' = DOMAIN links
      /\ ticket' \in Ticket /\ Linked(ticket', DOMAIN links')
  BY DEF Sound, TypeOK
<1>. QED
  BY <1>1, Frame

LEMMA SpendType ==
  ASSUME Sound, NEW budget \in {"papers", "medical", "it"}, Spend(budget)
  PROVE  left' \in [papers : Nat, medical : Nat, it : Nat]
BY DEF Spend, Sound, TypeOK

LEMMA StaysType ==
  ASSUME Sound, NEW condition \in BOOLEAN, Stays(condition)
  PROVE  inTurn' \in BOOLEAN
BY DEF Stays, Sound, TypeOK

-----------------------------------------------------------------------------
(* What people ask for *)

Asks(r) ==
  \/ AlertByHand(r) \/ Upload(r) \/ AcceptByHand(r) \/ Accept(r) \/ Decline(r)
  \/ SetMedical(r) \/ Decide(r) \/ HrVerify(r) \/ NotifyIt(r) \/ RequestIt(r) \/ Answer(r)

(* What a request may rest on when it is put in flight. *)
Entitled(q) ==
  /\ q.op \in {"alert", "upload", "acceptByHand", "accept", "decline", "record", "decide",
               "verify", "close", "save", "claim"}
  /\ q.op = "record" => q.finding \in Findings
  /\ q.op = "decide" => q.finding \in {"cleared", "rejected"}
  /\ q.op = "close" => MayFinish
  /\ q.op = "save" => MayRequestIt /\ q.ticket = ticket
  /\ q.op = "claim" => /\ q.ticket = ticket /\ Open(ticket) /\ links[ticket.link] = "mailed"
                       /\ q.email = email /\ q.done = Has("itNotified")
  /\ q.op \notin {"save", "claim"} => q.ticket = NoTicket

LEMMA AskedFor ==
  ASSUME Sound, NEW r \in Requests, Asks(r)
  PROVE  \E q \in Request, budget \in {"papers", "medical", "it"} :
            Ask(r, budget, q) /\ Entitled(q)
<1>. USE IdleType
<1>1. CASE \/ AlertByHand(r) \/ AcceptByHand(r) \/ Accept(r) \/ Decline(r) \/ HrVerify(r)
  <2>1. PICK op \in {"alert", "acceptByHand", "accept", "decline", "verify"},
             budget \in {"papers", "medical", "it"} :
          Ask(r, budget, [Idle EXCEPT !.op = op])
    BY <1>1 DEF AlertByHand, AcceptByHand, Accept, Decline, HrVerify
  <2>. DEFINE q == [Idle EXCEPT !.op = op]
  <2>2. q \in Request /\ q.op = op /\ q.ticket = NoTicket
    BY DEF Idle, Request, Ops
  <2>3. Entitled(q)
    <3>. HIDE DEF q
    <3>. QED
      BY <2>2 DEF Entitled
  <2>. QED
    BY <2>1, <2>2, <2>3
<1>2. CASE Upload(r)
  <2>. DEFINE q == [Idle EXCEPT !.op = "upload", !.status = status]
  <2>1. q \in Request /\ q.op = "upload" /\ q.ticket = NoTicket
    BY DEF Idle, Request, Ops, Sound, TypeOK
  <2>2. Entitled(q)
    <3>. HIDE DEF q
    <3>. QED
      BY <2>1 DEF Entitled
  <2>. QED
    BY <1>2, <2>1, <2>2 DEF Upload
<1>3. CASE SetMedical(r)
  <2>1. PICK f \in Findings, h \in BOOLEAN :
          Ask(r, "medical", [Idle EXCEPT !.op = "record", !.finding = f, !.byHand = h, !.status = status])
    BY <1>3 DEF SetMedical
  <2>. DEFINE q == [Idle EXCEPT !.op = "record", !.finding = f, !.byHand = h, !.status = status]
  <2>2. q \in Request /\ q.op = "record" /\ q.finding = f /\ q.ticket = NoTicket
    BY DEF Idle, Request, Ops, Sound, TypeOK
  <2>3. Entitled(q)
    <3>. HIDE DEF q
    <3>. QED
      BY <2>2 DEF Entitled
  <2>. QED
    BY <2>1, <2>2, <2>3
<1>4. CASE Decide(r)
  <2>1. PICK v \in Verdicts :
          /\ MayDecide
          /\ Ask(r, "medical", [Idle EXCEPT !.op = "decide", !.verdict = v, !.finding = medical.proposed])
    BY <1>4 DEF Decide
  <2>. DEFINE q == [Idle EXCEPT !.op = "decide", !.verdict = v, !.finding = medical.proposed]
  <2>2. medical.proposed \in {"cleared", "rejected"}
    BY <2>1 DEF MayDecide, Sound, TypeOK, Medical
  <2>3. q \in Request /\ q.op = "decide" /\ q.finding = medical.proposed /\ q.ticket = NoTicket
    BY <2>2 DEF Idle, Request, Ops, Findings
  <2>4. Entitled(q)
    <3>. HIDE DEF q
    <3>. QED
      BY <2>2, <2>3 DEF Entitled
  <2>. QED
    BY <2>1, <2>3, <2>4
<1>5. CASE NotifyIt(r)
  <2>1. PICK e \in {"none", "hr"} :
          MayFinish /\ Ask(r, "it", [Idle EXCEPT !.op = "close", !.email = e])
    BY <1>5 DEF NotifyIt
  <2>. DEFINE q == [Idle EXCEPT !.op = "close", !.email = e]
  <2>2. q \in Request /\ q.op = "close" /\ q.ticket = NoTicket
    BY DEF Idle, Request, Ops, Emails
  <2>3. Entitled(q)
    <3>. HIDE DEF q
    <3>. QED
      BY <2>1, <2>2 DEF Entitled
  <2>. QED
    BY <2>1, <2>2, <2>3
<1>6. CASE RequestIt(r)
  <2>. DEFINE q == [Idle EXCEPT !.op = "save", !.ticket = ticket]
  <2>1. q \in Request /\ q.op = "save" /\ q.ticket = ticket
    BY DEF Idle, Request, Ops, Sound, TypeOK
  <2>2. MayRequestIt /\ Ask(r, "it", q)
    BY <1>6 DEF RequestIt
  <2>3. Entitled(q)
    <3>. HIDE DEF q
    <3>. QED
      BY <2>1, <2>2 DEF Entitled
  <2>. QED
    BY <2>1, <2>2, <2>3
<1>7. CASE Answer(r)
  <2>. DEFINE q == [Idle EXCEPT !.op = "claim", !.ticket = ticket,
                                !.email = email, !.done = Has("itNotified")]
  <2>1. Has("itNotified") \in BOOLEAN
    BY DEF Has
  <2>2. q \in Request /\ q.op = "claim" /\ q.ticket = ticket /\ q.email = email
        /\ q.done = Has("itNotified")
    BY <2>1 DEF Idle, Request, Ops, Sound, TypeOK
  <2>3. Open(ticket) /\ links[ticket.link] = "mailed" /\ Ask(r, "it", q)
    BY <1>7 DEF Answer
  <2>4. Entitled(q)
    <3>. HIDE DEF q
    <3>. QED
      BY <2>2, <2>3 DEF Entitled
  <2>. QED
    BY <2>2, <2>3, <2>4
<1>. QED
  BY <1>1, <1>2, <1>3, <1>4, <1>5, <1>6, <1>7 DEF Asks

LEMMA EntitledCountable ==
  ASSUME Sound, NEW q, Entitled(q)
  PROVE  Countable(q, DOMAIN links)
BY DEF Entitled, Countable, Sound, Linked

LEMMA AskSound ==
  ASSUME Sound, NEW r \in Requests, Asks(r)
  PROVE  Sound'
<1>1. PICK q \in Request, budget \in {"papers", "medical", "it"} :
        Ask(r, budget, q) /\ Entitled(q)
  BY AskedFor
<1>2. /\ req' = [req EXCEPT ![r] = q] /\ Spend(budget)
      /\ UNCHANGED <<status, docs, stamps, medical, board, email, ticket, links, inTurn>>
  BY <1>1 DEF Ask, Then
<1>3. left' \in [papers : Nat, medical : Nat, it : Nat]
  BY <1>2, SpendType
<1>4. Countable(q, DOMAIN links)
  BY <1>1, EntitledCountable
<1>. QED
  BY <1>2, <1>3, <1>4, FrameAside DEF Sound, TypeOK

-----------------------------------------------------------------------------
(* Every step is sound *)

(* The papers: each write is followed by the end of the request or by its next
   step, which holds nothing. *)
LEMMA PapersSound ==
  ASSUME Sound, NEW r \in Requests,
         \/ Waive(r) \/ VerifyDoc(r) \/ CheckDue(r) \/ CommitAlert(r) \/ CommitUpload(r)
         \/ CommitSubmitted(r) \/ CommitAccept(r) \/ CommitDecline(r)
  PROVE  Sound'
<1>1. \E q \in Request : req' = [req EXCEPT ![r] = q] /\ Countable(q, DOMAIN links)
  <2>1. ASSUME NEW op \in {"none", "due", "alert", "submitted"},
               req' = [req EXCEPT ![r] = [Idle EXCEPT !.op = op]]
        PROVE  \E q \in Request : req' = [req EXCEPT ![r] = q] /\ Countable(q, DOMAIN links)
    <3>. DEFINE q == [Idle EXCEPT !.op = op]
    <3>1. q \in Request /\ q.op = op /\ q.ticket = NoTicket
      BY IdleType DEF Idle, Request, Ops
    <3>2. Countable(q, DOMAIN links)
      <4>. HIDE DEF q
      <4>. QED
        BY <3>1 DEF Countable, Linked
    <3>. QED
      BY <2>1, <3>1, <3>2
  <2>2. CASE Waive(r) \/ VerifyDoc(r)
    BY <2>1, <2>2 DEF Waive, VerifyDoc, Then
  <2>3. CASE CheckDue(r)
    <3>1. PICK op \in {"none", "alert"} : req' = [req EXCEPT ![r] = [Idle EXCEPT !.op = op]]
      BY <2>3 DEF CheckDue, Then
    <3>. QED
      BY <2>1, <3>1
  <2>4. CASE req' = [req EXCEPT ![r] = Idle]
    BY <2>4, IdleType, IdleCountable
  <2>5. CASE CommitUpload(r)
    BY <2>1, <2>4, <2>5 DEF CommitUpload, Then
  <2>6. CASE CommitAlert(r) \/ CommitSubmitted(r) \/ CommitAccept(r) \/ CommitDecline(r)
    BY <2>4, <2>6 DEF CommitAlert, CommitSubmitted, CommitAccept, CommitDecline, Then
  <2>. QED
    BY <2>2, <2>3, <2>5, <2>6
<1>2. docs' \in Seq(DocStatuses)
  <2>1. docs \in Seq(DocStatuses)
    BY DEF Sound, TypeOK
  <2>2. CASE VerifyDoc(r)
    <3>1. PICK i \in DOMAIN docs, d \in DocStatuses : docs' = [docs EXCEPT ![i] = d]
      BY <2>2 DEF VerifyDoc
    <3>. QED
      BY <2>1, <3>1, ExceptSeq
  <2>3. CASE CommitUpload(r)
    BY <2>1, <2>3 DEF CommitUpload, DocStatuses
  <2>4. CASE UNCHANGED docs
    BY <2>1, <2>4
  <2>. QED
    BY <2>2, <2>3, <2>4 DEF Waive, CheckDue, CommitAlert, CommitSubmitted, CommitAccept,
                            CommitDecline
<1>3. stamps' \subseteq Stamps
  <2>1. stamps \subseteq Stamps
    BY DEF Sound, TypeOK
  <2>2. CASE Waive(r)
    BY <2>1, <2>2 DEF Waive, Stamps
  <2>3. CASE CommitAlert(r) \/ CommitAccept(r) \/ CommitDecline(r)
    BY <2>1, <2>3 DEF CommitAlert, CommitAccept, CommitDecline, Stamps
  <2>4. CASE VerifyDoc(r) \/ CheckDue(r) \/ CommitUpload(r) \/ CommitSubmitted(r)
    BY <2>1, <2>4 DEF VerifyDoc, CheckDue, CommitUpload, CommitSubmitted
  <2>. QED
    BY <2>2, <2>3, <2>4
<1>4. status' \in Statuses
  BY DEF Waive, VerifyDoc, CheckDue, CommitAlert, CommitUpload, CommitSubmitted, CommitAccept,
         CommitDecline, Statuses, Sound, TypeOK
<1>5. left' \in [papers : Nat, medical : Nat, it : Nat]
  <2>1. UNCHANGED left \/ Spend("papers")
    BY DEF Waive, VerifyDoc, CheckDue, CommitAlert, CommitUpload, CommitSubmitted, CommitAccept,
           CommitDecline
  <2>. QED
    BY <2>1, SpendType DEF Sound, TypeOK
<1>6. inTurn' \in BOOLEAN
  BY DEF Waive, VerifyDoc, CheckDue, CommitAlert, CommitUpload, CommitSubmitted, CommitAccept,
         CommitDecline, Stays, Sound, TypeOK
<1>7. UNCHANGED <<medical, board, email, ticket, links>>
  BY DEF Waive, VerifyDoc, CheckDue, CommitAlert, CommitUpload, CommitSubmitted, CommitAccept,
         CommitDecline
<1>. QED
  BY <1>1, <1>2, <1>3, <1>4, <1>5, <1>6, <1>7, FrameAside DEF Sound, TypeOK

LEMMA RecordedType ==
  ASSUME NEW finding \in Findings, NEW byHand \in BOOLEAN
  PROVE  Recorded(finding, byHand) \in Medical
BY DEF Recorded, Medical, Findings

LEMMA DecidedType ==
  ASSUME Sound, NEW verdict, NEW proposed \in {"cleared", "rejected"}
  PROVE  Decided(verdict, proposed) \in Medical
BY DEF Decided, Medical, Findings, Sound, TypeOK

LEMMA ReqType ==
  ASSUME Sound, NEW r \in Requests
  PROVE  /\ req[r] \in Request /\ Countable(req[r], DOMAIN links)
         /\ req[r].status \in Statuses /\ req[r].finding \in Findings \cup {"none"}
         /\ req[r].byHand \in BOOLEAN /\ req[r].ticket \in Ticket /\ req[r].link \in Nat
         /\ req[r].email \in Emails /\ req[r].done \in BOOLEAN
BY DEF Sound, TypeOK, Request

(* The medical and the verification. *)
LEMMA MedicalSound ==
  ASSUME Sound, NEW r \in Requests,
         CommitMedical(r) \/ CommitDecision(r) \/ CommitVerify(r)
  PROVE  Sound'
<1>1. medical' \in Medical
  <2>1. CASE CommitMedical(r)
    <3>1. req[r].finding \in Findings
      BY <2>1, ReqType DEF CommitMedical, At, Countable
    <3>. QED
      BY <2>1, <3>1, ReqType, RecordedType DEF CommitMedical
  <2>2. CASE CommitDecision(r)
    <3>1. req[r].finding \in {"cleared", "rejected"}
      BY <2>2, ReqType DEF CommitDecision, At, Countable
    <3>. QED
      BY <2>2, <3>1, DecidedType DEF CommitDecision
  <2>. QED
    BY <2>1, <2>2 DEF CommitVerify, Sound, TypeOK
<1>2. status' \in Statuses
  BY ReqType DEF CommitMedical, CommitDecision, CommitVerify, Statuses, Sound, TypeOK
<1>3. stamps' \subseteq Stamps
  BY DEF CommitMedical, CommitDecision, CommitVerify, Stamps, Sound, TypeOK
<1>4. inTurn' \in BOOLEAN
  BY DEF CommitMedical, CommitDecision, CommitVerify, Stays, Sound, TypeOK
<1>5. /\ req' = [req EXCEPT ![r] = Idle]
      /\ UNCHANGED <<docs, board, email, ticket, links, left>>
  BY DEF CommitMedical, CommitDecision, CommitVerify, Then
<1>. QED
  BY <1>1, <1>2, <1>3, <1>4, <1>5, IdleType, IdleCountable, FrameAside DEF Sound, TypeOK

-----------------------------------------------------------------------------
(* The steps around the request to IT, taken apart *)

(* The row a request in flight saved. *)
Mine(q) == IF q.ticket.id = 0 THEN q.link ELSE q.ticket.id

(* A save that finds the row as it read it, and one that does not. *)
Saves(r, q) ==
  /\ q.op = "mail" /\ q.ticket = req[r].ticket /\ q.link = Len(links) + 1
  /\ req' = [req EXCEPT ![r] = q]
  /\ ticket.id = req[r].ticket.id
  /\ ticket' \in Ticket
  /\ ticket'.id = Mine(q) /\ ticket'.id # 0
  /\ ticket'.link = q.link /\ ~ticket'.closed /\ ticket'.answered = ticket.answered
  /\ links' = Append(links, "made")
  /\ inTurn' = (inTurn /\ MayRequestIt /\ ticket = req[r].ticket
                  /\ ~\E s \in Requests : At(s, "complete"))

Misses(r) == req' = [req EXCEPT ![r] = Idle] /\ UNCHANGED <<ticket, links, inTurn>>

LEMMA SaveShape ==
  ASSUME Sound, NEW r \in Requests, SaveTicket(r)
  PROVE  /\ Misses(r) \/ \E q \in Request : Saves(r, q)
         /\ UNCHANGED <<status, docs, stamps, medical, board, email, left>>
<1>. DEFINE was == req[r].ticket
            link == Len(links) + 1
            q == [req[r] EXCEPT !.op = "mail", !.link = link]
            t == [ticket EXCEPT !.id = IF was.id = 0 THEN link ELSE @, !.link = link,
                                !.closed = FALSE]
<1>1. UNCHANGED <<status, docs, stamps, medical, board, email, left>>
  BY DEF SaveTicket
<1>2. CASE ticket.id # was.id
  BY <1>2 DEF SaveTicket, Misses, Then
<1>3. CASE ticket.id = was.id
  <2>1. links \in Seq({"made", "mailed"}) /\ ticket \in Ticket
    BY DEF Sound, TypeOK
  <2>2. Len(links) \in Nat
    BY <2>1
  <2>3. link \in Nat /\ link # 0
    BY <2>2
  <2>4. q \in Request /\ q.op = "mail" /\ q.link = link /\ q.ticket = was
    <3>. HIDE DEF link
    <3>. QED
      BY <2>3, ReqType DEF Request, Ops
  <2>5. /\ t \in Ticket /\ t.link = link /\ ~t.closed /\ t.answered = ticket.answered
        /\ t.id = IF was.id = 0 THEN link ELSE was.id
    <3>. HIDE DEF link
    <3>. QED
      BY <1>3, <2>1, <2>3 DEF Ticket
  <2>6. t.id = Mine(q) /\ t.id # 0
    <3>. HIDE DEF link, q, t
    <3>. QED
      BY <2>3, <2>4, <2>5 DEF Mine
  <2>7. /\ ticket' = t /\ links' = Append(links, "made") /\ req' = [req EXCEPT ![r] = q]
        /\ inTurn' = (inTurn /\ MayRequestIt /\ ticket = was
                        /\ ~\E s \in Requests : At(s, "complete"))
    BY <1>3 DEF SaveTicket, Then, Stays
  <2>. HIDE DEF q, t
  <2>8. Saves(r, q)
    BY <1>3, <2>4, <2>5, <2>6, <2>7 DEF Saves
  <2>. QED
    BY <1>1, <2>4, <2>8
<1>. QED
  BY <1>1, <1>2, <1>3

LEMMA PutBackFields ==
  ASSUME NEW t \in Ticket, NEW was \in Ticket
  PROVE  /\ PutBack(t, was) \in Ticket
         /\ was.id = 0 => PutBack(t, was) = NoTicket
         /\ was.id # 0 => /\ PutBack(t, was).id = t.id
                          /\ PutBack(t, was).link = was.link
                          /\ PutBack(t, was).closed = was.closed
                          /\ PutBack(t, was).answered = t.answered
BY NoTicketType DEF PutBack, Ticket

LEMMA SameTicket ==
  ASSUME NEW t \in Ticket, NEW u \in Ticket,
         t.id = u.id, t.link = u.link, t.answered = u.answered, t.closed = u.closed
  PROVE  t = u
BY DEF Ticket

LEMMA ClosedFields ==
  ASSUME NEW t \in Ticket
  PROVE  /\ Closed(t) \in Ticket /\ ~Open(Closed(t))
         /\ Closed(t).id = t.id /\ Closed(t).link = t.link /\ Closed(t).answered = t.answered
         /\ t = NoTicket => Closed(t) = NoTicket
<1>1. /\ Closed(t).id = t.id /\ Closed(t).link = t.link /\ Closed(t).answered = t.answered
      /\ Closed(t).closed = (t.closed \/ Open(t)) /\ Closed(t) \in Ticket
  BY DEF Closed, Ticket, Open
<1>2. ~Open(Closed(t))
  BY <1>1 DEF Open, Ticket
<1>3. t = NoTicket => Closed(t) = NoTicket
  <2>1. ASSUME t = NoTicket
        PROVE  Closed(t).closed = t.closed
    BY <1>1, <2>1, NoTicketType DEF Open, NoTicket
  <2>. QED
    BY <1>1, <2>1, SameTicket
<1>. QED
  BY <1>1, <1>2, <1>3

LEMMA UndoShape ==
  ASSUME Sound, NEW r \in Requests, Undo(r)
  PROVE  /\ req' = [req EXCEPT ![r] = Idle]
         /\ ticket' = IF ticket.id = Mine(req[r]) THEN PutBack(ticket, req[r].ticket) ELSE ticket
         /\ ticket' \in Ticket /\ Linked(ticket', DOMAIN links)
         /\ inTurn' = (inTurn /\ ticket.link = req[r].link /\ ~ticket.closed)
         /\ UNCHANGED <<status, docs, stamps, medical, board, email, links, left>>
<1>1. /\ req' = [req EXCEPT ![r] = Idle]
      /\ ticket' = IF ticket.id = Mine(req[r]) THEN PutBack(ticket, req[r].ticket) ELSE ticket
      /\ inTurn' = (inTurn /\ ticket.link = req[r].link /\ ~ticket.closed)
      /\ UNCHANGED <<status, docs, stamps, medical, board, email, links, left>>
  BY DEF Undo, Then, Stays, Mine
<1>2. ticket \in Ticket /\ Linked(ticket, DOMAIN links)
  BY DEF Sound, TypeOK
<1>3. req[r].ticket \in Ticket /\ Linked(req[r].ticket, DOMAIN links)
  BY ReqType DEF Countable
<1>4. CASE ticket.id = Mine(req[r])
  <2>1. ticket' = PutBack(ticket, req[r].ticket)
    BY <1>1, <1>4
  <2>2. CASE req[r].ticket.id = 0
    BY <1>1, <2>1, <2>2, NoTicketType, <1>2, <1>3, PutBackFields DEF Linked
  <2>3. CASE req[r].ticket.id # 0
    <3>1. ticket'.id # 0 /\ ticket'.link = req[r].ticket.link /\ ticket' \in Ticket
      BY <1>2, <1>3, <1>4, <2>1, <2>3, PutBackFields DEF Mine
    <3>2. req[r].ticket.link \in DOMAIN links
      BY <1>3, <2>3, NoTicketType DEF Linked
    <3>. QED
      BY <1>1, <3>1, <3>2 DEF Linked
  <2>. QED
    BY <2>2, <2>3
<1>5. CASE ticket.id # Mine(req[r])
  BY <1>1, <1>2, <1>5
<1>. QED
  BY <1>1, <1>4, <1>5

(* A claim that succeeds, and one that does not. *)
Claims(r, q) ==
  /\ q.op = "answer" /\ q.ticket = req[r].ticket /\ q.email = req[r].email /\ q.done = req[r].done
  /\ req' = [req EXCEPT ![r] = q]
  /\ Open(ticket)
  /\ ticket' \in Ticket /\ ticket'.id = ticket.id /\ ticket'.link = ticket.link /\ ticket'.answered
  /\ inTurn' = (inTurn /\ ticket = req[r].ticket)
  /\ UNCHANGED links

LEMMA ClaimShape ==
  ASSUME Sound, NEW r \in Requests, Claim(r)
  PROVE  /\ Misses(r) \/ \E q \in Request : Claims(r, q)
         /\ UNCHANGED <<status, docs, stamps, medical, board, email, left>>
<1>1. UNCHANGED <<status, docs, stamps, medical, board, email, links, left>>
  BY DEF Claim
<1>2. CASE ~(ticket.id = req[r].ticket.id /\ Open(ticket))
  BY <1>1, <1>2 DEF Claim, Misses, Then
<1>3. CASE ticket.id = req[r].ticket.id /\ Open(ticket)
  <2>. DEFINE q == [req[r] EXCEPT !.op = "answer"]
              t == [ticket EXCEPT !.answered = TRUE]
  <2>1. ticket' = t /\ req' = [req EXCEPT ![r] = q] /\ inTurn' = (inTurn /\ ticket = req[r].ticket)
    BY <1>3 DEF Claim, Then, Stays
  <2>2. /\ q \in Request /\ q.op = "answer" /\ q.ticket = req[r].ticket
        /\ q.email = req[r].email /\ q.done = req[r].done
    <3>1. "answer" \in Ops /\ req[r] \in Request
      BY ReqType DEF Ops
    <3>. QED
      BY <3>1, OpChanged
  <2>3. ticket \in Ticket
    BY DEF Sound, TypeOK
  <2>4. t \in Ticket /\ t.id = ticket.id /\ t.link = ticket.link /\ t.answered
    BY <2>3 DEF Ticket
  <2>. HIDE DEF q, t
  <2>5. Claims(r, q)
    BY <1>1, <1>3, <2>1, <2>2, <2>4 DEF Claims
  <2>. QED
    BY <1>1, <2>2, <2>5
<1>. QED
  BY <1>1, <1>2, <1>3

(* A mail that leaves, and one that does not. *)
LEMMA MailShape ==
  ASSUME Sound, NEW r \in Requests, Mail(r)
  PROVE  /\ \/ /\ req' = [req EXCEPT ![r] = Idle]
               /\ links' = [links EXCEPT ![req[r].link] = "mailed"]
            \/ /\ \E q \in Request : /\ q.op = "undo" /\ q.ticket = req[r].ticket
                                     /\ q.link = req[r].link
                                     /\ req' = [req EXCEPT ![r] = q]
               /\ UNCHANGED links
         /\ UNCHANGED <<status, docs, stamps, medical, board, email, ticket, left, inTurn>>
<1>1. UNCHANGED <<status, docs, stamps, medical, board, email, ticket, left, inTurn>>
  BY DEF Mail
<1>. DEFINE q == [req[r] EXCEPT !.op = "undo"]
<1>2. "undo" \in Ops /\ req[r] \in Request
  BY ReqType DEF Ops
<1>3. q \in Request /\ q.op = "undo" /\ q.ticket = req[r].ticket /\ q.link = req[r].link
  BY <1>2, OpChanged
<1>4. \/ req' = [req EXCEPT ![r] = Idle] /\ links' = [links EXCEPT ![req[r].link] = "mailed"]
      \/ req' = [req EXCEPT ![r] = q] /\ UNCHANGED links
  BY DEF Mail, Then
<1>. HIDE DEF q
<1>. QED
  BY <1>1, <1>3, <1>4

LEMMA CloseShape ==
  ASSUME Sound, NEW r \in Requests, CloseTicket(r)
  PROVE  /\ \E q \in Request : /\ q.op = "complete" /\ q.ticket = req[r].ticket
                               /\ req' = [req EXCEPT ![r] = q]
         /\ ticket' = Closed(ticket) /\ inTurn' = (inTurn /\ MayFinish)
         /\ UNCHANGED <<status, docs, stamps, medical, board, email, links, left>>
<1>. DEFINE q == [req[r] EXCEPT !.op = "complete"]
<1>1. "complete" \in Ops /\ req[r] \in Request
  BY ReqType DEF Ops
<1>2. q \in Request /\ q.op = "complete" /\ q.ticket = req[r].ticket
  BY <1>1, OpChanged
<1>3. /\ req' = [req EXCEPT ![r] = q] /\ ticket' = Closed(ticket) /\ inTurn' = (inTurn /\ MayFinish)
      /\ UNCHANGED <<status, docs, stamps, medical, board, email, links, left>>
  BY DEF CloseTicket, Then, Stays
<1>. HIDE DEF q
<1>. QED
  BY <1>2, <1>3

-----------------------------------------------------------------------------
(* They are sound as well *)

LEMMA RequestSound ==
  ASSUME Sound, NEW r \in Requests, SaveTicket(r) \/ Mail(r) \/ Undo(r)
  PROVE  Sound'
<1>0. /\ links \in Seq({"made", "mailed"}) /\ Len(links) \in Nat
      /\ DOMAIN links = 1 .. Len(links) /\ ticket \in Ticket /\ Linked(ticket, DOMAIN links)
  BY DEF Sound, TypeOK
<1>1. CASE SaveTicket(r)
  <2>1. UNCHANGED <<status, docs, stamps, medical, board, email, left>>
    BY <1>1, SaveShape
  <2>2. CASE Misses(r)
    BY <2>1, <2>2, IdleType, IdleCountable, FrameAside DEF Misses, Sound, TypeOK
  <2>3. ASSUME NEW q \in Request, Saves(r, q)
        PROVE  Sound'
    <3>1. links' \in Seq({"made", "mailed"}) /\ DOMAIN links' = 1 .. Len(links) + 1
      BY <1>0, <2>3 DEF Saves
    <3>2. DOMAIN links \subseteq DOMAIN links' /\ Len(links) + 1 \in DOMAIN links'
      BY <1>0, <3>1
    <3>3. Linked(ticket', DOMAIN links') /\ ticket' \in Ticket
      BY <2>3, <3>2 DEF Saves, Linked
    <3>4. Linked(req[r].ticket, DOMAIN links)
      BY ReqType DEF Countable
    <3>5. req[r].ticket.link < Len(links) + 1
      BY <1>0, <3>4, NoTicketType DEF Linked
    <3>6. Countable(q, DOMAIN links')
      BY <2>3, <3>2, <3>4, <3>5 DEF Countable, Saves, Linked
    <3>7. inTurn' \in BOOLEAN /\ req' = [req EXCEPT ![r] = q]
      BY <2>3 DEF Saves
    <3>. QED
      BY <2>1, <3>1, <3>2, <3>3, <3>6, <3>7, Frame DEF Sound, TypeOK
  <2>. QED
    BY <1>1, <2>2, <2>3, SaveShape
<1>2. CASE Mail(r)
  <2>1. UNCHANGED <<status, docs, stamps, medical, board, email, ticket, left, inTurn>>
    BY <1>2, MailShape
  <2>2. CASE req' = [req EXCEPT ![r] = Idle] /\ links' = [links EXCEPT ![req[r].link] = "mailed"]
    <3>1. req[r].link \in DOMAIN links
      BY <1>2, ReqType DEF Mail, At, Countable
    <3>2. links' \in Seq({"made", "mailed"}) /\ DOMAIN links' = DOMAIN links
      <4>1. links' \in Seq({"made", "mailed"})
        BY <1>0, <2>2, <3>1, ExceptSeq
      <4>. QED
        BY <4>1, <1>0, <2>2
    <3>3. Linked(ticket', DOMAIN links') /\ ticket' \in Ticket
      BY <1>0, <2>1, <3>2
    <3>. QED
      BY <2>1, <2>2, <3>2, <3>3, IdleType, IdleCountable, Frame DEF Sound, TypeOK
  <2>3. ASSUME NEW q \in Request, q.op = "undo", q.ticket = req[r].ticket, q.link = req[r].link,
               req' = [req EXCEPT ![r] = q], UNCHANGED links
        PROVE  Sound'
    <3>1. Countable(q, DOMAIN links)
      BY <1>2, <2>3, ReqType DEF Mail, At, Countable
    <3>. QED
      BY <2>1, <2>3, <3>1, FrameAside DEF Sound, TypeOK
  <2>. QED
    BY <1>2, <2>2, <2>3, MailShape
<1>3. CASE Undo(r)
  <2>1. inTurn' \in BOOLEAN
    BY <1>3, UndoShape
  <2>2. links' \in Seq({"made", "mailed"}) /\ DOMAIN links' = DOMAIN links
    BY <1>0, <1>3, UndoShape
  <2>3. Linked(ticket', DOMAIN links') /\ ticket' \in Ticket
    BY <1>3, <2>2, UndoShape
  <2>4. /\ req' = [req EXCEPT ![r] = Idle]
        /\ UNCHANGED <<status, docs, stamps, medical, board, email, left>>
    BY <1>3, UndoShape
  <2>. QED
    BY <2>1, <2>2, <2>3, <2>4, IdleType, IdleCountable, Frame DEF Sound, TypeOK
<1>. QED
  BY <1>1, <1>2, <1>3

LEMMA EndSound ==
  ASSUME Sound, NEW r \in Requests,
         CloseTicket(r) \/ Complete(r) \/ Claim(r) \/ RecordAnswer(r) \/ Fail(r)
  PROVE  Sound'
<1>0. ticket \in Ticket /\ Linked(ticket, DOMAIN links)
  BY DEF Sound, TypeOK
<1>1. CASE CloseTicket(r)
  <2>1. PICK q \in Request : /\ q.op = "complete" /\ q.ticket = req[r].ticket
                             /\ req' = [req EXCEPT ![r] = q]
    BY <1>1, CloseShape
  <2>2. /\ ticket' = Closed(ticket) /\ inTurn' = (inTurn /\ MayFinish)
        /\ UNCHANGED <<status, docs, stamps, medical, board, email, links, left>>
    BY <1>1, CloseShape
  <2>3. Countable(q, DOMAIN links)
    BY <2>1, ReqType DEF Countable
  <2>4. ticket' \in Ticket /\ Linked(ticket', DOMAIN links)
    BY <1>0, <2>2, ClosedFields DEF Linked
  <2>5. /\ links' \in Seq({"made", "mailed"}) /\ DOMAIN links' = DOMAIN links
        /\ Countable(q, DOMAIN links') /\ Linked(ticket', DOMAIN links') /\ inTurn' \in BOOLEAN
    BY <2>2, <2>3, <2>4 DEF Sound, TypeOK
  <2>. QED
    BY <2>1, <2>2, <2>4, <2>5, Frame DEF Sound, TypeOK
<1>2. CASE Complete(r)
  <2>1. stamps' \subseteq Stamps /\ status' \in Statuses /\ email' \in Emails
    BY <1>2, ReqType DEF Complete, Stamps, Statuses, Sound, TypeOK
  <2>2. /\ req' = [req EXCEPT ![r] = Idle] /\ inTurn' = (inTurn /\ MayFinish)
        /\ UNCHANGED <<docs, medical, board, ticket, links, left>>
    BY <1>2 DEF Complete, Then, Stays
  <2>. QED
    BY <2>1, <2>2, IdleType, IdleCountable, FrameAside DEF Sound, TypeOK
<1>3. CASE Claim(r)
  <2>1. UNCHANGED <<status, docs, stamps, medical, board, email, left>>
    BY <1>3, ClaimShape
  <2>2. CASE Misses(r)
    BY <2>1, <2>2, IdleType, IdleCountable, FrameAside DEF Misses, Sound, TypeOK
  <2>3. ASSUME NEW q \in Request, Claims(r, q)
        PROVE  Sound'
    <3>1. Countable(q, DOMAIN links)
      BY <2>3, ReqType DEF Countable, Claims
    <3>2. ticket' \in Ticket /\ Linked(ticket', DOMAIN links)
      BY <1>0, <2>3, NoTicketType DEF Claims, Linked, Open
    <3>3. /\ links' \in Seq({"made", "mailed"}) /\ DOMAIN links' = DOMAIN links
          /\ Countable(q, DOMAIN links') /\ Linked(ticket', DOMAIN links')
          /\ inTurn' \in BOOLEAN /\ req' = [req EXCEPT ![r] = q]
      BY <2>3, <3>1, <3>2 DEF Claims, Sound, TypeOK
    <3>. QED
      BY <2>1, <3>2, <3>3, Frame DEF Sound, TypeOK
  <2>. QED
    BY <1>3, <2>2, <2>3, ClaimShape
<1>4. CASE RecordAnswer(r)
  <2>1. stamps' \subseteq Stamps /\ status' \in Statuses
    BY <1>4 DEF RecordAnswer, Stamps, Statuses, Sound, TypeOK
  <2>2. email' \in Emails
    BY <1>4 DEF RecordAnswer, AddressAfter, Emails, Sound, TypeOK
  <2>3. /\ req' = [req EXCEPT ![r] = Idle] /\ inTurn' \in BOOLEAN
        /\ UNCHANGED <<docs, medical, board, ticket, links, left>>
    BY <1>4 DEF RecordAnswer, Then, Stays, Sound, TypeOK
  <2>. QED
    BY <2>1, <2>2, <2>3, IdleType, IdleCountable, FrameAside DEF Sound, TypeOK
<1>5. CASE Fail(r)
  <2>1. /\ req' = [req EXCEPT ![r] = Idle] /\ inTurn' \in BOOLEAN
        /\ UNCHANGED <<status, docs, stamps, medical, board, email, ticket, links, left>>
    BY <1>5 DEF Fail, Then, Stays, Sound, TypeOK
  <2>. QED
    BY <2>1, IdleType, IdleCountable, FrameAside DEF Sound, TypeOK
<1>. QED
  BY <1>1, <1>2, <1>3, <1>4, <1>5

(* Steps that no request is remembered of. *)
Hands == SaveParticulars \/ SendOffer \/ SendAppointmentLetter \/ Archive \/ BoardMoves

LEMMA HandsFrame ==
  ASSUME Hands
  PROVE  UNCHANGED <<docs, medical, email, ticket, links, req, inTurn>>
BY DEF Hands, SaveParticulars, SendOffer, SendAppointmentLetter, Archive, BoardMoves

LEMMA HandsSound ==
  ASSUME Sound, Hands
  PROVE  Sound'
<1>1. stamps' \subseteq Stamps
  <2>1. stamps \subseteq Stamps
    BY DEF Sound, TypeOK
  <2>2. CASE SaveParticulars
    <3>1. PICK p \in Particulars : stamps' \in {stamps \cup {p}, stamps \ {p}}
      BY <2>2 DEF SaveParticulars
    <3>. QED
      BY <2>1, <3>1 DEF Stamps
  <2>3. CASE SendOffer \/ SendAppointmentLetter \/ Archive
    BY <2>1, <2>3 DEF SendOffer, SendAppointmentLetter, Archive, Stamps
  <2>4. CASE BoardMoves
    BY <2>1, <2>4 DEF BoardMoves
  <2>. QED
    BY <2>2, <2>3, <2>4 DEF Hands
<1>2. status' \in Statuses /\ board' \in BOOLEAN
  BY DEF Hands, SaveParticulars, SendOffer, SendAppointmentLetter, Archive, BoardMoves, Statuses,
         Sound, TypeOK
<1>3. left' \in [papers : Nat, medical : Nat, it : Nat]
  <2>1. Spend("papers") \/ Spend("it")
    BY DEF Hands, SaveParticulars, SendOffer, SendAppointmentLetter, Archive, BoardMoves
  <2>. QED
    BY <2>1, SpendType
<1>4. UNCHANGED <<docs, medical, email, ticket, links, req, inTurn>>
  BY HandsFrame
<1>5. TypeOK'
  BY <1>1, <1>2, <1>3, <1>4 DEF Sound, TypeOK
<1>. QED
  BY <1>4, <1>5 DEF Sound

LEMMA SoundInit == Init => Sound
<1>. SUFFICES ASSUME Init
              PROVE  Sound
  OBVIOUS
<1>1. left \in [papers : Nat, medical : Nat, it : Nat]
  BY BudgetsAssumption DEF Init
<1>2. req \in [Requests -> Request] /\ \A r \in Requests : req[r] = Idle
  BY IdleType DEF Init
<1>3. TypeOK
  BY <1>1, <1>2, NoTicketType DEF Init, TypeOK, Statuses, Medical, Findings, Emails
<1>4. \A r \in Requests : Countable(req[r], DOMAIN links)
  BY <1>2, IdleCountable
<1>. QED
  BY <1>3, <1>4 DEF Sound, Linked, Init

(* The steps of one request, in the groups the lemmas are about. *)
LEMMA EveryStep ==
  ASSUME Next
  PROVE  \/ Hands
         \/ \E r \in Requests :
              \/ Asks(r)
              \/ \/ Waive(r) \/ VerifyDoc(r) \/ CheckDue(r) \/ CommitAlert(r) \/ CommitUpload(r)
                 \/ CommitSubmitted(r) \/ CommitAccept(r) \/ CommitDecline(r)
              \/ CommitMedical(r) \/ CommitDecision(r) \/ CommitVerify(r)
              \/ SaveTicket(r) \/ Mail(r) \/ Undo(r)
              \/ CloseTicket(r) \/ Complete(r) \/ Claim(r) \/ RecordAnswer(r) \/ Fail(r)
BY DEF Next, Hands, PapersStep, MedicalStep, ItStep, Asks

LEMMA SoundNext == Sound /\ [Next]_vars => Sound'
<1>. SUFFICES ASSUME Sound, [Next]_vars
              PROVE  Sound'
  OBVIOUS
<1>1. CASE UNCHANGED vars
  BY <1>1 DEF vars, Sound, TypeOK
<1>2. CASE Next
  BY <1>2, EveryStep, HandsSound, AskSound, PapersSound, MedicalSound, RequestSound, EndSound
<1>. QED
  BY <1>1, <1>2

(* Every value the onboarding keeps is a legal one: the live link is one that was made,
   and a request in flight never holds a finding or a link there is not. *)
THEOREM SoundTheorem == Spec => []Sound
BY SoundInit, SoundNext, PTL DEF Spec

(* TypeOK holds, whatever is asked for and in whatever order the writes land. *)
THEOREM TypeTheorem == Spec => []TypeOK
<1>1. Sound => TypeOK
  BY DEF Sound
<1>. QED
  BY <1>1, SoundTheorem, PTL

-----------------------------------------------------------------------------
(* What is stamped stays stamped *)

(* What a step on papers or on the medical may add, and where it leaves its request. *)
LEMMA PaperStamps ==
  ASSUME Sound, NEW r \in Requests,
         \/ Waive(r) \/ VerifyDoc(r) \/ CheckDue(r) \/ CommitAlert(r) \/ CommitUpload(r)
         \/ CommitSubmitted(r) \/ CommitAccept(r) \/ CommitDecline(r)
         \/ CommitMedical(r) \/ CommitDecision(r) \/ CommitVerify(r)
  PROVE  /\ \E x \in Stamps \ {"itNotified", "appointmentSent"} : stamps' \in {stamps, stamps \cup {x}}
         /\ \E q : /\ req' = [req EXCEPT ![r] = q] /\ q.op \in {"none", "due", "alert", "submitted"}
                   /\ q.ticket = NoTicket
         /\ UNCHANGED <<board, email, ticket, links>>
<1>1. \E x \in Stamps \ {"itNotified", "appointmentSent"} : stamps' \in {stamps, stamps \cup {x}}
  <2>1. CASE Waive(r)
    BY <2>1 DEF Waive, Stamps, Waivers
  <2>2. CASE CommitAlert(r)
    BY <2>2 DEF CommitAlert, Stamps
  <2>3. CASE CommitAccept(r) \/ CommitDecline(r)
    BY <2>3 DEF CommitAccept, CommitDecline, Stamps
  <2>4. CASE CommitVerify(r)
    BY <2>4 DEF CommitVerify, Stamps
  <2>5. CASE UNCHANGED stamps
    BY <2>5 DEF Stamps
  <2>. QED
    BY <2>1, <2>2, <2>3, <2>4, <2>5
       DEF VerifyDoc, CheckDue, CommitUpload, CommitSubmitted, CommitMedical, CommitDecision
<1>2. \E q : /\ req' = [req EXCEPT ![r] = q] /\ q.op \in {"none", "due", "alert", "submitted"}
             /\ q.ticket = NoTicket
  <2>1. ASSUME NEW op \in {"none", "due", "alert", "submitted"},
               req' = [req EXCEPT ![r] = [Idle EXCEPT !.op = op]]
        PROVE  \E q : /\ req' = [req EXCEPT ![r] = q]
                      /\ q.op \in {"none", "due", "alert", "submitted"} /\ q.ticket = NoTicket
    <3>. DEFINE q == [Idle EXCEPT !.op = op]
    <3>1. q.op = op /\ q.ticket = NoTicket
      BY DEF Idle
    <3>. QED
      BY <2>1, <3>1
  <2>2. CASE req' = [req EXCEPT ![r] = Idle]
    BY <2>2, IdleType
  <2>3. CASE Waive(r) \/ VerifyDoc(r)
    BY <2>1, <2>3 DEF Waive, VerifyDoc, Then
  <2>4. CASE CheckDue(r)
    <3>1. PICK op \in {"none", "alert"} : req' = [req EXCEPT ![r] = [Idle EXCEPT !.op = op]]
      BY <2>4 DEF CheckDue, Then
    <3>. QED
      BY <2>1, <3>1
  <2>5. CASE CommitUpload(r)
    BY <2>1, <2>2, <2>5 DEF CommitUpload, Then
  <2>6. CASE \/ CommitAlert(r) \/ CommitSubmitted(r) \/ CommitAccept(r) \/ CommitDecline(r)
             \/ CommitMedical(r) \/ CommitDecision(r) \/ CommitVerify(r)
    BY <2>2, <2>6 DEF CommitAlert, CommitSubmitted, CommitAccept, CommitDecline, CommitMedical,
                      CommitDecision, CommitVerify, Then
  <2>. QED
    BY <2>3, <2>4, <2>5, <2>6
<1>3. UNCHANGED <<board, email, ticket, links>>
  BY DEF Waive, VerifyDoc, CheckDue, CommitAlert, CommitUpload, CommitSubmitted, CommitAccept,
         CommitDecline, CommitMedical, CommitDecision, CommitVerify
<1>. QED
  BY <1>1, <1>2, <1>3

(* The final verification and the end of the onboarding are never taken back. *)
LEMMA StampsStay ==
  ASSUME Sound, [Next]_vars
  PROVE  /\ Has("hrVerified") => Has("hrVerified")'
         /\ Has("itNotified") => Has("itNotified")'
<1>1. CASE UNCHANGED vars
  BY <1>1 DEF vars, Has
<1>2. CASE Hands
  <2>1. CASE SaveParticulars
    <3>1. PICK p \in Particulars : stamps' \in {stamps \cup {p}, stamps \ {p}}
      BY <2>1 DEF SaveParticulars
    <3>. QED
      BY <3>1 DEF Has, Particulars
  <2>2. CASE SendOffer
    BY <2>2 DEF SendOffer, Has
  <2>3. CASE SendAppointmentLetter \/ Archive \/ BoardMoves
    BY <2>3 DEF SendAppointmentLetter, Archive, BoardMoves, Has
  <2>. QED
    BY <1>2, <2>1, <2>2, <2>3 DEF Hands
<1>3. ASSUME NEW r \in Requests,
             \/ Waive(r) \/ VerifyDoc(r) \/ CheckDue(r) \/ CommitAlert(r) \/ CommitUpload(r)
             \/ CommitSubmitted(r) \/ CommitAccept(r) \/ CommitDecline(r)
             \/ CommitMedical(r) \/ CommitDecision(r) \/ CommitVerify(r)
      PROVE  stamps \subseteq stamps'
  BY <1>3, PaperStamps
<1>4. ASSUME NEW r \in Requests, Asks(r)
      PROVE  stamps \subseteq stamps'
  BY <1>4, AskedFor DEF Ask
<1>5. ASSUME NEW r \in Requests, SaveTicket(r) \/ Mail(r) \/ Undo(r)
      PROVE  stamps \subseteq stamps'
  BY <1>5 DEF SaveTicket, Mail, Undo
<1>6. ASSUME NEW r \in Requests,
             CloseTicket(r) \/ Complete(r) \/ Claim(r) \/ RecordAnswer(r) \/ Fail(r)
      PROVE  stamps \subseteq stamps'
  BY <1>6 DEF CloseTicket, Complete, Claim, RecordAnswer, Fail
<1>. QED
  BY <1>1, <1>2, <1>3, <1>4, <1>5, <1>6, EveryStep DEF Has

-----------------------------------------------------------------------------
(* Verification comes first *)

AfterVerification == {"close", "complete", "save", "mail", "undo", "claim", "answer"}

(* Whoever is about to end the onboarding, or has to do with IT, was let through by
   the final verification, which stays. *)
Verified ==
  /\ VerifiedFirst
  /\ \A r \in Requests : req[r].op \in AfterVerification => Has("hrVerified")

LEMMA VerifiedNext == Sound /\ Verified /\ [Next]_vars => Verified'
<1>. SUFFICES ASSUME Sound, Verified, [Next]_vars
              PROVE  Verified'
  OBVIOUS
<1>1. CASE Has("hrVerified")
  BY <1>1, StampsStay DEF Verified, VerifiedFirst
<1>2. CASE UNCHANGED vars
  BY <1>2 DEF vars, Verified, VerifiedFirst, Has, At
<1>3. CASE ~Has("hrVerified") /\ Next
  <2>0. /\ ticket.id = 0 /\ "itNotified" \notin stamps /\ "appointmentSent" \notin stamps
        /\ \A r \in Requests : req[r].op \notin AfterVerification
        /\ "hrVerified" \notin stamps
    BY <1>3 DEF Verified, VerifiedFirst, Has
  <2>1. ASSUME ticket'.id = 0, "itNotified" \notin stamps', "appointmentSent" \notin stamps',
               \A r \in Requests : req'[r].op \notin AfterVerification
        PROVE  Verified'
    BY <2>1 DEF Verified, VerifiedFirst, Has
  <2>2. ASSUME NEW r \in Requests, NEW q, q.op \notin AfterVerification,
               req' = [req EXCEPT ![r] = q]
        PROVE  \A s \in Requests : req'[s].op \notin AfterVerification
    <3>1. req \in [Requests -> Request]
      BY DEF Sound, TypeOK
    <3>. QED
      BY <2>0, <2>2, <3>1
  <2>3. CASE Hands
    <3>1. UNCHANGED <<req, ticket>>
      BY <2>3, HandsFrame
    <3>2. "itNotified" \notin stamps' /\ "appointmentSent" \notin stamps'
      <4>1. CASE SaveParticulars
        <5>1. PICK p \in Particulars : stamps' \in {stamps \cup {p}, stamps \ {p}}
          BY <4>1 DEF SaveParticulars
        <5>. QED
          BY <2>0, <5>1 DEF Particulars
      <4>2. CASE SendAppointmentLetter
        BY <2>0, <4>2 DEF SendAppointmentLetter, Has
      <4>3. CASE SendOffer \/ Archive \/ BoardMoves
        BY <2>0, <4>3 DEF SendOffer, Archive, BoardMoves
      <4>. QED
        BY <2>3, <4>1, <4>2, <4>3 DEF Hands
    <3>. QED
      BY <2>0, <2>1, <3>1, <3>2
  <2>4. ASSUME NEW r \in Requests, Asks(r)
        PROVE  Verified'
    <3>1. PICK q \in Request, budget \in {"papers", "medical", "it"} :
            Ask(r, budget, q) /\ Entitled(q)
      BY <2>4, AskedFor
    <3>2. req' = [req EXCEPT ![r] = q] /\ UNCHANGED <<stamps, ticket>>
      BY <3>1 DEF Ask, Then
    <3>3. q.op \notin AfterVerification
      BY <2>0, <3>1 DEF Entitled, AfterVerification, MayFinish, MayRequestIt, Open, Has
    <3>. QED
      BY <2>0, <2>1, <2>2, <3>2, <3>3
  <2>5. ASSUME NEW r \in Requests,
               \/ Waive(r) \/ VerifyDoc(r) \/ CheckDue(r) \/ CommitAlert(r) \/ CommitUpload(r)
               \/ CommitSubmitted(r) \/ CommitAccept(r) \/ CommitDecline(r)
               \/ CommitMedical(r) \/ CommitDecision(r) \/ CommitVerify(r)
        PROVE  Verified'
    <3>1. PICK q : /\ req' = [req EXCEPT ![r] = q]
                   /\ q.op \in {"none", "due", "alert", "submitted"}
      BY <2>5, PaperStamps
    <3>2. q.op \notin AfterVerification
      BY <3>1 DEF AfterVerification
    <3>3. /\ "itNotified" \notin stamps' /\ "appointmentSent" \notin stamps'
          /\ UNCHANGED ticket
      BY <2>0, <2>5, PaperStamps
    <3>. QED
      BY <2>0, <2>1, <2>2, <3>1, <3>2, <3>3
  <2>6. ASSUME NEW r \in Requests,
               \/ SaveTicket(r) \/ Mail(r) \/ Undo(r)
               \/ CloseTicket(r) \/ Complete(r) \/ Claim(r) \/ RecordAnswer(r)
        PROVE  FALSE
    <3>1. req[r].op \in AfterVerification
      BY <2>6 DEF SaveTicket, Mail, Undo, CloseTicket, Complete, Claim, RecordAnswer, At,
                  AfterVerification
    <3>. QED
      BY <2>0, <3>1
  <2>7. ASSUME NEW r \in Requests, Fail(r)
        PROVE  Verified'
    <3>1. req' = [req EXCEPT ![r] = Idle] /\ UNCHANGED <<stamps, ticket>>
      BY <2>7 DEF Fail, Then
    <3>2. Idle.op \notin AfterVerification
      BY IdleType DEF AfterVerification
    <3>. QED
      BY <2>0, <2>1, <2>2, <3>1, <3>2
  <2>. QED
    BY <1>3, <2>3, <2>4, <2>5, <2>6, <2>7, EveryStep
<1>. QED
  BY <1>1, <1>2, <1>3

(* Nobody is appointed, IT is not asked and the onboarding does not end before the final
   verification, for any number of requests and whatever interleaves or fails. *)
THEOREM VerifiedTheorem == Spec => []VerifiedFirst
<1>1. Init => Verified
  BY IdleType, NoTicketType DEF Init, Verified, VerifiedFirst, Has, AfterVerification
<1>2. Verified => VerifiedFirst
  BY DEF Verified
<1>. QED
  BY <1>1, <1>2, VerifiedNext, SoundTheorem, PTL DEF Spec

-----------------------------------------------------------------------------
(* A finding is signed *)

(* What the Central Medical Officer has in front of them was not recorded by hand, so
   that a decision which lands in turn never signs what somebody recorded by hand. *)
Signed ==
  /\ MedicalSigned
  /\ medical.status = "submitted" => ~medical.byHand
  /\ inTurn => ~(medical.approved /\ medical.byHand)

LEMMA SignedNext == Sound /\ Signed /\ [Next]_vars => Signed'
<1>. SUFFICES ASSUME Sound, Signed, [Next]_vars
              PROVE  Signed'
  OBVIOUS
<1>1. CASE UNCHANGED medical /\ (inTurn' => inTurn)
  BY <1>1 DEF Signed, MedicalSigned
<1>2. CASE UNCHANGED vars
  BY <1>1, <1>2 DEF vars
<1>3. CASE Hands
  BY <1>1, <1>3, HandsFrame
<1>4. ASSUME NEW r \in Requests, Asks(r)
      PROVE  Signed'
  BY <1>1, <1>4, AskedFor DEF Ask
<1>5. ASSUME NEW r \in Requests,
             \/ Waive(r) \/ VerifyDoc(r) \/ CheckDue(r) \/ CommitAlert(r) \/ CommitUpload(r)
             \/ CommitSubmitted(r) \/ CommitAccept(r) \/ CommitDecline(r) \/ CommitVerify(r)
      PROVE  Signed'
  <2>1. UNCHANGED medical
    BY <1>5 DEF Waive, VerifyDoc, CheckDue, CommitAlert, CommitUpload, CommitSubmitted,
                CommitAccept, CommitDecline, CommitVerify
  <2>2. inTurn' => inTurn
    BY <1>5 DEF Waive, VerifyDoc, CheckDue, CommitAlert, CommitUpload, CommitSubmitted,
                CommitAccept, CommitDecline, CommitVerify, Stays
  <2>. QED
    BY <1>1, <2>1, <2>2
<1>6. ASSUME NEW r \in Requests,
             \/ SaveTicket(r) \/ Mail(r) \/ Undo(r)
             \/ CloseTicket(r) \/ Complete(r) \/ Claim(r) \/ RecordAnswer(r) \/ Fail(r)
      PROVE  Signed'
  <2>1. UNCHANGED medical
    BY <1>6 DEF SaveTicket, Mail, Undo, CloseTicket, Complete, Claim, RecordAnswer, Fail
  <2>2. inTurn' => inTurn
    <3>1. CASE SaveTicket(r)
      BY <3>1, SaveShape DEF Misses, Saves
    <3>2. CASE Claim(r)
      BY <3>2, ClaimShape DEF Misses, Claims
    <3>3. CASE Mail(r) \/ Undo(r) \/ CloseTicket(r) \/ Complete(r) \/ RecordAnswer(r) \/ Fail(r)
      BY <3>3 DEF Mail, Undo, CloseTicket, Complete, RecordAnswer, Fail, Stays
    <3>. QED
      BY <1>6, <3>1, <3>2, <3>3
  <2>. QED
    BY <1>1, <2>1, <2>2
<1>7. ASSUME NEW r \in Requests, CommitMedical(r)
      PROVE  Signed'
  <2>1. req[r].finding \in Findings /\ req[r].byHand \in BOOLEAN
    BY <1>7, ReqType DEF CommitMedical, At, Countable
  <2>2. medical' = Recorded(req[r].finding, req[r].byHand)
    BY <1>7 DEF CommitMedical
  <2>3. /\ ~medical'.approved
        /\ medical'.status \in {"cleared", "rejected"} => medical'.byHand
        /\ medical'.status = "submitted" => ~medical'.byHand
    BY <2>1, <2>2 DEF Recorded, Findings
  <2>. QED
    BY <2>3 DEF Signed, MedicalSigned
<1>8. ASSUME NEW r \in Requests, CommitDecision(r)
      PROVE  Signed'
  <2>1. req[r].finding \in {"cleared", "rejected"}
    BY <1>8, ReqType DEF CommitDecision, At, Countable
  <2>2. medical' = Decided(req[r].verdict, req[r].finding) /\ medical \in Medical
    BY <1>8 DEF CommitDecision, Sound, TypeOK
  <2>3. /\ medical'.status \in {"pending", "cleared", "rejected"}
        /\ medical'.status \in {"cleared", "rejected"} => medical'.approved
        /\ medical'.byHand = medical.byHand
    BY <2>1, <2>2 DEF Decided, Medical
  <2>4. inTurn' => ~medical.byHand
    BY <1>8 DEF CommitDecision, Stays, MayDecide, Signed
  <2>. QED
    BY <2>3, <2>4 DEF Signed, MedicalSigned
<1>. QED
  BY <1>2, <1>3, <1>4, <1>5, <1>6, <1>7, <1>8, EveryStep

(* A finding counts only with somebody's name to it, and as long as every write lands
   in turn with one only, for any number of requests, findings and decisions. *)
THEOREM SignedTheorem == Spec => []MedicalSigned
<1>1. Init => Signed
  BY DEF Init, Signed, MedicalSigned
<1>2. Signed => MedicalSigned
  BY DEF Signed
<1>. QED
  BY <1>1, <1>2, SignedNext, SoundTheorem, PTL DEF Spec

-----------------------------------------------------------------------------
(* HR's address stays *)

(* Whoever read an address of HR's read an onboarding that had ended. *)
Noted ==
  /\ email = "hr" => Has("itNotified")
  /\ \A r \in Requests : req[r].op \in {"claim", "answer"} /\ req[r].email = "hr" => req[r].done

LEMMA NotedFrame ==
  ASSUME Sound, Noted, [Next]_vars, NEW r \in Requests, NEW q, req' = [req EXCEPT ![r] = q],
         q.op \in {"claim", "answer"} /\ q.email = "hr" => q.done,
         email' = "hr" => email = "hr" \/ Has("itNotified")'
  PROVE  Noted'
<1>1. email' = "hr" => Has("itNotified")'
  BY StampsStay DEF Noted
<1>2. ASSUME NEW s \in Requests
      PROVE  req'[s].op \in {"claim", "answer"} /\ req'[s].email = "hr" => req'[s].done
  BY DEF Noted, Sound, TypeOK
<1>. QED
  BY <1>1, <1>2 DEF Noted

LEMMA NotedNext == Sound /\ Noted /\ [Next]_vars => Noted'
<1>. SUFFICES ASSUME Sound, Noted, [Next]_vars
              PROVE  Noted'
  OBVIOUS
<1>1. CASE UNCHANGED vars \/ Hands
  <2>1. UNCHANGED <<email, req>>
    BY <1>1, HandsFrame DEF vars
  <2>. QED
    BY <2>1, StampsStay DEF Noted
<1>2. ASSUME NEW r \in Requests, Asks(r)
      PROVE  Noted'
  <2>1. PICK q \in Request, budget \in {"papers", "medical", "it"} :
          Ask(r, budget, q) /\ Entitled(q)
    BY <1>2, AskedFor
  <2>2. req' = [req EXCEPT ![r] = q] /\ UNCHANGED email
    BY <2>1 DEF Ask, Then
  <2>3. q.op \in {"claim", "answer"} /\ q.email = "hr" => q.done
    BY <2>1 DEF Entitled, Noted
  <2>. QED
    BY <2>2, <2>3, NotedFrame
<1>3. ASSUME NEW r \in Requests,
             \/ Waive(r) \/ VerifyDoc(r) \/ CheckDue(r) \/ CommitAlert(r) \/ CommitUpload(r)
             \/ CommitSubmitted(r) \/ CommitAccept(r) \/ CommitDecline(r)
             \/ CommitMedical(r) \/ CommitDecision(r) \/ CommitVerify(r)
      PROVE  Noted'
  <2>1. PICK q : req' = [req EXCEPT ![r] = q] /\ q.op \in {"none", "due", "alert", "submitted"}
    BY <1>3, PaperStamps
  <2>2. UNCHANGED email
    BY <1>3, PaperStamps
  <2>. QED
    BY <2>1, <2>2, NotedFrame
<1>4. ASSUME NEW r \in Requests, SaveTicket(r) \/ Mail(r) \/ Undo(r) \/ CloseTicket(r) \/ Fail(r)
      PROVE  Noted'
  <2>1. UNCHANGED email
    BY <1>4 DEF SaveTicket, Mail, Undo, CloseTicket, Fail
  <2>2. CASE SaveTicket(r)
    BY <2>1, <2>2, SaveShape, NotedFrame, IdleType DEF Misses, Saves
  <2>3. CASE Mail(r)
    BY <2>1, <2>3, MailShape, NotedFrame, IdleType
  <2>4. CASE Undo(r) \/ Fail(r)
    <3>1. req' = [req EXCEPT ![r] = Idle]
      BY <2>4 DEF Undo, Fail, Then
    <3>. QED
      BY <2>1, <3>1, NotedFrame, IdleType
  <2>5. CASE CloseTicket(r)
    BY <2>1, <2>5, CloseShape, NotedFrame
  <2>. QED
    BY <1>4, <2>2, <2>3, <2>4, <2>5
<1>5. ASSUME NEW r \in Requests, Complete(r)
      PROVE  Noted'
  <2>1. req' = [req EXCEPT ![r] = Idle] /\ Has("itNotified")'
    BY <1>5 DEF Complete, Then, Has
  <2>. QED
    BY <2>1, NotedFrame, IdleType
<1>6. ASSUME NEW r \in Requests, Claim(r)
      PROVE  Noted'
  <2>1. UNCHANGED email
    BY <1>6, ClaimShape
  <2>2. CASE Misses(r)
    BY <2>1, <2>2, NotedFrame, IdleType DEF Misses
  <2>3. ASSUME NEW q \in Request, Claims(r, q)
        PROVE  Noted'
    <3>1. q.email = "hr" => q.done
      BY <1>6, <2>3 DEF Claims, Claim, At, Noted
    <3>2. req' = [req EXCEPT ![r] = q]
      BY <2>3 DEF Claims
    <3>. QED
      BY <2>1, <3>1, <3>2, NotedFrame
  <2>. QED
    BY <1>6, <2>2, <2>3, ClaimShape
<1>7. ASSUME NEW r \in Requests, RecordAnswer(r)
      PROVE  Noted'
  <2>1. req' = [req EXCEPT ![r] = Idle] /\ email' \in {"it", email}
    BY <1>7 DEF RecordAnswer, Then, AddressAfter
  <2>. QED
    BY <2>1, NotedFrame, IdleType
<1>. QED
  BY <1>1, <1>2, <1>3, <1>4, <1>5, <1>6, <1>7, EveryStep

(* An answer that IT opened after HR had recorded an address by hand leaves it. *)
THEOREM AddressTheorem == Spec => HandAddressStays
<1>1. Init => Noted
  BY IdleType DEF Init, Noted
<1>2. ASSUME Sound, Noted, [Next]_vars, email = "hr", email' # "hr"
      PROVE  \E r \in Requests : Complete(r) \/ (At(r, "answer") /\ req[r].email # "hr")
  <2>1. Next
    BY <1>2 DEF vars
  <2>2. ASSUME NEW r \in Requests, RecordAnswer(r)
        PROVE  At(r, "answer") /\ req[r].email # "hr"
    <3>1. At(r, "answer") /\ email' = AddressAfter(req[r].done, req[r].email)
      BY <2>2 DEF RecordAnswer
    <3>2. req[r].email = "hr" => req[r].done
      BY <1>2, <3>1 DEF Noted, At
    <3>. QED
      BY <1>2, <3>1, <3>2 DEF AddressAfter, Completes
  <2>3. \/ \E r \in Requests : Complete(r) \/ RecordAnswer(r)
        \/ UNCHANGED email
    <3>1. CASE Hands
      BY <3>1, HandsFrame
    <3>2. ASSUME NEW r \in Requests, Asks(r)
          PROVE  UNCHANGED email
      BY <1>2, <3>2, AskedFor DEF Ask
    <3>3. ASSUME NEW r \in Requests,
                 \/ Waive(r) \/ VerifyDoc(r) \/ CheckDue(r) \/ CommitAlert(r) \/ CommitUpload(r)
                 \/ CommitSubmitted(r) \/ CommitAccept(r) \/ CommitDecline(r)
                 \/ CommitMedical(r) \/ CommitDecision(r) \/ CommitVerify(r)
          PROVE  UNCHANGED email
      BY <1>2, <3>3, PaperStamps
    <3>4. ASSUME NEW r \in Requests,
                 SaveTicket(r) \/ Mail(r) \/ Undo(r) \/ CloseTicket(r) \/ Claim(r) \/ Fail(r)
          PROVE  UNCHANGED email
      BY <3>4 DEF SaveTicket, Mail, Undo, CloseTicket, Claim, Fail
    <3>. QED
      BY <2>1, <3>1, <3>2, <3>3, <3>4, EveryStep
  <2>. QED
    BY <1>2, <2>2, <2>3
<1>. QED
  BY <1>1, <1>2, NotedNext, SoundTheorem, PTL DEF Spec, HandAddressStays

-----------------------------------------------------------------------------
(* Who owns a link *)

Flying(q) == q.op \in {"mail", "undo"}

(* A link that was not mailed belongs to one request, which is about to mail it or to
   put the row back; an answer came by a link that was mailed. *)
Owned ==
  /\ \A r \in Requests : Flying(req[r]) => links[req[r].link] = "made"
  /\ \A r, s \in Requests : r # s /\ Flying(req[r]) /\ Flying(req[s]) => req[r].link # req[s].link
  /\ \A r \in Requests : At(r, "claim") => /\ req[r].ticket.id # 0
                                           /\ links[req[r].ticket.link] = "mailed"

LEMMA Changed ==
  ASSUME Sound, NEW r \in Requests, NEW q, req' = [req EXCEPT ![r] = q]
  PROVE  req'[r] = q /\ \A s \in Requests \ {r} : req'[s] = req[s]
BY DEF Sound, TypeOK

LEMMA OwnedFrame ==
  ASSUME Sound, Owned, NEW r \in Requests, NEW q, req' = [req EXCEPT ![r] = q], UNCHANGED links,
         Flying(q) => Flying(req[r]) /\ q.link = req[r].link,
         q.op = "claim" => q.ticket.id # 0 /\ links[q.ticket.link] = "mailed"
  PROVE  Owned'
<1>1. req'[r] = q /\ \A s \in Requests \ {r} : req'[s] = req[s]
  BY Changed
<1>2. ASSUME NEW s \in Requests, Flying(req'[s])
      PROVE  Flying(req[s]) /\ req'[s].link = req[s].link
  BY <1>1, <1>2
<1>3. ASSUME NEW s \in Requests
      PROVE  /\ Flying(req'[s]) => links'[req'[s].link] = "made"
             /\ req'[s].op = "claim" => /\ req'[s].ticket.id # 0
                                        /\ links'[req'[s].ticket.link] = "mailed"
  BY <1>1, <1>2 DEF Owned, At
<1>4. ASSUME NEW s \in Requests, NEW t \in Requests, s # t, Flying(req'[s]), Flying(req'[t])
      PROVE  req'[s].link # req'[t].link
  BY <1>2, <1>4 DEF Owned
<1>. QED
  BY <1>3, <1>4 DEF Owned, At, Flying

(* A link that was made stays where it is, and one that was mailed stays mailed. *)
LEMMA SaveOwned ==
  ASSUME Sound, Owned, NEW r \in Requests, NEW q \in Request, Saves(r, q)
  PROVE  Owned'
<1>1. req'[r] = q /\ \A s \in Requests \ {r} : req'[s] = req[s]
  BY Changed DEF Saves
<1>2. links \in Seq({"made", "mailed"}) /\ Len(links) \in Nat /\ DOMAIN links = 1 .. Len(links)
  BY DEF Sound, TypeOK
<1>3. /\ links' = Append(links, "made") /\ q.link = Len(links) + 1
      /\ q.op = "mail"
  BY DEF Saves
<1>4. links'[q.link] = "made" /\ \A l \in DOMAIN links : links'[l] = links[l]
  BY <1>2, <1>3
<1>5. ASSUME NEW s \in Requests, Flying(req[s])
      PROVE  req[s].link \in DOMAIN links
  BY <1>5, ReqType DEF Countable, Flying
<1>6. ASSUME NEW s \in Requests, At(s, "claim")
      PROVE  req[s].ticket.link \in DOMAIN links
  BY <1>6, ReqType, NoTicketType DEF Countable, Linked, Owned
<1>7. ASSUME NEW s \in Requests
      PROVE  /\ Flying(req'[s]) => links'[req'[s].link] = "made"
             /\ req'[s].op = "claim" => /\ req'[s].ticket.id # 0
                                        /\ links'[req'[s].ticket.link] = "mailed"
  <2>1. CASE s = r
    BY <1>1, <1>3, <1>4, <2>1
  <2>2. CASE s # r
    BY <1>1, <1>4, <1>5, <1>6, <2>2 DEF Owned, At
  <2>. QED
    BY <2>1, <2>2
<1>8. ASSUME NEW s \in Requests, NEW t \in Requests, s # t, Flying(req'[s]), Flying(req'[t])
      PROVE  req'[s].link # req'[t].link
  <2>1. CASE s # r /\ t # r
    BY <1>1, <1>8, <2>1 DEF Owned
  <2>2. CASE s = r
    <3>1. req[t].link \in DOMAIN links /\ req'[t] = req[t]
      BY <1>1, <1>5, <1>8, <2>2
    <3>. QED
      BY <1>1, <1>2, <1>3, <2>2, <3>1
  <2>3. CASE t = r
    <3>1. req[s].link \in DOMAIN links /\ req'[s] = req[s]
      BY <1>1, <1>5, <1>8, <2>3
    <3>. QED
      BY <1>1, <1>2, <1>3, <2>3, <3>1
  <2>. QED
    BY <2>1, <2>2, <2>3
<1>. QED
  BY <1>7, <1>8 DEF Owned, At, Flying

LEMMA MailedOwned ==
  ASSUME Sound, Owned, NEW r \in Requests, Flying(req[r]),
         req' = [req EXCEPT ![r] = Idle], links' = [links EXCEPT ![req[r].link] = "mailed"]
  PROVE  Owned'
<1>1. req'[r] = Idle /\ \A s \in Requests \ {r} : req'[s] = req[s]
  BY Changed
<1>2. links \in Seq({"made", "mailed"}) /\ DOMAIN links = 1 .. Len(links)
  BY DEF Sound, TypeOK
<1>3. \A l \in DOMAIN links : l # req[r].link => links'[l] = links[l]
  BY <1>2
<1>4. ~Flying(Idle) /\ Idle.op # "claim"
  BY IdleType DEF Flying
<1>5. ASSUME NEW s \in Requests, Flying(req[s])
      PROVE  req[s].link \in DOMAIN links
  BY <1>5, ReqType DEF Countable, Flying
<1>6. ASSUME NEW s \in Requests
      PROVE  /\ Flying(req'[s]) => links'[req'[s].link] = "made"
             /\ req'[s].op = "claim" => /\ req'[s].ticket.id # 0
                                        /\ links'[req'[s].ticket.link] = "mailed"
  <2>1. CASE s = r
    BY <1>1, <1>4, <2>1
  <2>2. CASE s # r
    <3>1. req'[s] = req[s]
      BY <1>1, <2>2
    <3>2. CASE Flying(req[s])
      <4>1. req[s].link # req[r].link /\ req[s].link \in DOMAIN links
        BY <1>5, <2>2, <3>2 DEF Owned
      <4>. QED
        BY <1>3, <3>1, <3>2, <4>1 DEF Owned, Flying
    <3>3. CASE At(s, "claim")
      <4>1. /\ req[s].ticket.id # 0 /\ links[req[s].ticket.link] = "mailed"
            /\ req[s].ticket.link \in DOMAIN links
        BY <3>3, ReqType, NoTicketType DEF Countable, Linked, Owned
      <4>2. req[s].ticket.link # req[r].link
        BY <4>1 DEF Owned
      <4>. QED
        BY <1>3, <3>1, <3>3, <4>1, <4>2 DEF Flying, At
    <3>. QED
      BY <3>1, <3>2, <3>3 DEF At
  <2>. QED
    BY <2>1, <2>2
<1>7. ASSUME NEW s \in Requests, NEW t \in Requests, s # t, Flying(req'[s]), Flying(req'[t])
      PROVE  req'[s].link # req'[t].link
  <2>1. s # r /\ t # r
    BY <1>1, <1>4, <1>7
  <2>. QED
    BY <1>1, <1>7, <2>1 DEF Owned
<1>. QED
  BY <1>6, <1>7 DEF Owned, At, Flying

(* The steps on papers and on the medical end requests that have no link. *)
LEMMA PaperOps ==
  ASSUME NEW r \in Requests,
         \/ Waive(r) \/ VerifyDoc(r) \/ CheckDue(r) \/ CommitAlert(r) \/ CommitUpload(r)
         \/ CommitSubmitted(r) \/ CommitAccept(r) \/ CommitDecline(r)
         \/ CommitMedical(r) \/ CommitDecision(r) \/ CommitVerify(r)
  PROVE  ~Flying(req[r]) /\ ~At(r, "answer") /\ ~At(r, "complete")
BY DEF Waive, VerifyDoc, CheckDue, CommitAlert, CommitUpload, CommitSubmitted, CommitAccept,
       CommitDecline, CommitMedical, CommitDecision, CommitVerify, At, Flying

LEMMA OwnedNext == Sound /\ Owned /\ [Next]_vars => Owned'
<1>. SUFFICES ASSUME Sound, Owned, [Next]_vars
              PROVE  Owned'
  OBVIOUS
<1>1. CASE UNCHANGED vars \/ Hands
  <2>1. UNCHANGED <<links, req>>
    BY <1>1, HandsFrame DEF vars
  <2>. QED
    BY <2>1 DEF Owned, At, Flying
<1>2. ASSUME NEW r \in Requests, Asks(r)
      PROVE  Owned'
  <2>1. PICK q \in Request, budget \in {"papers", "medical", "it"} :
          Ask(r, budget, q) /\ Entitled(q)
    BY <1>2, AskedFor
  <2>2. req' = [req EXCEPT ![r] = q] /\ UNCHANGED links
    BY <2>1 DEF Ask, Then
  <2>3. ~Flying(q) /\ (q.op = "claim" => q.ticket.id # 0 /\ links[q.ticket.link] = "mailed")
    BY <2>1 DEF Entitled, Flying, Open
  <2>. QED
    BY <2>2, <2>3, OwnedFrame
<1>3. ASSUME NEW r \in Requests,
             \/ Waive(r) \/ VerifyDoc(r) \/ CheckDue(r) \/ CommitAlert(r) \/ CommitUpload(r)
             \/ CommitSubmitted(r) \/ CommitAccept(r) \/ CommitDecline(r)
             \/ CommitMedical(r) \/ CommitDecision(r) \/ CommitVerify(r)
      PROVE  Owned'
  <2>1. PICK q : req' = [req EXCEPT ![r] = q] /\ q.op \in {"none", "due", "alert", "submitted"}
    BY <1>3, PaperStamps
  <2>2. UNCHANGED links
    BY <1>3, PaperStamps
  <2>. QED
    BY <2>1, <2>2, OwnedFrame DEF Flying
<1>4. ASSUME NEW r \in Requests, req' = [req EXCEPT ![r] = Idle], UNCHANGED links
      PROVE  Owned'
  BY <1>4, IdleType, OwnedFrame DEF Flying
<1>5. ASSUME NEW r \in Requests, SaveTicket(r)
      PROVE  Owned'
  BY <1>4, <1>5, SaveShape, SaveOwned DEF Misses
<1>6. ASSUME NEW r \in Requests, Mail(r)
      PROVE  Owned'
  <2>1. Flying(req[r])
    BY <1>6 DEF Mail, At, Flying
  <2>2. ASSUME NEW q, q.op = "undo", q.link = req[r].link, req' = [req EXCEPT ![r] = q],
               UNCHANGED links
        PROVE  Owned'
    BY <2>1, <2>2, OwnedFrame
  <2>. QED
    BY <1>6, <2>1, <2>2, MailShape, MailedOwned
<1>7. ASSUME NEW r \in Requests, Undo(r) \/ Complete(r) \/ RecordAnswer(r) \/ Fail(r)
      PROVE  Owned'
  <2>1. req' = [req EXCEPT ![r] = Idle] /\ UNCHANGED links
    BY <1>7 DEF Undo, Complete, RecordAnswer, Fail, Then
  <2>. QED
    BY <1>4, <2>1
<1>8. ASSUME NEW r \in Requests, CloseTicket(r)
      PROVE  Owned'
  <2>1. PICK q : q.op = "complete" /\ req' = [req EXCEPT ![r] = q]
    BY <1>8, CloseShape
  <2>2. UNCHANGED links
    BY <1>8, CloseShape
  <2>. QED
    BY <2>1, <2>2, OwnedFrame DEF Flying
<1>9. ASSUME NEW r \in Requests, Claim(r)
      PROVE  Owned'
  <2>1. ASSUME NEW q, Claims(r, q)
        PROVE  Owned'
    BY <2>1, OwnedFrame DEF Claims, Flying
  <2>. QED
    BY <1>4, <1>9, <2>1, ClaimShape DEF Misses
<1>. QED
  BY <1>1, <1>2, <1>3, <1>5, <1>6, <1>7, <1>8, <1>9, EveryStep

-----------------------------------------------------------------------------
(* The chain of saves *)

(* The row t is as q saved it, if it carries the link that q made. *)
AsSaved(t, q) == t.link = q.link => t.id = Mine(q) /\ t.answered = q.ticket.answered

(* A link left, or somebody is about to send it or to put the row back. *)
Backed(l, sent, flying) ==
  sent[l] = "mailed" \/ \E s \in Requests : Flying(flying[s]) /\ flying[s].link = l

(* Whoever has still to send a link or to put the row back saved the row later than
   everything it read of it, and earlier than what it finds now: what each read is
   what it puts back, so undoing them in any order goes back along the saves. *)
Chain ==
  /\ ticket.id # 0 => Backed(ticket.link, links, req)
  /\ \A r \in Requests : Flying(req[r]) =>
       /\ req[r].link <= ticket.link
       /\ req[r].ticket.id # 0 => Backed(req[r].ticket.link, links, req)
       /\ AsSaved(ticket, req[r])
  /\ \A r, s \in Requests : Flying(req[r]) /\ Flying(req[s]) =>
       /\ req[s].link < req[r].link => req[s].link <= req[r].ticket.link
       /\ AsSaved(req[r].ticket, req[s])

LEMMA ChainFrame ==
  ASSUME Sound, Chain, NEW r \in Requests, NEW q, req' = [req EXCEPT ![r] = q], UNCHANGED links,
         Flying(q) <=> Flying(req[r]),
         Flying(q) => q.link = req[r].link /\ q.ticket = req[r].ticket,
         ticket'.id = ticket.id, ticket'.link = ticket.link,
         \/ ticket'.answered = ticket.answered
         \/ \A s \in Requests : Flying(req[s]) => req[s].link # ticket.link
  PROVE  Chain'
<1>1. ASSUME NEW s \in Requests
      PROVE  /\ Flying(req'[s]) <=> Flying(req[s])
             /\ Flying(req[s]) => req'[s].link = req[s].link /\ req'[s].ticket = req[s].ticket
  BY Changed
<1>2. ASSUME NEW l
      PROVE  Backed(l, links, req) => Backed(l, links', req')
  BY <1>1 DEF Backed, Flying
<1>3. ticket'.id # 0 => Backed(ticket'.link, links', req')
  BY <1>2 DEF Chain
<1>4. ASSUME NEW s \in Requests, Flying(req'[s])
      PROVE  /\ req'[s].link <= ticket'.link
             /\ req'[s].ticket.id # 0 => Backed(req'[s].ticket.link, links', req')
             /\ AsSaved(ticket', req'[s])
  <2>1. Flying(req[s]) /\ req'[s].link = req[s].link /\ req'[s].ticket = req[s].ticket
    BY <1>1, <1>4
  <2>2. /\ req[s].link <= ticket.link /\ AsSaved(ticket, req[s])
        /\ req[s].ticket.id # 0 => Backed(req[s].ticket.link, links, req)
    BY <2>1 DEF Chain
  <2>3. AsSaved(ticket', req'[s])
    BY <2>1, <2>2 DEF AsSaved, Mine
  <2>. QED
    BY <1>2, <2>1, <2>2, <2>3
<1>5. ASSUME NEW s \in Requests, NEW t \in Requests, Flying(req'[s]), Flying(req'[t])
      PROVE  /\ req'[t].link < req'[s].link => req'[t].link <= req'[s].ticket.link
             /\ AsSaved(req'[s].ticket, req'[t])
  BY <1>1, <1>5 DEF Chain, AsSaved, Mine
<1>. QED
  BY <1>1, <1>3, <1>4, <1>5 DEF Chain, Flying, AsSaved, Mine, Backed

(* A write out of turn is not forgotten. *)
LEMMA TurnKept ==
  ASSUME Sound, [Next]_vars, inTurn'
  PROVE  inTurn
<1>1. CASE UNCHANGED vars \/ Hands
  BY <1>1, HandsFrame DEF vars
<1>2. ASSUME NEW r \in Requests, Asks(r)
      PROVE  inTurn
  BY <1>2, AskedFor DEF Ask
<1>3. ASSUME NEW r \in Requests,
             \/ Waive(r) \/ VerifyDoc(r) \/ CheckDue(r) \/ CommitAlert(r) \/ CommitUpload(r)
             \/ CommitSubmitted(r) \/ CommitAccept(r) \/ CommitDecline(r)
      PROVE  inTurn
  BY <1>3 DEF Waive, VerifyDoc, CheckDue, CommitAlert, CommitUpload, CommitSubmitted,
              CommitAccept, CommitDecline, Stays
<1>4. ASSUME NEW r \in Requests, CommitMedical(r) \/ CommitDecision(r) \/ CommitVerify(r)
      PROVE  inTurn
  BY <1>4 DEF CommitMedical, CommitDecision, CommitVerify, Stays
<1>5. ASSUME NEW r \in Requests, SaveTicket(r)
      PROVE  inTurn
  BY <1>5, SaveShape DEF Misses, Saves
<1>6. ASSUME NEW r \in Requests, Claim(r)
      PROVE  inTurn
  BY <1>6, ClaimShape DEF Misses, Claims
<1>7. ASSUME NEW r \in Requests,
             Mail(r) \/ Undo(r) \/ CloseTicket(r) \/ Complete(r) \/ RecordAnswer(r) \/ Fail(r)
      PROVE  inTurn
  BY <1>7 DEF Mail, Undo, CloseTicket, Complete, RecordAnswer, Fail, Stays
<1>. QED
  BY <1>1, <1>2, <1>3, <1>4, <1>5, <1>6, <1>7, EveryStep

(* Nobody ends the onboarding without a request. *)
LEMMA HandsNotify ==
  ASSUME Hands
  PROVE  Has("itNotified")' = Has("itNotified")
<1>1. CASE SaveParticulars
  <2>1. PICK p \in Particulars : stamps' \in {stamps \cup {p}, stamps \ {p}}
    BY <1>1 DEF SaveParticulars
  <2>. QED
    BY <2>1 DEF Has, Particulars
<1>2. CASE SendOffer \/ SendAppointmentLetter \/ Archive \/ BoardMoves
  BY <1>2 DEF SendOffer, SendAppointmentLetter, Archive, BoardMoves, Has
<1>. QED
  BY <1>1, <1>2 DEF Hands

(* A save in turn comes after whatever the others saved, and remembers the row as the
   last of them left it. *)
LEMMA SaveChain ==
  ASSUME Sound, Owned, Chain, NEW r \in Requests, At(r, "save"), NEW q \in Request, Saves(r, q),
         ticket = req[r].ticket
  PROVE  Chain'
<1>1. req'[r] = q /\ \A s \in Requests \ {r} : req'[s] = req[s]
  BY Changed DEF Saves
<1>2. /\ links \in Seq({"made", "mailed"}) /\ Len(links) \in Nat /\ DOMAIN links = 1 .. Len(links)
      /\ ticket \in Ticket /\ ticket.link \in Nat /\ Linked(ticket, DOMAIN links)
  BY DEF Sound, TypeOK, Ticket
<1>3. /\ links' = Append(links, "made") /\ q.link = Len(links) + 1 /\ q.op = "mail"
      /\ q.ticket = ticket /\ ticket'.link = q.link /\ ticket'.id = Mine(q)
      /\ ticket'.answered = ticket.answered
  BY DEF Saves
<1>4. ~Flying(req[r]) /\ Flying(q) /\ ticket.link <= Len(links)
  BY <1>2, <1>3, NoTicketType DEF At, Flying, Linked
<1>5. ASSUME NEW s \in Requests, Flying(req'[s]), s # r
      PROVE  /\ Flying(req[s]) /\ req'[s] = req[s]
             /\ req[s].link \in Nat /\ req[s].link <= Len(links)
             /\ req[s].ticket.link \in Nat /\ req[s].ticket.link < req[s].link
             /\ req[s].ticket.link \in DOMAIN links \/ req[s].ticket.id = 0
  <2>1. Flying(req[s]) /\ req'[s] = req[s]
    BY <1>1, <1>5
  <2>2. Countable(req[s], DOMAIN links) /\ req[s].link \in Nat /\ req[s].ticket \in Ticket
    BY ReqType
  <2>3. req[s].link \in DOMAIN links /\ req[s].ticket.link < req[s].link
        /\ Linked(req[s].ticket, DOMAIN links)
    BY <2>1, <2>2 DEF Countable, Flying
  <2>4. req[s].ticket.link \in Nat
    BY <2>2 DEF Ticket
  <2>. QED
    BY <1>2, <2>1, <2>2, <2>3, <2>4, NoTicketType DEF Linked
<1>6. ASSUME NEW l \in DOMAIN links, Backed(l, links, req)
      PROVE  Backed(l, links', req')
  <2>1. CASE links[l] = "mailed"
    BY <1>2, <1>3, <2>1 DEF Backed
  <2>2. CASE \E s \in Requests : Flying(req[s]) /\ req[s].link = l
    <3>1. PICK s \in Requests : Flying(req[s]) /\ req[s].link = l
      BY <2>2
    <3>2. req'[s] = req[s]
      BY <1>1, <1>4, <3>1
    <3>. QED
      BY <3>1, <3>2 DEF Backed, Flying
  <2>. QED
    BY <1>6, <2>1, <2>2 DEF Backed
<1>7. Backed(ticket'.link, links', req')
  BY <1>1, <1>3, <1>4 DEF Backed, Flying
<1>8. ASSUME NEW s \in Requests, Flying(req'[s])
      PROVE  /\ req'[s].link <= ticket'.link
             /\ req'[s].ticket.id # 0 => Backed(req'[s].ticket.link, links', req')
             /\ AsSaved(ticket', req'[s])
  <2>1. CASE s = r
    <3>1. req'[s] = q
      BY <1>1, <2>1
    <3>2. ticket.id # 0 => ticket.link \in DOMAIN links /\ Backed(ticket.link, links, req)
      BY <1>2, NoTicketType DEF Linked, Chain
    <3>3. q.link <= ticket'.link
      BY <1>2, <1>3
    <3>. QED
      BY <1>3, <1>6, <3>1, <3>2, <3>3 DEF AsSaved
  <2>2. CASE s # r
    <3>1. req[s].ticket.id # 0 => Backed(req[s].ticket.link, links, req)
      BY <1>5, <1>8, <2>2 DEF Chain
    <3>2. req[s].link < ticket'.link
      BY <1>2, <1>3, <1>5, <1>8, <2>2
    <3>3. req'[s] = req[s] /\ req[s].link \in Nat
      BY <1>5, <1>8, <2>2
    <3>4. req[s].link # ticket'.link /\ req[s].link <= ticket'.link
      BY <1>2, <1>3, <3>2, <3>3
    <3>5. req[s].ticket.id # 0 => Backed(req[s].ticket.link, links', req')
      BY <1>5, <1>6, <1>8, <2>2, <3>1
    <3>. QED
      BY <3>3, <3>4, <3>5 DEF AsSaved
  <2>. QED
    BY <2>1, <2>2
<1>9. ASSUME NEW s \in Requests, NEW t \in Requests, Flying(req'[s]), Flying(req'[t])
      PROVE  /\ req'[t].link < req'[s].link => req'[t].link <= req'[s].ticket.link
             /\ AsSaved(req'[s].ticket, req'[t])
  <2>1. CASE s # r /\ t # r
    BY <1>5, <1>9, <2>1 DEF Chain
  <2>2. CASE t = r
    <3>1. req'[t].link = Len(links) + 1
      BY <1>1, <1>3, <2>2
    <3>2. req'[s].ticket.link < Len(links) + 1 /\ req'[s].link <= Len(links) + 1
          /\ req'[s].link \in Nat /\ req'[s].ticket.link \in Nat
      BY <1>1, <1>2, <1>3, <1>4, <1>5, <1>9
    <3>. QED
      BY <1>2, <3>1, <3>2 DEF AsSaved
  <2>3. CASE s = r /\ t # r
    <3>1. req'[s].ticket = ticket /\ req'[t] = req[t] /\ Flying(req[t])
      BY <1>1, <1>3, <1>5, <1>9, <2>3
    <3>. QED
      BY <3>1 DEF Chain
  <2>. QED
    BY <2>1, <2>2, <2>3
<1>. QED
  BY <1>7, <1>8, <1>9 DEF Chain, Flying, AsSaved, Mine, Backed

(* A mail that leaves takes its link out of the chain, mailed. *)
LEMMA MailedChain ==
  ASSUME Sound, Owned, Chain, NEW r \in Requests, Flying(req[r]), UNCHANGED ticket,
         req' = [req EXCEPT ![r] = Idle], links' = [links EXCEPT ![req[r].link] = "mailed"]
  PROVE  Chain'
<1>1. req'[r] = Idle /\ \A s \in Requests \ {r} : req'[s] = req[s]
  BY Changed
<1>2. ~Flying(Idle)
  BY IdleType DEF Flying
<1>3. req[r].link \in DOMAIN links
  BY ReqType DEF Countable, Flying
<1>4. links' [req[r].link] = "mailed" /\ \A l \in DOMAIN links : links[l] = "mailed" => links'[l] = "mailed"
  BY <1>3
<1>5. ASSUME NEW l \in DOMAIN links, Backed(l, links, req)
      PROVE  Backed(l, links', req')
  <2>1. CASE links[l] = "mailed"
    BY <1>4, <2>1 DEF Backed
  <2>2. CASE \E s \in Requests : Flying(req[s]) /\ req[s].link = l
    <3>1. PICK s \in Requests : Flying(req[s]) /\ req[s].link = l
      BY <2>2
    <3>. QED
      BY <1>1, <1>4, <3>1 DEF Backed, Flying
  <2>. QED
    BY <1>5, <2>1, <2>2 DEF Backed
<1>6. ASSUME NEW s \in Requests, Flying(req'[s])
      PROVE  /\ Flying(req[s]) /\ req'[s] = req[s]
             /\ req[s].ticket.id # 0 => req[s].ticket.link \in DOMAIN links
  <2>1. s # r /\ Flying(req[s]) /\ req'[s] = req[s]
    BY <1>1, <1>2, <1>6
  <2>2. Linked(req[s].ticket, DOMAIN links)
    BY ReqType DEF Countable
  <2>. QED
    BY <2>1, <2>2, NoTicketType DEF Linked
<1>7. ticket.id # 0 => Backed(ticket.link, links', req')
  <2>1. ticket.id # 0 => ticket.link \in DOMAIN links
    BY NoTicketType DEF Sound, Linked
  <2>. QED
    BY <1>5, <2>1 DEF Chain
<1>8. ASSUME NEW s \in Requests, Flying(req'[s])
      PROVE  /\ req'[s].link <= ticket'.link
             /\ req'[s].ticket.id # 0 => Backed(req'[s].ticket.link, links', req')
             /\ AsSaved(ticket', req'[s])
  BY <1>5, <1>6, <1>8 DEF Chain
<1>9. ASSUME NEW s \in Requests, NEW t \in Requests, Flying(req'[s]), Flying(req'[t])
      PROVE  /\ req'[t].link < req'[s].link => req'[t].link <= req'[s].ticket.link
             /\ AsSaved(req'[s].ticket, req'[t])
  BY <1>6, <1>9 DEF Chain
<1>. QED
  BY <1>7, <1>8, <1>9 DEF Chain, Flying, AsSaved, Mine, Backed

(* An undo in turn finds the row as the request saved it and puts it back as the
   request read it, which is where the chain without that request ends. *)
LEMMA UndoChain ==
  ASSUME Sound, Owned, Chain, NEW r \in Requests, Undo(r), inTurn'
  PROVE  /\ Chain'
         /\ ticket'.answered = ticket.answered
         /\ Open(ticket') => Open(ticket)
<1>0. Flying(req[r])
  BY DEF Undo, At, Flying
<1>1. req'[r] = Idle /\ \A s \in Requests \ {r} : req'[s] = req[s]
  BY UndoShape, Changed
<1>2. ticket.link = req[r].link /\ ~ticket.closed /\ UNCHANGED links
  BY UndoShape
<1>3. ticket.id = Mine(req[r]) /\ ticket.answered = req[r].ticket.answered
  BY <1>0, <1>2 DEF Chain, AsSaved
<1>4. ticket' = PutBack(ticket, req[r].ticket)
  BY <1>3, UndoShape
<1>5. /\ ticket \in Ticket /\ req[r].ticket \in Ticket /\ ticket.link \in Nat
      /\ req[r].ticket.link \in Nat /\ req[r].ticket.link < req[r].link
      /\ Linked(req[r].ticket, DOMAIN links)
  <2>1. ticket \in Ticket /\ req[r].ticket \in Ticket
    BY ReqType DEF Sound, TypeOK
  <2>. QED
    BY <1>0, <2>1, ReqType DEF Countable, Flying, Ticket
<1>6. /\ ticket'.id = req[r].ticket.id /\ ticket'.link = req[r].ticket.link
      /\ ticket'.answered = req[r].ticket.answered
  <2>1. CASE req[r].ticket.id = 0
    BY <1>4, <1>5, <2>1, PutBackFields DEF Linked
  <2>2. CASE req[r].ticket.id # 0
    BY <1>3, <1>4, <1>5, <2>2, PutBackFields DEF Mine
  <2>. QED
    BY <2>1, <2>2
<1>7. ASSUME Open(ticket')
      PROVE  Open(ticket)
  <2>1. req[r].ticket.id # 0 /\ ~req[r].ticket.answered
    BY <1>6, <1>7 DEF Open
  <2>. QED
    BY <1>2, <1>3, <2>1 DEF Open, Mine
<1>8. ASSUME NEW s \in Requests, Flying(req'[s])
      PROVE  /\ Flying(req[s]) /\ req'[s] = req[s] /\ s # r
             /\ req[s].link \in Nat /\ req[s].link < req[r].link
             /\ req[s].ticket.link \in Nat /\ req[s].ticket.link < req[s].link
  <2>1. s # r /\ Flying(req[s]) /\ req'[s] = req[s]
    BY <1>1, <1>8, IdleType DEF Flying
  <2>2. req[s].link \in Nat /\ req[r].link \in Nat /\ req[s].ticket \in Ticket
        /\ Countable(req[s], DOMAIN links)
    BY ReqType
  <2>3. req[s].ticket.link \in Nat /\ req[s].ticket.link < req[s].link
    BY <2>1, <2>2 DEF Countable, Flying, Ticket
  <2>4. req[s].link # req[r].link /\ req[s].link <= ticket.link
    BY <1>0, <2>1 DEF Owned, Chain
  <2>. QED
    BY <1>2, <2>1, <2>2, <2>3, <2>4
<1>9. ASSUME NEW l, l < req[r].link, l \in Nat, Backed(l, links, req)
      PROVE  Backed(l, links', req')
  <2>1. CASE links[l] = "mailed"
    BY <1>2, <2>1 DEF Backed
  <2>2. CASE \E s \in Requests : Flying(req[s]) /\ req[s].link = l
    <3>1. PICK s \in Requests : Flying(req[s]) /\ req[s].link = l
      BY <2>2
    <3>2. s # r
      BY <1>9, <3>1
    <3>. QED
      BY <1>1, <3>1, <3>2 DEF Backed, Flying
  <2>. QED
    BY <1>9, <2>1, <2>2 DEF Backed
<1>10. ticket'.id # 0 => Backed(ticket'.link, links', req')
  BY <1>0, <1>5, <1>6, <1>9 DEF Chain
<1>11. ASSUME NEW s \in Requests, Flying(req'[s])
       PROVE  /\ req'[s].link <= ticket'.link
              /\ req'[s].ticket.id # 0 => Backed(req'[s].ticket.link, links', req')
              /\ AsSaved(ticket', req'[s])
  <2>1. Flying(req[s]) /\ req'[s] = req[s] /\ req[s].link < req[r].link
    BY <1>8, <1>11
  <2>2. req[s].link <= req[r].ticket.link /\ AsSaved(req[r].ticket, req[s])
    BY <1>0, <2>1 DEF Chain
  <2>3. req[s].ticket.id # 0 => Backed(req[s].ticket.link, links, req)
    BY <2>1 DEF Chain
  <2>4. req[s].ticket.link \in Nat /\ req[s].ticket.link < req[r].link
    BY <1>2, <1>5, <1>8, <1>11, ReqType
  <2>5. req[s].ticket.id # 0 => Backed(req[s].ticket.link, links', req')
    BY <1>9, <2>3, <2>4
  <2>. QED
    BY <1>6, <2>1, <2>2, <2>5 DEF AsSaved
<1>12. ASSUME NEW s \in Requests, NEW t \in Requests, Flying(req'[s]), Flying(req'[t])
       PROVE  /\ req'[t].link < req'[s].link => req'[t].link <= req'[s].ticket.link
              /\ AsSaved(req'[s].ticket, req'[t])
  BY <1>8, <1>12 DEF Chain
<1>13. Chain'
  BY <1>10, <1>11, <1>12 DEF Chain, Flying, AsSaved, Mine, Backed
<1>. QED
  BY <1>3, <1>6, <1>7, <1>13

LEMMA ChainNext ==
  Sound /\ Owned /\ (inTurn => Chain) /\ [Next]_vars => (inTurn' => Chain')
<1>. SUFFICES ASSUME Sound, Owned, inTurn => Chain, [Next]_vars, inTurn'
              PROVE  Chain'
  OBVIOUS
<1>0. inTurn /\ Chain
  BY TurnKept
<1>1. CASE UNCHANGED vars \/ Hands
  <2>1. UNCHANGED <<links, req, ticket>>
    BY <1>1, HandsFrame DEF vars
  <2>. QED
    BY <1>0, <2>1 DEF Chain, Flying, AsSaved, Mine, Backed
<1>2. ASSUME NEW r \in Requests, NEW q, req' = [req EXCEPT ![r] = q],
             ~Flying(q), ~Flying(req[r]), UNCHANGED <<ticket, links>>
      PROVE  Chain'
  BY <1>0, <1>2, ChainFrame
<1>3. ASSUME NEW r \in Requests, req' = [req EXCEPT ![r] = Idle], ~Flying(req[r]),
             UNCHANGED <<ticket, links>>
      PROVE  Chain'
  BY <1>2, <1>3, IdleType DEF Flying
<1>4. ASSUME NEW r \in Requests, Asks(r)
      PROVE  Chain'
  <2>1. PICK q \in Request, budget \in {"papers", "medical", "it"} :
          Ask(r, budget, q) /\ Entitled(q)
    BY <1>4, AskedFor
  <2>2. req' = [req EXCEPT ![r] = q] /\ At(r, "none") /\ UNCHANGED <<ticket, links>>
    BY <2>1 DEF Ask, Then
  <2>3. ~Flying(q) /\ ~Flying(req[r])
    BY <2>1, <2>2 DEF Entitled, Flying, At
  <2>. QED
    BY <1>2, <2>2, <2>3
<1>5. ASSUME NEW r \in Requests,
             \/ Waive(r) \/ VerifyDoc(r) \/ CheckDue(r) \/ CommitAlert(r) \/ CommitUpload(r)
             \/ CommitSubmitted(r) \/ CommitAccept(r) \/ CommitDecline(r)
             \/ CommitMedical(r) \/ CommitDecision(r) \/ CommitVerify(r)
      PROVE  Chain'
  <2>1. PICK q : req' = [req EXCEPT ![r] = q] /\ q.op \in {"none", "due", "alert", "submitted"}
    BY <1>5, PaperStamps
  <2>2. UNCHANGED <<ticket, links>>
    BY <1>5, PaperStamps
  <2>3. ~Flying(q) /\ ~Flying(req[r])
    BY <1>5, <2>1, PaperOps DEF Flying
  <2>. QED
    BY <1>2, <2>1, <2>2, <2>3
<1>6. ASSUME NEW r \in Requests, SaveTicket(r)
      PROVE  Chain'
  <2>1. At(r, "save") /\ ~Flying(req[r])
    BY <1>6 DEF SaveTicket, At, Flying
  <2>2. ASSUME NEW q \in Request, Saves(r, q)
        PROVE  Chain'
    <3>1. ticket = req[r].ticket
      BY <2>2 DEF Saves
    <3>. QED
      BY <1>0, <2>1, <2>2, <3>1, SaveChain
  <2>3. CASE Misses(r)
    BY <1>3, <2>1, <2>3 DEF Misses
  <2>. QED
    BY <1>6, <2>2, <2>3, SaveShape
<1>7. ASSUME NEW r \in Requests, Mail(r)
      PROVE  Chain'
  <2>1. Flying(req[r]) /\ UNCHANGED ticket
    BY <1>7, MailShape DEF Mail, At, Flying
  <2>2. CASE req' = [req EXCEPT ![r] = Idle] /\ links' = [links EXCEPT ![req[r].link] = "mailed"]
    BY <1>0, <2>1, <2>2, MailedChain
  <2>3. ASSUME NEW q, q.op = "undo", q.ticket = req[r].ticket, q.link = req[r].link,
               req' = [req EXCEPT ![r] = q], UNCHANGED links
        PROVE  Chain'
    <3>1. Flying(q)
      BY <2>3 DEF Flying
    <3>. QED
      BY <1>0, <2>1, <2>3, <3>1, ChainFrame
  <2>. QED
    BY <1>7, <2>2, <2>3, MailShape
<1>8. ASSUME NEW r \in Requests, Undo(r)
      PROVE  Chain'
  BY <1>0, <1>8, UndoChain
<1>9. ASSUME NEW r \in Requests, CloseTicket(r)
      PROVE  Chain'
  <2>1. PICK q : q.op = "complete" /\ req' = [req EXCEPT ![r] = q]
    BY <1>9, CloseShape
  <2>2. UNCHANGED links /\ ticket' = Closed(ticket) /\ ticket \in Ticket
    BY <1>9, CloseShape DEF Sound, TypeOK
  <2>3. /\ ticket'.id = ticket.id /\ ticket'.link = ticket.link
        /\ ticket'.answered = ticket.answered
    BY <2>2, ClosedFields
  <2>4. ~Flying(q) /\ ~Flying(req[r])
    BY <1>9, <2>1 DEF CloseTicket, At, Flying
  <2>. QED
    BY <1>0, <2>1, <2>2, <2>3, <2>4, ChainFrame
<1>10. ASSUME NEW r \in Requests, Claim(r)
       PROVE  Chain'
  <2>1. ~Flying(req[r])
    BY <1>10 DEF Claim, At, Flying
  <2>2. CASE Misses(r)
    BY <1>3, <2>1, <2>2 DEF Misses
  <2>3. ASSUME NEW q \in Request, Claims(r, q)
        PROVE  Chain'
    <3>1. links[ticket.link] = "mailed"
      BY <1>10, <2>3 DEF Claims, Claim, Owned
    <3>2. \A s \in Requests : Flying(req[s]) => req[s].link # ticket.link
      BY <3>1 DEF Owned
    <3>3. /\ req' = [req EXCEPT ![r] = q] /\ UNCHANGED links /\ ~Flying(q)
          /\ ticket'.id = ticket.id /\ ticket'.link = ticket.link
      BY <2>3 DEF Claims, Flying
    <3>. QED
      BY <1>0, <2>1, <3>2, <3>3, ChainFrame
  <2>. QED
    BY <1>10, <2>2, <2>3, ClaimShape
<1>11. ASSUME NEW r \in Requests, Complete(r) \/ RecordAnswer(r) \/ Fail(r)
       PROVE  Chain'
  <2>1. req' = [req EXCEPT ![r] = Idle] /\ UNCHANGED <<ticket, links>>
    BY <1>11 DEF Complete, RecordAnswer, Fail, Then
  <2>2. ~Flying(req[r])
    BY <1>11 DEF Complete, RecordAnswer, Fail, Stays, At, Flying
  <2>. QED
    BY <1>3, <2>1, <2>2
<1>. QED
  BY <1>1, <1>4, <1>5, <1>6, <1>7, <1>8, <1>9, <1>10, <1>11, EveryStep

-----------------------------------------------------------------------------
(* How requests to IT end *)

(* Whoever is about to end the onboarding by hand has closed the request, whoever is
   about to record IT's answer has marked it answered. *)
Ended ==
  /\ Has("itNotified") => ~Open(ticket)
  /\ ticket.answered => Has("itNotified") \/ \E r \in Requests : At(r, "answer")
  /\ \A r \in Requests : /\ At(r, "answer") => ticket.answered
                         /\ At(r, "complete") => ~Open(ticket)

LEMMA EndedFrame ==
  ASSUME Sound, Ended, NEW r \in Requests, NEW q, req' = [req EXCEPT ![r] = q],
         Has("itNotified")' = Has("itNotified"),
         q.op \notin {"answer", "complete"}, ~At(r, "answer"),
         Open(ticket') => Open(ticket), ticket'.answered = ticket.answered
  PROVE  Ended'
<1>1. req'[r] = q /\ \A s \in Requests \ {r} : req'[s] = req[s]
  BY Changed
<1>2. Has("itNotified")' => ~Open(ticket')
  BY DEF Ended
<1>3. ASSUME ticket'.answered, ~Has("itNotified")'
      PROVE  \E s \in Requests : req'[s].op = "answer"
  BY <1>1, <1>3 DEF Ended, At
<1>4. ASSUME NEW s \in Requests
      PROVE  /\ req'[s].op = "answer" => ticket'.answered
             /\ req'[s].op = "complete" => ~Open(ticket')
  BY <1>1 DEF Ended, At
<1>. QED
  BY <1>2, <1>3, <1>4 DEF Ended, At

LEMMA EndedNext ==
  ASSUME Sound, Owned, inTurn => Chain /\ Ended, [Next]_vars, inTurn'
  PROVE  Ended'
<1>0. inTurn /\ Chain /\ Ended
  BY TurnKept
<1>1. CASE UNCHANGED vars \/ Hands
  <2>1. UNCHANGED <<req, ticket>> /\ Has("itNotified")' = Has("itNotified")
    BY <1>1, HandsFrame, HandsNotify DEF vars, Has
  <2>. QED
    BY <1>0, <2>1 DEF Ended, At, Open
<1>2. ASSUME NEW r \in Requests, Asks(r)
      PROVE  Ended'
  <2>1. PICK q \in Request, budget \in {"papers", "medical", "it"} :
          Ask(r, budget, q) /\ Entitled(q)
    BY <1>2, AskedFor
  <2>2. req' = [req EXCEPT ![r] = q] /\ At(r, "none") /\ UNCHANGED <<ticket, stamps>>
    BY <2>1 DEF Ask, Then
  <2>3. q.op \notin {"answer", "complete"} /\ ~At(r, "answer")
    BY <2>1, <2>2 DEF Entitled, At
  <2>. QED
    BY <1>0, <2>2, <2>3, EndedFrame DEF Has
<1>3. ASSUME NEW r \in Requests,
             \/ Waive(r) \/ VerifyDoc(r) \/ CheckDue(r) \/ CommitAlert(r) \/ CommitUpload(r)
             \/ CommitSubmitted(r) \/ CommitAccept(r) \/ CommitDecline(r)
             \/ CommitMedical(r) \/ CommitDecision(r) \/ CommitVerify(r)
      PROVE  Ended'
  <2>1. PICK q : req' = [req EXCEPT ![r] = q] /\ q.op \in {"none", "due", "alert", "submitted"}
    BY <1>3, PaperStamps
  <2>2. UNCHANGED ticket /\ Has("itNotified")' = Has("itNotified")
    BY <1>3, PaperStamps DEF Has
  <2>3. ~At(r, "answer")
    BY <1>3, PaperOps
  <2>. QED
    BY <1>0, <2>1, <2>2, <2>3, EndedFrame
<1>4. ASSUME NEW r \in Requests, req' = [req EXCEPT ![r] = Idle], ~At(r, "answer"),
             Has("itNotified")' = Has("itNotified"),
             Open(ticket') => Open(ticket), ticket'.answered = ticket.answered
      PROVE  Ended'
  BY <1>0, <1>4, IdleType, EndedFrame
<1>5. ASSUME NEW r \in Requests, SaveTicket(r)
      PROVE  Ended'
  <2>1. UNCHANGED stamps /\ ~At(r, "answer")
    BY <1>5, SaveShape DEF SaveTicket, At
  <2>2. CASE Misses(r)
    BY <1>4, <2>1, <2>2 DEF Misses, Has
  <2>3. ASSUME NEW q \in Request, Saves(r, q)
        PROVE  Ended'
    <3>1. req'[r] = q /\ \A s \in Requests \ {r} : req'[s] = req[s]
      BY <2>3, Changed DEF Saves
    <3>2. /\ q.op = "mail" /\ ticket'.answered = ticket.answered
          /\ ~Has("itNotified") /\ \A s \in Requests : ~At(s, "complete")
      BY <2>3 DEF Saves, MayRequestIt
    <3>3. ~Has("itNotified")'
      BY <2>1, <3>2 DEF Has
    <3>4. ticket'.answered => \E s \in Requests : req'[s].op = "answer"
      BY <1>0, <2>1, <3>1, <3>2 DEF Ended, At
    <3>5. ASSUME NEW s \in Requests
          PROVE  (req'[s].op = "answer" => ticket'.answered) /\ req'[s].op # "complete"
      BY <1>0, <3>1, <3>2 DEF Ended, At
    <3>. QED
      BY <3>3, <3>4, <3>5 DEF Ended, At
  <2>. QED
    BY <1>5, <2>2, <2>3, SaveShape
<1>6. ASSUME NEW r \in Requests, Mail(r)
      PROVE  Ended'
  <2>1. PICK q : req' = [req EXCEPT ![r] = q] /\ q.op \in {"none", "undo"}
    BY <1>6, MailShape, IdleType
  <2>2. UNCHANGED <<stamps, ticket>> /\ ~At(r, "answer")
    BY <1>6, MailShape DEF Mail, At
  <2>. QED
    BY <1>0, <2>1, <2>2, EndedFrame DEF Has
<1>7. ASSUME NEW r \in Requests, Undo(r)
      PROVE  Ended'
  <2>1. ticket'.answered = ticket.answered /\ (Open(ticket') => Open(ticket))
    BY <1>0, <1>7, UndoChain
  <2>2. req' = [req EXCEPT ![r] = Idle] /\ UNCHANGED stamps /\ ~At(r, "answer")
    BY <1>7, UndoShape DEF Undo, At
  <2>. QED
    BY <1>4, <2>1, <2>2 DEF Has
<1>8. ASSUME NEW r \in Requests, CloseTicket(r)
      PROVE  Ended'
  <2>1. PICK q : q.op = "complete" /\ req' = [req EXCEPT ![r] = q]
    BY <1>8, CloseShape
  <2>2. UNCHANGED stamps /\ ticket' = Closed(ticket) /\ ticket \in Ticket /\ ~At(r, "answer")
    BY <1>8, CloseShape DEF Sound, TypeOK, CloseTicket, At
  <2>3. ~Open(ticket') /\ ticket'.answered = ticket.answered
    BY <2>2, ClosedFields
  <2>4. req'[r] = q /\ \A s \in Requests \ {r} : req'[s] = req[s]
    BY <2>1, Changed
  <2>5. ASSUME ticket'.answered, ~Has("itNotified")'
        PROVE  \E s \in Requests : req'[s].op = "answer"
    BY <1>0, <2>2, <2>3, <2>4, <2>5 DEF Ended, At, Has
  <2>6. ASSUME NEW s \in Requests, req'[s].op = "answer"
        PROVE  ticket'.answered
    BY <1>0, <2>1, <2>3, <2>4, <2>6 DEF Ended, At
  <2>. QED
    BY <2>3, <2>5, <2>6 DEF Ended, At
<1>9. ASSUME NEW r \in Requests, Complete(r)
      PROVE  Ended'
  <2>1. req' = [req EXCEPT ![r] = Idle] /\ UNCHANGED ticket /\ Has("itNotified")'
    BY <1>9 DEF Complete, Then, Has
  <2>2. ~Open(ticket)
    BY <1>0, <1>9 DEF Complete, Ended
  <2>3. req'[r] = Idle /\ \A s \in Requests \ {r} : req'[s] = req[s]
    BY <2>1, Changed
  <2>4. ASSUME NEW s \in Requests, req'[s].op = "answer"
        PROVE  ticket.answered
    BY <1>0, <2>3, <2>4, IdleType DEF Ended, At
  <2>. QED
    BY <2>1, <2>2, <2>4 DEF Ended, At, Open
<1>10. ASSUME NEW r \in Requests, Claim(r)
       PROVE  Ended'
  <2>1. UNCHANGED stamps /\ ~At(r, "answer")
    BY <1>10, ClaimShape DEF Claim, At
  <2>2. CASE Misses(r)
    BY <1>4, <2>1, <2>2 DEF Misses, Has
  <2>3. ASSUME NEW q \in Request, Claims(r, q)
        PROVE  Ended'
    <3>1. ticket'.answered /\ ~Open(ticket')
      BY <2>3 DEF Claims, Open
    <3>2. req'[r].op = "answer"
      BY <2>3, Changed DEF Claims
    <3>. QED
      BY <3>1, <3>2 DEF Ended, At
  <2>. QED
    BY <1>10, <2>2, <2>3, ClaimShape
<1>11. ASSUME NEW r \in Requests, RecordAnswer(r)
       PROVE  Ended'
  <2>1. /\ req' = [req EXCEPT ![r] = Idle] /\ UNCHANGED ticket
        /\ At(r, "answer") /\ Has("itNotified") = req[r].done
    BY <1>11 DEF RecordAnswer, Then, Stays
  <2>2. ticket.answered /\ ~Open(ticket)
    BY <1>0, <2>1 DEF Ended, Open
  <2>3. Has("itNotified")'
    BY <1>11, <2>1 DEF RecordAnswer, Completes, Has
  <2>. QED
    BY <2>1, <2>2, <2>3 DEF Ended, Open
<1>12. ASSUME NEW r \in Requests, Fail(r)
       PROVE  Ended'
  <2>1. req' = [req EXCEPT ![r] = Idle] /\ UNCHANGED <<ticket, stamps>>
    BY <1>12 DEF Fail, Then
  <2>2. ~At(r, "answer")
    BY <1>12 DEF Fail, Stays, At
  <2>. QED
    BY <1>4, <2>1, <2>2 DEF Has
<1>. QED
  BY <1>1, <1>2, <1>3, <1>5, <1>6, <1>7, <1>8, <1>9, <1>10, <1>11, <1>12, EveryStep

(* What holds as long as every write landed in turn. *)
Straight == Owned /\ (inTurn => Chain /\ Ended)

LEMMA StraightNext == Sound /\ Straight /\ [Next]_vars => Straight'
BY OwnedNext, ChainNext, EndedNext DEF Straight

LEMMA StraightTheorem == Spec => []Straight
<1>1. Init => Straight
  <2>. SUFFICES ASSUME Init
                PROVE  Straight
    OBVIOUS
  <2>1. \A r \in Requests : ~Flying(req[r]) /\ req[r].op = "none"
    BY IdleType DEF Init, Flying
  <2>2. ticket.id = 0 /\ ~ticket.answered
    BY DEF Init, NoTicket
  <2>3. Owned /\ Chain
    BY <2>1, <2>2 DEF Owned, Chain, At
  <2>4. Ended
    BY <2>1, <2>2 DEF Ended, At, Open
  <2>. QED
    BY <2>3, <2>4 DEF Straight
<1>. QED
  BY <1>1, StraightNext, SoundTheorem, PTL DEF Spec

(* As long as every write lands in turn, the live link to IT is one that was mailed, or
   is about to be mailed or taken back, for any number of re-sends whose mails fail. *)
THEOREM LinkTheorem == Spec => []LiveLink
<1>1. Straight => LiveLink
  BY DEF Straight, Chain, Backed, Flying, LiveLink, At
<1>. QED
  BY <1>1, StraightTheorem, PTL

(* As long as every write lands in turn, an onboarding that has ended leaves nothing
   open at IT. *)
THEOREM DoneTheorem == Spec => []DoneIsClosed
<1>1. Straight => DoneIsClosed
  BY DEF Straight, Ended, DoneIsClosed
<1>. QED
  BY <1>1, StraightTheorem, PTL

(* As long as every write lands in turn, IT's answer ends the onboarding or is about to. *)
THEOREM AnswerTheorem == Spec => []AnswerCounts
<1>1. Straight => AnswerCounts
  BY DEF Straight, Ended, AnswerCounts
<1>. QED
  BY <1>1, StraightTheorem, PTL

(* As long as every write lands in turn, the end of the onboarding and the request at IT
   speak of each other. *)
THEOREM EndTheorem == Spec => []EndMeetsRequest
<1>1. DoneIsClosed /\ AnswerCounts => EndMeetsRequest
  BY DEF EndMeetsRequest
<1>. QED
  BY <1>1, DoneTheorem, AnswerTheorem, PTL

(* Every step stands on the signature it takes, for any number of requests. *)
THEOREM SignedOffTheorem == Spec => []NothingUnsigned
<1>1. MedicalSigned /\ VerifiedFirst => NothingUnsigned
  BY DEF NothingUnsigned
<1>. QED
  BY <1>1, SignedTheorem, VerifiedTheorem, PTL

-----------------------------------------------------------------------------
(* The joining papers *)

LEMMA NoTaskType == NoTask \in Task /\ NoTask.step = "none" /\ NoTask.told = {}
<1>1. (CHOOSE c \in Candidates : TRUE) \in Candidates
  BY SomeAssumption
<1>2. (CHOOSE n \in Ids : TRUE) \in Ids
  BY SomeAssumption
<1>3. (CHOOSE l \in FacilityLinks : TRUE) \in FacilityLinks
  BY SomeAssumption
<1>4. Blank \in Letter /\ Form \in Rows
  BY DEF Blank, Letter, Rows, Ours
<1> QED
  BY <1>1, <1>2, <1>3, <1>4 DEF NoTask, Task, Steps

(* A request keeps its shape whatever it goes on to. *)
LEMMA TasksKept ==
  ASSUME NEW v \in Task
  PROVE  /\ \A step \in Steps : [v EXCEPT !.step = step] \in Task
         /\ \A step \in Steps, saw \in Letter, ref \in Nat, to \in SUBSET Sides :
              [v EXCEPT !.step = step, !.saw = saw, !.ref = ref, !.to = to] \in Task
         /\ \A step \in Steps, ref \in Nat : [v EXCEPT !.ref = ref, !.step = step] \in Task
         /\ \A step \in Steps, told \in SUBSET Sides :
              [v EXCEPT !.step = step, !.told = told] \in Task
         /\ \A step \in Steps, c \in Candidates, ref \in Nat :
              [v EXCEPT !.step = step, !.candidate = c, !.ref = ref] \in Task
         /\ \A step \in Steps, c \in Candidates, n \in Ids :
              [v EXCEPT !.step = step, !.candidate = c, !.id = n] \in Task
         /\ \A step \in Steps, d \in Rows : [v EXCEPT !.step = step, !.doc = d] \in Task
         /\ \A step \in Steps, covers \in SUBSET Rows, was \in Nat :
              [v EXCEPT !.step = step, !.covers = covers, !.was = was] \in Task
         /\ \A step \in Steps, l \in FacilityLinks : [v EXCEPT !.step = step, !.link = l] \in Task
  BY DEF Task

LEMMA BegunType ==
  ASSUME JoiningTypeOK, NEW r \in Tasks, NEW kind \in Kinds, NEW v \in Task, Begin(r, kind, v)
  PROVE  /\ task' \in [Tasks -> Task] /\ allowed' \in [Kinds -> Nat]
         /\ task[r].step = "none" /\ task' = [task EXCEPT ![r] = v]
  BY DEF JoiningTypeOK, Begin, Asked, Doing

LEMMA AskedType ==
  ASSUME JoiningTypeOK, NEW kind \in Kinds, Asked(kind)
  PROVE  allowed' \in [Kinds -> Nat]
  BY DEF JoiningTypeOK, Asked

LEMMA GoneOnType ==
  ASSUME JoiningTypeOK, NEW r \in Tasks, NEW step \in Steps, GoOn(r, step)
  PROVE  /\ task' \in [Tasks -> Task] /\ allowed' = allowed
         /\ task' = [task EXCEPT ![r] = [task[r] EXCEPT !.step = step]]
<1>1. [task[r] EXCEPT !.step = step] \in Task
  BY TasksKept DEF JoiningTypeOK
<1>2. task' = [task EXCEPT ![r] = [task[r] EXCEPT !.step = step]] /\ allowed' = allowed
  BY DEF GoOn
<1> QED
  BY <1>1, <1>2 DEF JoiningTypeOK

LEMMA DoneType ==
  ASSUME JoiningTypeOK, NEW r \in Tasks, Done(r)
  PROVE  /\ task' \in [Tasks -> Task] /\ allowed' = allowed
         /\ task' = [task EXCEPT ![r] = NoTask]
  BY NoTaskType DEF JoiningTypeOK, Done

LEMMA MaxNumber ==
  ASSUME exam \in [Candidates -> Nat]
  PROVE  NextNumber \in Nat /\ NextNumber # 0 /\ \A c \in Candidates : exam[c] < NextNumber
<1> DEFINE S == {exam[c] : c \in Candidates}
           Under(m) == {k \in S : k < m}
           n == Cardinality(S)
           Place == [m \in S |-> Cardinality(Under(m))]
<1>1. S \in SUBSET Nat /\ S # {}
  BY SomeAssumption
<1>2. IsFiniteSet(S)
  <2> DEFINE f == [c \in Candidates |-> exam[c]]
  <2>1. f \in Surjection(Candidates, S)
    BY DEF Surjection
  <2> HIDE DEF f, S
  <2> QED
    BY <2>1, SomeAssumption, FS_Surjection
<1> HIDE DEF S
<1>3. n \in Nat /\ n # 0
  BY <1>1, <1>2, FS_CardinalityType, FS_EmptySet
<1>4. ASSUME NEW m \in S
      PROVE  IsFiniteSet(Under(m)) /\ Place[m] \in 0..(n - 1)
  <2>1. Under(m) \in SUBSET S /\ m \notin Under(m)
    BY <1>1
  <2> HIDE DEF Under
  <2>2. IsFiniteSet(Under(m)) /\ Cardinality(Under(m)) <= n /\ Cardinality(Under(m)) # n
    BY <1>2, <2>1, FS_Subset
  <2>3. Cardinality(Under(m)) \in Nat
    BY <2>2, FS_CardinalityType
  <2> QED
    BY <1>3, <2>2, <2>3
<1>5. ASSUME NEW k \in S, NEW m \in S, k < m
      PROVE  Place[k] < Place[m]
  <2>1. Under(k) \in SUBSET Under(m) /\ Under(k) # Under(m)
    <3>1. k \in Under(m) /\ k \notin Under(k) /\ \A j \in Under(k) : j \in Under(m)
      BY <1>1, <1>5
    <3> QED
      BY <3>1
  <2> HIDE DEF Under
  <2>2. /\ Cardinality(Under(k)) <= Cardinality(Under(m))
        /\ Cardinality(Under(m)) # Cardinality(Under(k))
    BY <1>4, <2>1, FS_Subset
  <2> QED
    BY <1>4, <2>2
<1>6. Place \in Injection(S, 0..(n - 1))
  <2>1. ASSUME NEW k \in S, NEW m \in S, Place[k] = Place[m]
        PROVE  k = m
    <3>1. ~(k < m) /\ ~(m < k)
      BY <1>4, <1>5, <2>1
    <3> QED
      BY <1>1, <3>1
  <2> QED
    BY <1>4, <2>1 DEF Injection, IsInjective
<1>7. IsFiniteSet(0..(n - 1)) /\ Cardinality(0..(n - 1)) = n
  BY <1>3, FS_Interval
<1>8. Place \in Surjection(S, 0..(n - 1))
  <2> HIDE DEF Place
  <2> QED
    BY <1>6, <1>7, FS_Injection
<1>9. PICK m \in S : Place[m] = n - 1
  <2>1. n - 1 \in 0..(n - 1)
    BY <1>3
  <2> HIDE DEF Place, n
  <2> QED
    BY <1>8, <2>1 DEF Surjection
<1>10. \A k \in S : m >= k
  <2> SUFFICES ASSUME NEW k \in S, ~(m >= k)
               PROVE  FALSE
    OBVIOUS
  <2>1. Place[m] < Place[k]
    BY <1>1, <1>5
  <2>2. Place[k] \in 0..(n - 1)
    BY <1>4
  <2> HIDE DEF Place
  <2> QED
    BY <1>3, <1>9, <2>1, <2>2
<1>11. Max(S) \in S /\ \A k \in S : Max(S) >= k
  BY <1>10 DEF Max
<1>12. NextNumber = Max(S) + 1
  BY DEF NextNumber, S
<1>13. \A c \in Candidates : exam[c] \in S
  BY DEF S
<1>14. Max(S) \in Nat
  BY <1>1, <1>11
<1> DEFINE top == Max(S)
<1> HIDE DEF top
<1>15. top \in Nat /\ NextNumber = top + 1
  BY <1>12, <1>14 DEF top
<1>16. ASSUME NEW c \in Candidates
       PROVE  exam[c] \in Nat /\ exam[c] <= top
  BY <1>1, <1>11, <1>13 DEF top
<1> QED
  BY <1>15, <1>16

LEMMA VerdictType ==
  ASSUME papers \in Papers, NEW by \in {"ai", "hr"}, NEW covers \in SUBSET Rows
  PROVE  /\ Verdict(by, covers) \in Papers
         /\ Verdict(by, covers).by = by /\ Verdict(by, covers).covers = covers
         /\ Verdict(by, covers).doc = papers.doc
         /\ Verdict(by, covers).verdicts = papers.verdicts + 1
<1> DEFINE n == papers.verdicts + 1
<1>1. n \in Nat
  BY DEF Papers
<1>2. Verdict(by, covers) = [papers EXCEPT !.by = by, !.covers = covers, !.verdicts = n]
  BY DEF Verdict
<1> HIDE DEF n
<1>3. /\ Verdict(by, covers) \in Papers
      /\ Verdict(by, covers).by = by /\ Verdict(by, covers).covers = covers
      /\ Verdict(by, covers).doc = papers.doc
      /\ Verdict(by, covers).verdicts = n
  BY <1>1, <1>2 DEF Papers
<1> QED
  BY <1>3 DEF n

LEMMA JoiningTypeStep ==
  ASSUME JoiningTypeOK, [JoiningNext]_jvars
  PROVE  JoiningTypeOK'
<1>1. /\ letter \in Letter /\ issued \in Nat /\ posted \in Posted
      /\ exam \in [Candidates -> Nat] /\ employeeId \in [Candidates -> SUBSET Ids]
      /\ conduct \in Conduct /\ papers \in Papers /\ asked \in [FacilityLinks -> Link]
      /\ task \in [Tasks -> Task] /\ allowed \in [Kinds -> Nat] /\ inLine \in BOOLEAN
  BY DEF JoiningTypeOK
<1>2. Typed \in Nat /\ \A kind \in {"letter", "numbers", "conduct", "check", "facility"} : kind \in Kinds
  BY DEF Typed, Kinds
<1>3. ASSUME NEW r \in Tasks
      PROVE  /\ task[r] \in Task /\ task[r].saw \in Letter /\ task[r].ref \in Nat
             /\ task[r].to \in SUBSET Sides /\ task[r].told \in SUBSET Sides
             /\ task[r].candidate \in Candidates /\ task[r].id \in Ids /\ task[r].doc \in Rows
             /\ task[r].covers \in SUBSET Rows /\ task[r].was \in Nat /\ task[r].link \in FacilityLinks
  BY <1>1 DEF Task
<1>4. CASE UNCHANGED jvars
  BY <1>1, <1>4 DEF JoiningTypeOK, jvars, medicalTest, numbers
<1>5. CASE RequestMedicalTest
  <2>1. letter' \in Letter
    BY <1>1, <1>2, <1>5 DEF RequestMedicalTest, Letter
  <2>2. allowed' \in [Kinds -> Nat]
    BY <1>2, <1>5, AskedType DEF RequestMedicalTest
  <2> QED
    BY <1>1, <1>5, <2>1, <2>2 DEF JoiningTypeOK, RequestMedicalTest, Keeps, numbers
<1>6. CASE UploadMedicalReport
  <2>1. papers' \in Papers
    BY <1>1, <1>6 DEF UploadMedicalReport, Papers, DocStates
  <2>2. allowed' \in [Kinds -> Nat]
    BY <1>2, <1>6, AskedType DEF UploadMedicalReport
  <2> QED
    BY <1>1, <1>6, <2>1, <2>2 DEF JoiningTypeOK, UploadMedicalReport, medicalTest, numbers
<1>7. CASE ManualCrossCheck
  <2>1. papers' \in Papers
    BY <1>1, <1>7, VerdictType DEF ManualCrossCheck
  <2>2. allowed' \in [Kinds -> Nat]
    BY <1>2, <1>7, AskedType DEF ManualCrossCheck
  <2> QED
    BY <1>1, <1>7, <2>1, <2>2 DEF JoiningTypeOK, ManualCrossCheck, medicalTest, numbers
<1>8. CASE Notify
  <2>1. asked' \in [FacilityLinks -> Link]
    BY ZenonT(60), <1>1, <1>8 DEF Notify, Link
  <2>2. allowed' \in [Kinds -> Nat]
    BY <1>2, <1>8, AskedType DEF Notify
  <2> QED
    BY <1>1, <1>8, <2>1, <2>2 DEF JoiningTypeOK, Notify, medicalTest, numbers
<1>9. CASE Expire
  <2>1. asked' \in [FacilityLinks -> Link]
    <3>1. PICK l \in FacilityLinks : asked' = [asked EXCEPT ![l].expired = TRUE]
      BY <1>9 DEF Expire
    <3>2. [asked[l] EXCEPT !.expired = TRUE] \in Link
      BY <1>1 DEF Link
    <3> QED
      BY <1>1, <3>1, <3>2
  <2> QED
    BY <1>1, <1>9, <2>1 DEF JoiningTypeOK, Expire, medicalTest, numbers
<1>10. CASE Restart
  BY <1>1, <1>10, NoTaskType DEF JoiningTypeOK, Restart, Keeps, medicalTest, numbers
<1>11. ASSUME NEW r \in Tasks, SendLetter(r)
       PROVE  JoiningTypeOK'
  <2>1. PICK to \in SUBSET Sides, ref \in Nat, step \in Steps :
          Begin(r, "letter", [NoTask EXCEPT !.step = step, !.saw = letter, !.ref = ref, !.to = to])
    <3>1. PICK to \in SUBSET Sides, ref \in {Typed, Kept(letter)} :
            Begin(r, "letter", [NoTask EXCEPT !.step = IF ref = 0 THEN "issue" ELSE "team",
                                              !.saw = letter, !.ref = ref, !.to = to])
      BY <1>11 DEF SendLetter
    <3>2. ref \in Nat /\ (IF ref = 0 THEN "issue" ELSE "team") \in Steps
      BY <1>1, <1>2 DEF Kept, Letter, Steps
    <3> QED
      BY <3>1, <3>2
  <2>2. [NoTask EXCEPT !.step = step, !.saw = letter, !.ref = ref, !.to = to] \in Task
    BY <1>1, NoTaskType, TasksKept
  <2>3. task' \in [Tasks -> Task] /\ allowed' \in [Kinds -> Nat]
    BY <1>2, <2>1, <2>2, BegunType
  <2> QED
    BY <1>1, <1>11, <2>1, <2>2, <2>3 DEF JoiningTypeOK, SendLetter, Keeps, medicalTest, numbers
<1>12. ASSUME NEW r \in Tasks, Issue(r)
       PROVE  JoiningTypeOK'
  <2>1. task' \in [Tasks -> Task] /\ issued' \in Nat
    <3> DEFINE next == [task[r] EXCEPT !.ref = issued + 1, !.step = "team"]
    <3>1. next \in Task
      <4>1. issued + 1 \in Nat /\ "team" \in Steps
        BY <1>1 DEF Steps
      <4> QED
        BY <1>3, <4>1, TasksKept
    <3>2. task' = [task EXCEPT ![r] = next] \/ task' = [task EXCEPT ![r] = NoTask]
      BY <1>1, <1>12 DEF Issue
    <3> HIDE DEF next
    <3> QED
      BY <1>1, <1>12, <3>1, <3>2, NoTaskType DEF Issue
  <2> QED
    BY <1>1, <1>12, <2>1 DEF JoiningTypeOK, Issue, numbers
<1>13. ASSUME NEW r \in Tasks, MailTeam(r)
       PROVE  JoiningTypeOK'
  <2>1. posted' \in Posted
    BY <1>1, <1>3, <1>13 DEF MailTeam, PostLetter, Posted, Sides
  <2>2. task' \in [Tasks -> Task]
    <3>1. PICK told \in {task[r].told, task[r].told \cup {"team"}} :
            task' = [task EXCEPT ![r] = [task[r] EXCEPT !.step = "candidate", !.told = told]]
      BY <1>1, <1>13 DEF MailTeam, PostLetter
    <3>2. [task[r] EXCEPT !.step = "candidate", !.told = told] \in Task
      BY <1>3, TasksKept DEF Steps, Sides
    <3> QED
      BY <1>1, <3>1, <3>2
  <2> QED
    BY <1>1, <1>13, <2>1, <2>2 DEF JoiningTypeOK, MailTeam, PostLetter, numbers
<1>14. ASSUME NEW r \in Tasks, MailCandidate(r)
       PROVE  JoiningTypeOK'
  <2>1. posted' \in Posted
    BY <1>1, <1>3, <1>14 DEF MailCandidate, PostLetter, Posted, Sides
  <2>2. task' \in [Tasks -> Task]
    <3>1. PICK told \in {task[r].told, task[r].told \cup {"candidate"}} :
            task' = [task EXCEPT ![r] = [task[r] EXCEPT !.step = "record", !.told = told]]
      BY <1>1, <1>14 DEF MailCandidate, PostLetter
    <3>2. [task[r] EXCEPT !.step = "record", !.told = told] \in Task
      BY <1>3, TasksKept DEF Steps, Sides
    <3> QED
      BY <1>1, <3>1, <3>2
  <2> QED
    BY <1>1, <1>14, <2>1, <2>2 DEF JoiningTypeOK, MailCandidate, PostLetter, numbers
<1>15. ASSUME NEW r \in Tasks, RecordLetter(r)
       PROVE  JoiningTypeOK'
  <2>1. task' \in [Tasks -> Task] /\ allowed' = allowed
    BY <1>15, DoneType DEF RecordLetter
  <2>2. letter' \in Letter
    BY <1>1, <1>3, <1>15 DEF RecordLetter, NumberKept, Letter
  <2> QED
    BY <1>1, <1>15, <2>1, <2>2 DEF JoiningTypeOK, RecordLetter, numbers
<1>16. ASSUME NEW r \in Tasks, UpsertMedicalExam(r)
       PROVE  JoiningTypeOK'
  <2>1. PICK c \in Candidates, step \in Steps :
          Begin(r, "numbers", [NoTask EXCEPT !.step = step, !.candidate = c, !.ref = exam[c]])
    BY <1>16 DEF UpsertMedicalExam, Steps
  <2>2. [NoTask EXCEPT !.step = step, !.candidate = c, !.ref = exam[c]] \in Task
    BY <1>1, NoTaskType, TasksKept
  <2>3. task' \in [Tasks -> Task] /\ allowed' \in [Kinds -> Nat]
    BY <1>2, <2>1, <2>2, BegunType
  <2> QED
    BY <1>1, <1>16, <2>1, <2>2, <2>3 DEF JoiningTypeOK, UpsertMedicalExam, Keeps, medicalTest, numbers
<1>17. ASSUME NEW r \in Tasks, GenerateMedicalRefNo(r)
       PROVE  JoiningTypeOK'
  <2>1. task' = [task EXCEPT ![r] = [task[r] EXCEPT !.ref = NextNumber, !.step = "exam"]]
    BY <1>1, <1>17 DEF GenerateMedicalRefNo
  <2>2. [task[r] EXCEPT !.ref = NextNumber, !.step = "exam"] \in Task
    BY <1>1, <1>3, TasksKept, MaxNumber DEF Steps
  <2>3. task' \in [Tasks -> Task]
    BY <1>1, <2>1, <2>2
  <2> QED
    BY <1>1, <1>17, <2>1, <2>2, <2>3 DEF JoiningTypeOK, GenerateMedicalRefNo, medicalTest, numbers
<1>18. ASSUME NEW r \in Tasks, CommitExam(r)
       PROVE  JoiningTypeOK'
  <2>1. task' \in [Tasks -> Task] /\ allowed' = allowed
    BY <1>18, DoneType DEF CommitExam
  <2>2. exam' \in [Candidates -> Nat]
    BY <1>1, <1>3, <1>18 DEF CommitExam
  <2> QED
    BY <1>1, <1>18, <2>1, <2>2 DEF JoiningTypeOK, CommitExam, medicalTest
<1>19. ASSUME NEW r \in Tasks, SetEmployeeId(r)
       PROVE  JoiningTypeOK'
  <2>1. PICK c \in Candidates, n \in Ids :
          Begin(r, "numbers", [NoTask EXCEPT !.step = "id", !.candidate = c, !.id = n])
    BY <1>19 DEF SetEmployeeId
  <2>2. [NoTask EXCEPT !.step = "id", !.candidate = c, !.id = n] \in Task
    BY NoTaskType, TasksKept DEF Steps
  <2>3. task' \in [Tasks -> Task] /\ allowed' \in [Kinds -> Nat]
    BY <1>2, <2>1, <2>2, BegunType
  <2> QED
    BY <1>1, <1>19, <2>1, <2>2, <2>3 DEF JoiningTypeOK, SetEmployeeId, Keeps, medicalTest, numbers
<1>20. ASSUME NEW r \in Tasks, CommitEmployeeId(r)
       PROVE  JoiningTypeOK'
  <2>1. task' \in [Tasks -> Task] /\ allowed' = allowed
    BY <1>20, DoneType DEF CommitEmployeeId
  <2>2. employeeId' \in [Candidates -> SUBSET Ids]
    BY <1>1, <1>3, <1>20 DEF CommitEmployeeId
  <2> QED
    BY <1>1, <1>20, <2>1, <2>2 DEF JoiningTypeOK, CommitEmployeeId, medicalTest
<1>21. ASSUME NEW r \in Tasks, SendCoc(r)
       PROVE  JoiningTypeOK'
  <2>1. [NoTask EXCEPT !.step = "mailForm"] \in Task
    BY NoTaskType, TasksKept DEF Steps
  <2>2. task' \in [Tasks -> Task] /\ allowed' \in [Kinds -> Nat]
    BY <1>2, <1>21, <2>1, BegunType DEF SendCoc
  <2> QED
    BY <1>1, <1>21, <2>1, <2>2 DEF JoiningTypeOK, SendCoc, medicalTest, numbers
<1>22. ASSUME NEW r \in Tasks, CommitSendCoc(r)
       PROVE  JoiningTypeOK'
  <2>1. task' \in [Tasks -> Task] /\ allowed' = allowed
    BY <1>22, DoneType DEF CommitSendCoc
  <2>2. conduct' \in Conduct
    BY <1>1, <1>22 DEF CommitSendCoc, Conduct
  <2> QED
    BY <1>1, <1>22, <2>1, <2>2 DEF JoiningTypeOK, CommitSendCoc, medicalTest, numbers
<1>23. ASSUME NEW r \in Tasks, PublicAcknowledgeCoc(r)
       PROVE  JoiningTypeOK'
  <2>1. [NoTask EXCEPT !.step = "sign"] \in Task
    BY NoTaskType, TasksKept DEF Steps
  <2>2. task' \in [Tasks -> Task] /\ allowed' \in [Kinds -> Nat]
    BY <1>2, <1>23, <2>1, BegunType DEF PublicAcknowledgeCoc
  <2> QED
    BY <1>1, <1>23, <2>1, <2>2 DEF JoiningTypeOK, PublicAcknowledgeCoc, Keeps, medicalTest, numbers
<1>24. ASSUME NEW r \in Tasks, SignCoc(r)
       PROVE  JoiningTypeOK'
  <2>1. task' \in [Tasks -> Task] /\ allowed' = allowed
    <3>1. "file" \in Steps
      BY DEF Steps
    <3> QED
      BY <1>24, <3>1, GoneOnType, DoneType DEF SignCoc
  <2>2. conduct' \in Conduct
    BY <1>1, <1>24 DEF SignCoc, Conduct
  <2> QED
    BY <1>1, <1>24, <2>1, <2>2 DEF JoiningTypeOK, SignCoc, medicalTest, numbers
<1>25. ASSUME NEW r \in Tasks, FileCoc(r)
       PROVE  JoiningTypeOK'
  <2>1. task' \in [Tasks -> Task] /\ allowed' = allowed
    <3>1. "attach" \in Steps
      BY DEF Steps
    <3> QED
      BY <1>25, <3>1, GoneOnType, DoneType DEF FileCoc
  <2>2. conduct' \in Conduct
    BY <1>1, <1>25 DEF FileCoc, Conduct
  <2> QED
    BY <1>1, <1>25, <2>1, <2>2 DEF JoiningTypeOK, FileCoc, medicalTest, numbers
<1>26. ASSUME NEW r \in Tasks, AttachCoc(r)
       PROVE  JoiningTypeOK'
  <2>1. task' \in [Tasks -> Task] /\ allowed' = allowed
    <3>1. "fileRow" \in Steps
      BY DEF Steps
    <3> QED
      BY <1>26, <3>1, GoneOnType, DoneType DEF AttachCoc
  <2>2. conduct' \in Conduct
    BY <1>1, <1>26 DEF AttachCoc, Conduct
  <2> QED
    BY <1>1, <1>26, <2>1, <2>2 DEF JoiningTypeOK, AttachCoc, medicalTest, numbers
<1>27. ASSUME NEW r \in Tasks, AddCocRow(r)
       PROVE  JoiningTypeOK'
  <2>1. task' \in [Tasks -> Task] /\ allowed' = allowed
    BY <1>27, DoneType DEF AddCocRow
  <2>2. papers' \in Papers
    BY <1>1, <1>27 DEF AddCocRow, Papers, DocStates
  <2> QED
    BY <1>1, <1>27, <2>1, <2>2 DEF JoiningTypeOK, AddCocRow, medicalTest, numbers
<1>28. ASSUME NEW r \in Tasks, PublicUpload(r)
       PROVE  JoiningTypeOK'
  <2>1. PICK d \in Docs : /\ Begin(r, "check", [NoTask EXCEPT !.step = "extract", !.doc = d])
                       /\ papers' = [papers EXCEPT !.doc[d] = "uploaded"]
    BY <1>28 DEF PublicUpload
  <2>2. [NoTask EXCEPT !.step = "extract", !.doc = d] \in Task
    BY NoTaskType, TasksKept DEF Steps, Rows
  <2>3. task' \in [Tasks -> Task] /\ allowed' \in [Kinds -> Nat]
    BY <1>2, <2>1, <2>2, BegunType
  <2>4. papers' \in Papers
    BY <1>1, <2>1 DEF Papers, DocStates
  <2> QED
    BY <1>1, <1>28, <2>1, <2>2, <2>3, <2>4 DEF JoiningTypeOK, PublicUpload, medicalTest, numbers
<1>29. ASSUME NEW r \in Tasks, AutoSummarizeDoc(r)
       PROVE  JoiningTypeOK'
  <2>1. task' \in [Tasks -> Task] /\ allowed' = allowed
    <3>1. "look" \in Steps
      BY DEF Steps
    <3> QED
      BY <1>29, <3>1, GoneOnType, DoneType DEF AutoSummarizeDoc
  <2>2. papers' \in Papers
    BY <1>1, <1>29 DEF AutoSummarizeDoc, Papers, DocStates
  <2> QED
    BY <1>1, <1>29, <2>1, <2>2 DEF JoiningTypeOK, AutoSummarizeDoc, medicalTest, numbers
<1>30. ASSUME NEW r \in Tasks, SummarizeDoc(r)
       PROVE  JoiningTypeOK'
  <2>1. PICK d \in Rows : Begin(r, "check", [NoTask EXCEPT !.step = "summarize", !.doc = d])
    BY <1>30 DEF SummarizeDoc, Present
  <2>2. [NoTask EXCEPT !.step = "summarize", !.doc = d] \in Task
    BY NoTaskType, TasksKept DEF Steps
  <2>3. task' \in [Tasks -> Task] /\ allowed' \in [Kinds -> Nat]
    BY <1>2, <2>1, <2>2, BegunType
  <2> QED
    BY <1>1, <1>30, <2>1, <2>2, <2>3 DEF JoiningTypeOK, SummarizeDoc, medicalTest, numbers
<1>31. ASSUME NEW r \in Tasks, CommitSummarizeDoc(r)
       PROVE  JoiningTypeOK'
  <2>1. task' \in [Tasks -> Task] /\ allowed' = allowed
    BY <1>31, DoneType DEF CommitSummarizeDoc
  <2>2. papers' \in Papers
    BY <1>1, <1>31 DEF CommitSummarizeDoc, Papers, DocStates
  <2> QED
    BY <1>1, <1>31, <2>1, <2>2 DEF JoiningTypeOK, CommitSummarizeDoc, medicalTest, numbers
<1>32. ASSUME NEW r \in Tasks, AutoCrossCheck(r)
       PROVE  JoiningTypeOK'
  <2>1. CheckOf(r, "auto") \in Task
    <3>1. [task[r] EXCEPT !.step = "auto", !.covers = Extracted, !.was = papers.verdicts] \in Task
      BY <1>1, <1>3, TasksKept DEF Extracted, Papers, Steps
    <3> QED
      BY <3>1 DEF CheckOf
  <2>2. task' \in [Tasks -> Task]
    <3>1. task' = [task EXCEPT ![r] = CheckOf(r, "auto")] \/ task' = [task EXCEPT ![r] = NoTask]
      BY <1>32 DEF AutoCrossCheck
    <3> QED
      BY <1>1, <2>1, <3>1, NoTaskType
  <2> QED
    BY <1>1, <1>32, <2>1, <2>2 DEF JoiningTypeOK, AutoCrossCheck, medicalTest, numbers
<1>33. ASSUME NEW r \in Tasks, CrossVerify(r)
       PROVE  JoiningTypeOK'
  <2>1. CheckOf(r, "verdict") \in Task
    <3>1. [task[r] EXCEPT !.step = "verdict", !.covers = Extracted, !.was = papers.verdicts] \in Task
      BY <1>1, <1>3, TasksKept DEF Extracted, Papers, Steps
    <3> QED
      BY <3>1 DEF CheckOf
  <2>2. task' \in [Tasks -> Task] /\ allowed' \in [Kinds -> Nat]
    BY <1>2, <1>33, <2>1, BegunType DEF CrossVerify
  <2> QED
    BY <1>1, <1>33, <2>1, <2>2 DEF JoiningTypeOK, CrossVerify, medicalTest, numbers
<1>34. ASSUME NEW r \in Tasks, CommitVerdict(r)
       PROVE  JoiningTypeOK'
  <2>1. task' \in [Tasks -> Task] /\ allowed' = allowed
    BY <1>34, DoneType DEF CommitVerdict
  <2>2. papers' \in Papers
    BY <1>1, <1>3, <1>34, VerdictType DEF CommitVerdict
  <2> QED
    BY <1>1, <1>34, <2>1, <2>2 DEF JoiningTypeOK, CommitVerdict, Keeps, medicalTest, numbers
<1>35. ASSUME NEW r \in Tasks, CheckFails(r)
       PROVE  JoiningTypeOK'
  <2>1. task' \in [Tasks -> Task] /\ allowed' = allowed
    BY <1>35, DoneType DEF CheckFails
  <2> QED
    BY <1>1, <1>35, <2>1 DEF JoiningTypeOK, CheckFails, Keeps, medicalTest, numbers
<1>36. ASSUME NEW r \in Tasks, ConfirmByToken(r)
       PROVE  JoiningTypeOK'
  <2>1. PICK l \in FacilityLinks : Begin(r, "facility", [NoTask EXCEPT !.step = "confirmed", !.link = l])
    BY <1>36 DEF ConfirmByToken, Reply
  <2>2. [NoTask EXCEPT !.step = "confirmed", !.link = l] \in Task
    BY NoTaskType, TasksKept DEF Steps
  <2>3. task' \in [Tasks -> Task] /\ allowed' \in [Kinds -> Nat]
    BY <1>2, <2>1, <2>2, BegunType
  <2> QED
    BY <1>1, <1>36, <2>1, <2>2, <2>3 DEF JoiningTypeOK, ConfirmByToken, Reply, medicalTest, numbers
<1>37. ASSUME NEW r \in Tasks, DeclineByToken(r)
       PROVE  JoiningTypeOK'
  <2>1. PICK l \in FacilityLinks : Begin(r, "facility", [NoTask EXCEPT !.step = "declined", !.link = l])
    BY <1>37 DEF DeclineByToken, Reply
  <2>2. [NoTask EXCEPT !.step = "declined", !.link = l] \in Task
    BY NoTaskType, TasksKept DEF Steps
  <2>3. task' \in [Tasks -> Task] /\ allowed' \in [Kinds -> Nat]
    BY <1>2, <2>1, <2>2, BegunType
  <2> QED
    BY <1>1, <1>37, <2>1, <2>2, <2>3 DEF JoiningTypeOK, DeclineByToken, Reply, medicalTest, numbers
<1>38. ASSUME NEW r \in Tasks, CommitAnswer(r)
       PROVE  JoiningTypeOK'
  <2>1. task' \in [Tasks -> Task] /\ allowed' = allowed
    BY <1>38, DoneType DEF CommitAnswer
  <2>2. asked' \in [FacilityLinks -> Link]
    BY <1>1, <1>3, <1>38 DEF CommitAnswer, Answered, Link
  <2> QED
    BY <1>1, <1>38, <2>1, <2>2 DEF JoiningTypeOK, CommitAnswer, medicalTest, numbers
<1> QED
  BY <1>4, <1>5, <1>6, <1>7, <1>8, <1>9, <1>10, <1>11, <1>12, <1>13, <1>14, <1>15, <1>16,
     <1>17, <1>18, <1>19, <1>20, <1>21, <1>22, <1>23, <1>24, <1>25, <1>26, <1>27, <1>28, <1>29,
     <1>30, <1>31, <1>32, <1>33, <1>34, <1>35, <1>36, <1>37, <1>38 DEF JoiningNext, Step

LEMMA JoiningInitType == JoiningInit => JoiningTypeOK
<1> SUFFICES ASSUME JoiningInit
             PROVE  JoiningTypeOK
  OBVIOUS
<1>1. letter \in Letter /\ posted \in Posted /\ conduct \in Conduct /\ issued \in Nat
  BY DEF JoiningInit, Blank, Letter, Posted, Conduct
<1>2. papers \in Papers
  BY DEF JoiningInit, NoPapers, Papers, DocStates
<1>3. asked \in [FacilityLinks -> Link] /\ allowed \in [Kinds -> Nat]
  BY AllowancesAssumption DEF JoiningInit, Link
<1>4. task \in [Tasks -> Task]
  BY NoTaskType DEF JoiningInit
<1> QED
  BY <1>1, <1>2, <1>3, <1>4 DEF JoiningInit, JoiningTypeOK

(* Whatever requests overlap, every column holds a value it may. *)
THEOREM JoiningTypeTheorem == JoiningSpec => []JoiningTypeOK
  BY JoiningInitType, JoiningTypeStep, PTL DEF JoiningSpec

-----------------------------------------------------------------------------
(* What a step leaves alone *)

Numbering == {"number", "exam"}
Forming == {"mailForm", "sign", "file", "attach", "fileRow"}
Reading == {"extract", "summarize", "look", "auto", "verdict"}
Replying == {"confirmed", "declined"}

(* Only this request moves, from one of these steps to another, and what it told nobody
   it does not claim to have told. *)
Moves(r, steps) ==
  /\ task[r].step \in steps \cup {"none"} /\ task'[r].step \in steps \cup {"none"}
  /\ task'[r].step \in Sending \/ task'[r].told \subseteq task[r].told
  /\ \A q \in Tasks : q # r => task'[q] = task[q]

LetterStep(r) == SendLetter(r) \/ Issue(r) \/ MailTeam(r) \/ MailCandidate(r) \/ RecordLetter(r)
NumberStep(r) == UpsertMedicalExam(r) \/ GenerateMedicalRefNo(r) \/ CommitExam(r)
IdStep(r) == SetEmployeeId(r) \/ CommitEmployeeId(r)
FormStep(r) ==
  \/ SendCoc(r) \/ CommitSendCoc(r) \/ PublicAcknowledgeCoc(r) \/ SignCoc(r) \/ FileCoc(r)
  \/ AttachCoc(r) \/ AddCocRow(r)
PaperStep(r) ==
  \/ PublicUpload(r) \/ AutoSummarizeDoc(r) \/ SummarizeDoc(r) \/ CommitSummarizeDoc(r)
  \/ AutoCrossCheck(r) \/ CrossVerify(r) \/ CommitVerdict(r) \/ CheckFails(r)
ReplyStep(r) == ConfirmByToken(r) \/ DeclineByToken(r) \/ CommitAnswer(r)

(* A request that begins, goes on or is done. *)
LEMMA BeginMoves ==
  ASSUME JoiningTypeOK, NEW r \in Tasks, NEW kind, NEW v \in Task, Begin(r, kind, v), v.told = {},
         NEW steps, v.step \in steps
  PROVE  Moves(r, steps)
  BY DEF JoiningTypeOK, Begin, Doing, Moves

LEMMA OnMoves ==
  ASSUME JoiningTypeOK, NEW r \in Tasks, NEW steps, task[r].step \in steps,
         NEW v \in Task, task' = [task EXCEPT ![r] = v], v.step \in steps \cup {"none"},
         v.step \in Sending \/ v.told \subseteq task[r].told
  PROVE  Moves(r, steps)
  BY DEF JoiningTypeOK, Moves

LEMMA GoneOnTo ==
  ASSUME JoiningTypeOK, NEW r \in Tasks, NEW step \in Steps, GoOn(r, step)
  PROVE  task'[r].step = step /\ \A q \in Tasks : q # r => task'[q] = task[q]
<1>1. task[r] \in Task
  BY DEF JoiningTypeOK
<1>2. task'[r] = [task[r] EXCEPT !.step = step] /\ \A q \in Tasks : q # r => task'[q] = task[q]
  BY GoneOnType DEF JoiningTypeOK
<1> QED
  BY <1>1, <1>2 DEF Task

LEMMA DoneMoves ==
  ASSUME JoiningTypeOK, NEW r \in Tasks, NEW steps, task[r].step \in steps, Done(r)
  PROVE  Moves(r, steps) /\ task'[r] = NoTask
  BY NoTaskType, DoneType DEF JoiningTypeOK, Moves

LEMMA GoneOnMoves ==
  ASSUME JoiningTypeOK, NEW r \in Tasks, NEW step \in Steps, NEW steps, task[r].step \in steps, step \in steps,
         GoOn(r, step)
  PROVE  /\ Moves(r, steps) /\ task'[r] = [task[r] EXCEPT !.step = step]
         /\ task'[r].step = step /\ task'[r].doc = task[r].doc /\ task'[r].covers = task[r].covers
<1>1. task[r] \in Task
  BY DEF JoiningTypeOK
<1>2. task'[r] = [task[r] EXCEPT !.step = step] /\ \A q \in Tasks : q # r => task'[q] = task[q]
  BY GoneOnType DEF JoiningTypeOK
<1>3. /\ task'[r].step = step /\ task'[r].doc = task[r].doc /\ task'[r].covers = task[r].covers
      /\ task'[r].told = task[r].told
  BY <1>1, <1>2 DEF Task
<1> QED
  BY <1>1, <1>2, <1>3 DEF Moves

-----------------------------------------------------------------------------
(* A facility *)

(* Whoever is about to answer was asked. *)
Awaited == \A r \in Tasks : task[r].step \in Replying => asked[task[r].link].sent

LEMMA ReplyMoves ==
  ASSUME JoiningTypeOK, NEW r \in Tasks, ReplyStep(r)
  PROVE  Moves(r, Replying) /\ UNCHANGED <<medicalTest, numbers, conduct, papers, inLine>>
<1>1. ASSUME NEW answer \in Replying, Reply(r, answer)
      PROVE  Moves(r, Replying)
  <2>1. PICK l \in FacilityLinks : Begin(r, "facility", [NoTask EXCEPT !.step = answer, !.link = l])
    BY <1>1 DEF Reply
  <2>2. [NoTask EXCEPT !.step = answer, !.link = l] \in Task
    BY NoTaskType, TasksKept DEF Replying, Steps
  <2>3. /\ [NoTask EXCEPT !.step = answer, !.link = l].step = answer
        /\ [NoTask EXCEPT !.step = answer, !.link = l].told = {}
    BY NoTaskType DEF NoTask
  <2> QED
    BY <2>1, <2>2, <2>3, BeginMoves
<1>2. CASE ConfirmByToken(r) \/ DeclineByToken(r)
  BY <1>1, <1>2 DEF ConfirmByToken, DeclineByToken, Reply, Replying
<1>3. CASE CommitAnswer(r)
  BY <1>3, DoneMoves DEF CommitAnswer, Doing, Replying
<1> QED
  BY <1>2, <1>3 DEF ReplyStep

LEMMA LetterMoves ==
  ASSUME JoiningTypeOK, NEW r \in Tasks, LetterStep(r)
  PROVE  Moves(r, Sending) /\ UNCHANGED <<numbers, conduct, papers, asked>>
<1>1. task[r] \in Task /\ letter \in Letter /\ issued \in Nat
  BY DEF JoiningTypeOK
<1>2. CASE SendLetter(r)
  <2>1. PICK to \in (SUBSET Sides) \ {{}}, typed \in BOOLEAN :
          LET ref == IF typed THEN Typed ELSE Kept(letter) IN
          Begin(r, "letter", [NoTask EXCEPT !.step = IF ref = 0 THEN "issue" ELSE "team",
                                            !.saw = letter, !.ref = ref, !.to = to])
    BY <1>2 DEF SendLetter
  <2> DEFINE ref == IF typed THEN Typed ELSE Kept(letter)
             step == IF ref = 0 THEN "issue" ELSE "team"
             v == [NoTask EXCEPT !.step = step, !.saw = letter, !.ref = ref, !.to = to]
  <2>2. ref \in Nat /\ step \in Steps /\ step \in Sending
    BY <1>1 DEF Kept, Typed, Letter, Steps, Sending
  <2>3. v \in Task /\ v.step = step /\ v.told = {}
    <3> HIDE DEF ref, step
    <3> QED
      BY <1>1, <2>2, NoTaskType DEF Task
  <2>4. Begin(r, "letter", v)
    BY <2>1
  <2> HIDE DEF v, step
  <2>5. Moves(r, Sending)
    BY <2>2, <2>3, <2>4, BeginMoves
  <2> QED
    BY <1>2, <2>5 DEF SendLetter
<1>3. CASE Issue(r)
  <2>1. CASE task' = [task EXCEPT ![r].ref = issued + 1, ![r].step = "team"]
    <3> DEFINE v == [task[r] EXCEPT !.ref = issued + 1, !.step = "team"]
    <3>1. issued + 1 \in Nat /\ "team" \in Steps
      BY <1>1 DEF Steps
    <3>2. v \in Task /\ v.step = "team"
      BY <1>1, <3>1 DEF Task
    <3>3. task' = [task EXCEPT ![r] = v]
      BY <2>1
    <3>4. task[r].step \in Sending /\ v.step \in Sending
      BY <1>3, <3>2 DEF Issue, Doing, Sending
    <3> HIDE DEF v
    <3>5. Moves(r, Sending)
      BY <3>2, <3>3, <3>4, OnMoves
    <3> QED
      BY <1>3, <3>5 DEF Issue
  <2>2. CASE task' = [task EXCEPT ![r] = NoTask]
    BY <1>3, <2>2, OnMoves, NoTaskType DEF Issue, Doing, Sending
  <2> QED
    BY <1>3, <2>1, <2>2 DEF Issue
<1>4. ASSUME NEW side \in Sides, NEW next \in {"candidate", "record"},
             PostLetter(r, side, next), task[r].step \in Sending
      PROVE  Moves(r, Sending)
  <2>1. PICK leaves \in BOOLEAN :
          task' = [task EXCEPT ![r].step = next, ![r].told = IF leaves THEN @ \cup {side} ELSE @]
    BY <1>4 DEF PostLetter
  <2> DEFINE v == [task[r] EXCEPT !.step = next, !.told = IF leaves THEN @ \cup {side} ELSE @]
  <2>2. v \in Task /\ v.step = next /\ task' = [task EXCEPT ![r] = v]
    BY <1>1, <2>1 DEF Task, Steps
  <2> QED
    BY <1>4, <2>2, OnMoves DEF Sending
<1>5. CASE MailTeam(r)
  BY <1>4, <1>5 DEF MailTeam, PostLetter, Doing, Sending, Sides
<1>6. CASE MailCandidate(r)
  BY <1>4, <1>6 DEF MailCandidate, PostLetter, Doing, Sending, Sides
<1>7. CASE RecordLetter(r)
  BY <1>7, DoneMoves DEF RecordLetter, Doing, Sending
<1> QED
  BY <1>2, <1>3, <1>5, <1>6, <1>7 DEF LetterStep, Issue, RecordLetter, MailTeam, MailCandidate, PostLetter

LEMMA NumberMoves ==
  ASSUME JoiningTypeOK, NEW r \in Tasks, NumberStep(r)
  PROVE  Moves(r, Numbering) /\ UNCHANGED <<medicalTest, employeeId, conduct, papers, asked>>
<1>1. task[r] \in Task /\ exam \in [Candidates -> Nat]
  BY DEF JoiningTypeOK
<1>2. CASE UpsertMedicalExam(r)
  <2>1. PICK c \in Candidates :
          Begin(r, "numbers", [NoTask EXCEPT !.step = IF exam[c] = 0 THEN "number" ELSE "exam",
                                             !.candidate = c, !.ref = exam[c]])
    BY <1>2 DEF UpsertMedicalExam
  <2> DEFINE step == IF exam[c] = 0 THEN "number" ELSE "exam"
             v == [NoTask EXCEPT !.step = step, !.candidate = c, !.ref = exam[c]]
  <2>2. exam[c] \in Nat /\ step \in Steps /\ step \in Numbering
    BY <1>1 DEF Steps, Numbering
  <2>3. v \in Task /\ v.step = step /\ v.told = {}
    <3> HIDE DEF step
    <3> QED
      BY <2>2, NoTaskType DEF Task
  <2>4. Begin(r, "numbers", v)
    BY <2>1
  <2> HIDE DEF v, step
  <2>5. Moves(r, Numbering)
    BY <2>2, <2>3, <2>4, BeginMoves
  <2> QED
    BY <1>2, <2>5 DEF UpsertMedicalExam, numbers
<1>3. CASE GenerateMedicalRefNo(r)
  <2> DEFINE v == [task[r] EXCEPT !.ref = NextNumber, !.step = "exam"]
  <2>1. NextNumber \in Nat
    BY MaxNumber DEF JoiningTypeOK
  <2>2. v \in Task /\ v.step = "exam" /\ v.told = task[r].told
    BY <1>1, <2>1 DEF Task, Steps
  <2>3. task' = [task EXCEPT ![r] = v]
    BY <1>3 DEF GenerateMedicalRefNo
  <2> HIDE DEF v
  <2>4. task[r].step \in Numbering /\ v.step \in Numbering
    BY <1>3, <2>2 DEF GenerateMedicalRefNo, Doing, Numbering
  <2>5. Moves(r, Numbering)
    BY <2>2, <2>3, <2>4, OnMoves
  <2> QED
    BY <1>3, <2>5 DEF GenerateMedicalRefNo, numbers
<1>4. CASE CommitExam(r)
  BY <1>4, DoneMoves DEF CommitExam, Doing, Numbering
<1> QED
  BY <1>2, <1>3, <1>4 DEF NumberStep

LEMMA IdMoves ==
  ASSUME JoiningTypeOK, NEW r \in Tasks, IdStep(r)
  PROVE  Moves(r, {"id"}) /\ UNCHANGED <<medicalTest, exam, conduct, papers, asked>>
<1>1. CASE SetEmployeeId(r)
  <2>1. PICK c \in Candidates, n \in Ids :
          Begin(r, "numbers", [NoTask EXCEPT !.step = "id", !.candidate = c, !.id = n])
    BY <1>1 DEF SetEmployeeId
  <2> DEFINE v == [NoTask EXCEPT !.step = "id", !.candidate = c, !.id = n]
  <2>2. v \in Task /\ v.step = "id" /\ v.told = {}
    BY NoTaskType DEF Task, Steps
  <2>3. Begin(r, "numbers", v)
    BY <2>1
  <2> HIDE DEF v
  <2>4. Moves(r, {"id"})
    BY <2>2, <2>3, BeginMoves
  <2> QED
    BY <1>1, <2>4 DEF SetEmployeeId, numbers
<1>2. CASE CommitEmployeeId(r)
  BY <1>2, DoneMoves DEF CommitEmployeeId, Doing
<1> QED
  BY <1>1, <1>2 DEF IdStep

LEMMA FormMoves ==
  ASSUME JoiningTypeOK, NEW r \in Tasks, FormStep(r)
  PROVE  Moves(r, Forming) /\ UNCHANGED <<medicalTest, numbers, asked>>
<1>1. ASSUME NEW step \in {"mailForm", "sign"}, Begin(r, "conduct", [NoTask EXCEPT !.step = step])
      PROVE  Moves(r, Forming)
  <2> DEFINE v == [NoTask EXCEPT !.step = step]
  <2>1. v \in Task /\ v.step = step /\ v.told = {}
    BY NoTaskType DEF Task, Steps
  <2> HIDE DEF v
  <2>2. Begin(r, "conduct", v) /\ step \in Forming
    BY <1>1 DEF v, Forming
  <2> QED
    BY <2>1, <2>2, BeginMoves
<1>2. ASSUME SendCoc(r) \/ PublicAcknowledgeCoc(r)
      PROVE  Moves(r, Forming)
  BY <1>1, <1>2 DEF SendCoc, PublicAcknowledgeCoc
<1>3. ASSUME CommitSendCoc(r)
      PROVE  Moves(r, Forming)
  BY <1>3, DoneMoves DEF CommitSendCoc, Doing, Forming
<1>4. ASSUME SignCoc(r)
      PROVE  Moves(r, Forming)
  <2>1. GoOn(r, "file") /\ task[r].step \in Forming /\ "file" \in Forming /\ "file" \in Steps
    BY <1>4 DEF SignCoc, Doing, Forming, Steps
  <2> QED
    BY <2>1, GoneOnMoves
<1>5. ASSUME FileCoc(r)
      PROVE  Moves(r, Forming)
  <2>1. task[r].step \in Forming /\ "attach" \in Forming /\ "attach" \in Steps
    BY <1>5 DEF FileCoc, Doing, Forming, Steps
  <2>2. GoOn(r, "attach") \/ Done(r)
    BY <1>5 DEF FileCoc
  <2> QED
    BY <2>1, <2>2, GoneOnMoves, DoneMoves
<1>6. ASSUME AttachCoc(r)
      PROVE  Moves(r, Forming)
  <2>1. GoOn(r, "fileRow") /\ task[r].step \in Forming /\ "fileRow" \in Forming /\ "fileRow" \in Steps
    BY <1>6 DEF AttachCoc, Doing, Forming, Steps
  <2> QED
    BY <2>1, GoneOnMoves
<1>7. ASSUME AddCocRow(r)
      PROVE  Moves(r, Forming)
  BY <1>7, DoneMoves DEF AddCocRow, Doing, Forming
<1>8. UNCHANGED <<medicalTest, numbers, asked>>
  BY DEF FormStep, SendCoc, CommitSendCoc, PublicAcknowledgeCoc, SignCoc, FileCoc, AttachCoc, AddCocRow
<1> QED
  BY <1>2, <1>3, <1>4, <1>5, <1>6, <1>7, <1>8 DEF FormStep

LEMMA PaperMoves ==
  ASSUME JoiningTypeOK, NEW r \in Tasks, PaperStep(r)
  PROVE  Moves(r, Reading) /\ UNCHANGED <<medicalTest, numbers, conduct, asked>>
<1>1. ASSUME NEW step \in {"extract", "summarize"}, NEW d \in Rows,
             Begin(r, "check", [NoTask EXCEPT !.step = step, !.doc = d])
      PROVE  Moves(r, Reading)
  <2> DEFINE v == [NoTask EXCEPT !.step = step, !.doc = d]
  <2>1. v \in Task /\ v.step = step /\ v.told = {}
    BY NoTaskType DEF Task, Steps
  <2> HIDE DEF v
  <2>2. Begin(r, "check", v) /\ step \in Reading
    BY <1>1 DEF v, Reading
  <2> QED
    BY <2>1, <2>2, BeginMoves
<1>2. ASSUME PublicUpload(r) \/ SummarizeDoc(r)
      PROVE  Moves(r, Reading)
  BY <1>1, <1>2 DEF PublicUpload, SummarizeDoc, Present, Rows
<1>3. ASSUME AutoSummarizeDoc(r)
      PROVE  Moves(r, Reading)
  <2>1. task[r].step \in Reading /\ "look" \in Reading /\ "look" \in Steps
    BY <1>3 DEF AutoSummarizeDoc, Doing, Reading, Steps
  <2>2. GoOn(r, "look") \/ Done(r)
    BY <1>3 DEF AutoSummarizeDoc
  <2> QED
    BY <2>1, <2>2, GoneOnMoves, DoneMoves
<1>4. ASSUME CommitSummarizeDoc(r)
      PROVE  Moves(r, Reading)
  BY <1>4, DoneMoves DEF CommitSummarizeDoc, Doing, Reading
<1>5. ASSUME NEW step \in {"auto", "verdict"}
      PROVE  CheckOf(r, step) \in Task /\ CheckOf(r, step).step = step /\ CheckOf(r, step).told = task[r].told
  <2>1. task[r] \in Task /\ papers.verdicts \in Nat /\ Extracted \in SUBSET Rows /\ step \in Steps
    BY <1>5 DEF JoiningTypeOK, Papers, Extracted, Steps
  <2> HIDE DEF Extracted
  <2> QED
    BY <2>1 DEF CheckOf, Task
<1>6. ASSUME AutoCrossCheck(r)
      PROVE  Moves(r, Reading)
  <2>1. CASE Ready
    BY <1>5, <1>6, <2>1, OnMoves DEF AutoCrossCheck, Doing, Reading
  <2>2. CASE ~Ready
    BY <1>6, <2>2, OnMoves, NoTaskType DEF AutoCrossCheck, Doing, Reading
  <2> QED
    BY <2>1, <2>2
<1>7. ASSUME CrossVerify(r)
      PROVE  Moves(r, Reading)
  BY <1>5, <1>7 DEF JoiningTypeOK, CrossVerify, Begin, Doing, Moves, Reading
<1>8. ASSUME CommitVerdict(r)
      PROVE  Moves(r, Reading)
  BY <1>8, DoneMoves DEF CommitVerdict, Doing, Reading
<1>9. ASSUME CheckFails(r)
      PROVE  Moves(r, Reading)
  BY <1>9, DoneMoves DEF CheckFails, Doing, Reading
<1>10. UNCHANGED <<medicalTest, numbers, conduct, asked>>
  BY DEF PaperStep, PublicUpload, AutoSummarizeDoc, SummarizeDoc, CommitSummarizeDoc, AutoCrossCheck,
         CrossVerify, CommitVerdict, CheckFails
<1> QED
  BY <1>2, <1>3, <1>4, <1>6, <1>7, <1>8, <1>9, <1>10 DEF PaperStep

(* Every request's step belongs to one of these. *)
LEMMA StepKinds ==
  ASSUME NEW r \in Tasks, Step(r)
  PROVE  LetterStep(r) \/ NumberStep(r) \/ IdStep(r) \/ FormStep(r) \/ PaperStep(r) \/ ReplyStep(r)
  BY DEF Step, LetterStep, NumberStep, IdStep, FormStep, PaperStep, ReplyStep

(* The requests that are not about the facility leave its rows as they are. *)
LEMMA OthersMove ==
  ASSUME JoiningTypeOK, NEW r \in Tasks, Step(r), ~ReplyStep(r)
  PROVE  /\ UNCHANGED asked
         /\ task'[r].step \notin Replying
         /\ \A q \in Tasks : q # r => task'[q] = task[q]
<1>1. CASE LetterStep(r)
  BY <1>1, LetterMoves DEF Moves, Sending, Replying
<1>2. CASE NumberStep(r)
  BY <1>2, NumberMoves DEF Moves, Numbering, Replying
<1>3. CASE IdStep(r)
  BY <1>3, IdMoves DEF Moves, Replying
<1>4. CASE FormStep(r)
  BY <1>4, FormMoves DEF Moves, Forming, Replying
<1>5. CASE PaperStep(r)
  BY <1>5, PaperMoves DEF Moves, Reading, Replying
<1> QED
  BY <1>1, <1>2, <1>3, <1>4, <1>5, StepKinds

LEMMA NotifyMoves ==
  ASSUME JoiningTypeOK, Notify
  PROVE  /\ UNCHANGED task
         /\ \A l \in FacilityLinks : /\ asked'[l].answers = asked[l].answers
                                     /\ asked[l].sent => asked'[l].sent
         /\ \E l \in FacilityLinks : asked'[l].sent
<1>1. PICK k \in FacilityLinks : asked' = [asked EXCEPT ![k].sent = TRUE]
  BY DEF Notify
<1>2. asked \in [FacilityLinks -> Link]
  BY DEF JoiningTypeOK
<1>3. \A l \in FacilityLinks : asked[l] \in Link
  BY <1>2
<1>4. asked'[k] = [asked[k] EXCEPT !.sent = TRUE] /\ \A l \in FacilityLinks : l # k => asked'[l] = asked[l]
  BY <1>1, <1>2
<1>5. asked'[k].answers = asked[k].answers /\ asked'[k].sent
  BY <1>3, <1>4 DEF Link
<1> QED
  BY <1>4, <1>5 DEF Notify

LEMMA ExpireMoves ==
  ASSUME JoiningTypeOK, Expire
  PROVE  /\ UNCHANGED task
         /\ \A l \in FacilityLinks : /\ asked'[l].answers = asked[l].answers
                                     /\ asked'[l].sent = asked[l].sent
<1>1. PICK k \in FacilityLinks : asked' = [asked EXCEPT ![k].expired = TRUE]
  BY DEF Expire
<1>2. asked \in [FacilityLinks -> Link]
  BY DEF JoiningTypeOK
<1>3. \A l \in FacilityLinks : asked[l] \in Link
  BY <1>2
<1>4. asked'[k] = [asked[k] EXCEPT !.expired = TRUE] /\ \A l \in FacilityLinks : l # k => asked'[l] = asked[l]
  BY <1>1, <1>2
<1>5. asked'[k].answers = asked[k].answers /\ asked'[k].sent = asked[k].sent
  BY <1>3, <1>4 DEF Link
<1> QED
  BY <1>4, <1>5 DEF Expire

LEMMA AnswerMoves ==
  ASSUME JoiningTypeOK, NEW r \in Tasks, NEW answer \in Replying, Doing(r, answer),
         asked' = [asked EXCEPT ![task[r].link].answers = Answered(@, answer)]
  PROVE  /\ task[r].link \in FacilityLinks
         /\ asked'[task[r].link].answers = asked[task[r].link].answers \cup {answer}
         /\ \A l \in FacilityLinks : /\ asked'[l].sent = asked[l].sent
                                     /\ l # task[r].link => asked'[l] = asked[l]
<1> DEFINE k == task[r].link
<1>1. asked \in [FacilityLinks -> Link] /\ k \in FacilityLinks
  BY DEF JoiningTypeOK, Task
<1>2. \A l \in FacilityLinks : asked[l] \in Link
  BY <1>1
<1>3. /\ asked'[k] = [asked[k] EXCEPT !.answers = asked[k].answers \cup {answer}]
      /\ \A l \in FacilityLinks : l # k => asked'[l] = asked[l]
  BY <1>1 DEF Answered
<1> HIDE DEF k
<1>4. asked'[k].answers = asked[k].answers \cup {answer} /\ asked'[k].sent = asked[k].sent
  BY <1>1, <1>2, <1>3 DEF Link
<1>5. QED
  BY <1>1, <1>3, <1>4 DEF k

LEMMA RestartMoves ==
  ASSUME Restart
  PROVE  \A r \in Tasks : task'[r] = NoTask /\ task'[r].step = "none"
  BY NoTaskType DEF Restart

LEMMA AwaitedStep == JoiningTypeOK /\ Awaited /\ [JoiningNext]_jvars => Awaited'
<1> SUFFICES ASSUME JoiningTypeOK, Awaited, JoiningNext \/ UNCHANGED jvars
             PROVE  Awaited'
  OBVIOUS
<1>1. ASSUME NEW r \in Tasks, Step(r), ~ReplyStep(r)
      PROVE  Awaited'
  BY <1>1, OthersMove DEF Awaited
<1>2. ASSUME NEW r \in Tasks, NEW answer \in Replying, Reply(r, answer)
      PROVE  Awaited'
  <2>1. PICK l \in FacilityLinks :
          /\ asked[l].sent
          /\ Begin(r, "facility", [NoTask EXCEPT !.step = answer, !.link = l])
    BY <1>2 DEF Reply, Unanswered
  <2>2. task'[r].link = l /\ \A q \in Tasks : q # r => task'[q] = task[q]
    BY <2>1, NoTaskType DEF JoiningTypeOK, Begin, NoTask
  <2>3. UNCHANGED asked
    BY <1>2 DEF Reply
  <2> QED
    BY <2>1, <2>2, <2>3 DEF Awaited
<1>3. ASSUME NEW r \in Tasks, CommitAnswer(r)
      PROVE  Awaited'
  <2>1. PICK answer \in Replying :
          Doing(r, answer) /\ asked' = [asked EXCEPT ![task[r].link].answers = Answered(@, answer)]
    BY <1>3 DEF CommitAnswer, Replying
  <2>2. \A l \in FacilityLinks : asked'[l].sent = asked[l].sent
    BY <2>1, AnswerMoves
  <2>3. task'[r].step = "none" /\ \A q \in Tasks : q # r => task'[q] = task[q]
    BY <1>3, DoneType, NoTaskType DEF CommitAnswer, JoiningTypeOK
  <2>4. \A q \in Tasks : task[q].link \in FacilityLinks
    BY DEF JoiningTypeOK, Task
  <2> QED
    BY <2>2, <2>3, <2>4 DEF Awaited, Replying
<1>4. CASE RequestMedicalTest \/ UploadMedicalReport \/ ManualCrossCheck \/ UNCHANGED jvars
  BY <1>4 DEF RequestMedicalTest, UploadMedicalReport, ManualCrossCheck, jvars, Awaited
<1>5. CASE Notify \/ Expire
  <2>1. \A q \in Tasks : task[q].link \in FacilityLinks
    BY DEF JoiningTypeOK, Task
  <2> QED
    BY <1>5, <2>1, NotifyMoves, ExpireMoves DEF Awaited
<1>6. CASE Restart
  BY <1>6, RestartMoves DEF Awaited, Replying
<1> QED
  BY <1>1, <1>2, <1>3, <1>4, <1>5, <1>6 DEF JoiningNext, ReplyStep, ConfirmByToken, DeclineByToken, Replying

(* The facility's line moves only the way HR is promised. *)
LEMMA FacilityStep ==
  JoiningTypeOK /\ Awaited /\ [JoiningNext]_jvars => A!Next \/ GetStatus' = GetStatus
<1> SUFFICES ASSUME JoiningTypeOK, Awaited, JoiningNext \/ UNCHANGED jvars
             PROVE  A!Next \/ GetStatus' = GetStatus
  OBVIOUS
<1>1. CASE UNCHANGED asked
  BY <1>1 DEF GetStatus
<1>2. CASE Notify
  BY <1>2, NotifyMoves DEF GetStatus, A!Next, A!Ask
<1>3. CASE Expire
  BY <1>3, ExpireMoves DEF GetStatus
<1>4. ASSUME NEW r \in Tasks, CommitAnswer(r)
      PROVE  A!Next \/ GetStatus' = GetStatus
  <2>1. PICK answer \in Replying :
          Doing(r, answer) /\ asked' = [asked EXCEPT ![task[r].link].answers = Answered(@, answer)]
    BY <1>4 DEF CommitAnswer, Replying
  <2> DEFINE k == task[r].link
  <2>2. k \in FacilityLinks /\ asked[k].sent
    BY <2>1, AnswerMoves DEF Awaited, Doing
  <2>3. /\ asked'[k].answers = asked[k].answers \cup {answer}
        /\ \A l \in FacilityLinks : asked'[l].sent = asked[l].sent /\ (l # k => asked'[l] = asked[l])
    BY <2>1, AnswerMoves
  <2> HIDE DEF k
  <2>4. GetStatus # "idle"
    BY <2>2 DEF GetStatus
  <2>5. CASE answer = "confirmed"
    <3>1. GetStatus' = "arranged"
      BY <2>2, <2>3, <2>5 DEF GetStatus
    <3> QED
      BY <2>4, <3>1 DEF GetStatus, A!Next, A!Confirm
  <2>6. CASE answer = "declined"
    <3>1. \A l \in FacilityLinks : "confirmed" \in asked'[l].answers <=> "confirmed" \in asked[l].answers
      BY <2>2, <2>3, <2>6
    <3>2. "declined" \in asked'[k].answers
      BY <2>3, <2>6
    <3>3. CASE GetStatus = "arranged"
      <4>1. GetStatus' = "arranged"
        BY <3>1, <3>3 DEF GetStatus
      <4> QED
        BY <3>3, <4>1
    <3>4. CASE GetStatus # "arranged"
      <4>1. GetStatus' = "refused"
        BY <2>2, <3>1, <3>2, <3>4 DEF GetStatus
      <4>2. GetStatus \in {"waiting", "refused"}
        BY <2>4, <3>4 DEF GetStatus
      <4> QED
        BY <4>1, <4>2 DEF A!Next, A!Refuse
    <3> QED
      BY <3>3, <3>4
  <2> QED
    BY <2>5, <2>6 DEF Replying
<1>5. ASSUME NEW r \in Tasks, Step(r)
      PROVE  A!Next \/ GetStatus' = GetStatus
  BY <1>1, <1>4, <1>5, OthersMove DEF ReplyStep, ConfirmByToken, DeclineByToken, Reply
<1> QED
  BY <1>1, <1>2, <1>3, <1>5
     DEF JoiningNext, RequestMedicalTest, UploadMedicalReport, ManualCrossCheck, Restart, jvars

(* The facility is arranged for good once anybody confirms, refused only while nobody
   has, however many are asked, whichever answers race and wherever the process stops:
   the rows of facility-provisioning.service.ts implement Arrangement. *)
THEOREM FacilityTheorem == JoiningSpec => FacilityArranged
<1>1. JoiningInit => JoiningTypeOK /\ Awaited /\ A!Init
  <2> SUFFICES ASSUME JoiningInit
               PROVE  JoiningTypeOK /\ Awaited /\ A!Init
    OBVIOUS
  <2>1. Awaited
    BY NoTaskType DEF JoiningInit, Awaited, Replying
  <2>2. \A l \in FacilityLinks : asked[l].sent = FALSE /\ asked[l].answers = {}
    BY DEF JoiningInit
  <2>3. GetStatus = "idle"
    BY <2>2 DEF GetStatus
  <2> QED
    BY <2>1, <2>3, JoiningInitType DEF A!Init
<1>2. JoiningTypeOK /\ Awaited /\ [JoiningNext]_jvars
        => JoiningTypeOK' /\ Awaited' /\ [A!Next]_GetStatus
  BY JoiningTypeStep, AwaitedStep, FacilityStep
<1> QED
  BY <1>1, <1>2, PTL DEF JoiningSpec, FacilityArranged, A!Spec

-----------------------------------------------------------------------------
(* The papers *)

(* A step that overlapped stays one that overlapped. *)
LEMMA LineKept == JoiningNext => (inLine' => inLine)
  BY ZenonT(60) DEF JoiningNext, Step, Keeps, SendLetter, Issue, MailTeam, MailCandidate, PostLetter, RecordLetter,
         UpsertMedicalExam, GenerateMedicalRefNo, CommitExam, SetEmployeeId, CommitEmployeeId, SendCoc,
         CommitSendCoc, PublicAcknowledgeCoc, SignCoc, FileCoc, AttachCoc, AddCocRow, PublicUpload,
         AutoSummarizeDoc, SummarizeDoc, CommitSummarizeDoc, AutoCrossCheck, CrossVerify, CommitVerdict,
         CheckFails, ConfirmByToken, DeclineByToken, Reply, CommitAnswer, RequestMedicalTest,
         UploadMedicalReport, ManualCrossCheck, Notify, Expire, Restart

(* The letter: what is on its way carries a number and has told only while it was
   being mailed; and of the numbers given at most one was ever mailed, which is the
   row's unless HR has typed over it or the letter is still to be recorded. *)
Writing == {"team", "candidate", "record"}

SystemRefs == posted.refs \ {Typed}

LettersHold ==
  /\ 0 \notin posted.refs
  /\ \A r \in Tasks : task[r].step \in Writing => task[r].ref # 0
  /\ \A r \in Tasks : task[r].told # {} => task[r].step \in {"candidate", "record"}

OneLetter ==
  /\ \A q, r \in Tasks : task[q].step \in Sending /\ task[r].step \in Sending => q = r
  /\ \A r \in Tasks : task[r].step \in Sending =>
       /\ task[r].saw.told = letter.told
       /\ letter.ref = 0 \/ (task[r].step # "issue" /\ task[r].ref \in {Typed, letter.ref})
  /\ \A m, n \in SystemRefs : m = n
  /\ \A n \in SystemRefs :
       \/ letter.ref \in {n, Typed}
       \/ letter.ref = 0 /\ \E r \in Tasks : task[r].told # {} /\ task[r].ref = n
  /\ \A s \in posted.told : s \in letter.told \/ \E r \in Tasks : s \in task[r].told

LetterInv == LettersHold /\ (inLine => OneLetter)

(* What is neither a letter's nor about letters leaves them as they are. *)
LEMMA LetterQuiet ==
  ASSUME LetterInv, UNCHANGED medicalTest, inLine' => inLine,
         \A r \in Tasks : \/ task'[r] = task[r]
                          \/ /\ task[r].step \notin Sending /\ task'[r].step \notin Sending
                             /\ task'[r].told \subseteq task[r].told
  PROVE  LetterInv'
<1>1. letter' = letter /\ posted' = posted
  BY DEF medicalTest
<1>2. \A r \in Tasks : task'[r] = task[r] \/ (task[r].told = {} /\ task'[r].told = {})
  BY DEF LetterInv, LettersHold, Sending
<1>3. \A r \in Tasks : task'[r].step \in Sending \/ task[r].told # {} => task'[r] = task[r]
  BY <1>2
<1>4. LettersHold'
  BY <1>1, <1>2, <1>3 DEF LetterInv, LettersHold, Sending, Writing
<1>5. ASSUME inLine'
      PROVE  OneLetter'
  <2>1. OneLetter
    BY <1>5 DEF LetterInv
  <2>2. SystemRefs' = SystemRefs
    BY <1>1 DEF SystemRefs
  <2>3. \A q, r \in Tasks : task'[q].step \in Sending /\ task'[r].step \in Sending => q = r
    BY <1>3, <2>1 DEF OneLetter
  <2>4. \A r \in Tasks : task'[r].step \in Sending =>
          /\ task'[r].saw.told = letter.told
          /\ letter.ref = 0 \/ (task'[r].step # "issue" /\ task'[r].ref \in {Typed, letter.ref})
    BY <1>3, <2>1 DEF OneLetter
  <2>5. \A n \in SystemRefs :
          \/ letter.ref \in {n, Typed}
          \/ letter.ref = 0 /\ \E r \in Tasks : task'[r].told # {} /\ task'[r].ref = n
    BY <1>3, <2>1 DEF OneLetter
  <2>6. \A s \in posted.told : s \in letter.told \/ \E r \in Tasks : s \in task'[r].told
    BY <1>2, <2>1 DEF OneLetter
  <2> QED
    BY <1>1, <2>1, <2>2, <2>3, <2>4, <2>5, <2>6 DEF OneLetter
<1> QED
  BY <1>4, <1>5 DEF LetterInv

LEMMA SendFacts ==
  ASSUME JoiningTypeOK, NEW r \in Tasks, SendLetter(r)
  PROVE  /\ task[r].step = "none" /\ \A q \in Tasks : q # r => task'[q] = task[q]
         /\ task'[r].step = IF task'[r].ref = 0 THEN "issue" ELSE "team"
         /\ task'[r].ref = Typed \/ task'[r].ref = letter.ref
         /\ task'[r].told = {} /\ task'[r].saw = letter
         /\ UNCHANGED medicalTest /\ inLine' = (inLine /\ ~Some(Sending))
<1>1. PICK to \in (SUBSET Sides) \ {{}}, typed \in BOOLEAN :
        LET ref == IF typed THEN Typed ELSE Kept(letter) IN
        Begin(r, "letter", [NoTask EXCEPT !.step = IF ref = 0 THEN "issue" ELSE "team",
                                          !.saw = letter, !.ref = ref, !.to = to])
  BY DEF SendLetter
<1> DEFINE ref == IF typed THEN Typed ELSE Kept(letter)
           step == IF ref = 0 THEN "issue" ELSE "team"
           v == [NoTask EXCEPT !.step = step, !.saw = letter, !.ref = ref, !.to = to]
<1>2. letter \in Letter
  BY DEF JoiningTypeOK
<1>3. v.step = step /\ v.ref = ref /\ v.told = {} /\ v.saw = letter
  <2> HIDE DEF ref, step
  <2> QED
    BY NoTaskType DEF Task
<1>4. task[r].step = "none" /\ task' = [task EXCEPT ![r] = v]
  BY <1>1 DEF Begin, Doing
<1>5. ref = Typed \/ ref = letter.ref
  BY DEF Kept
<1>6. task'[r] = v /\ \A q \in Tasks : q # r => task'[q] = task[q]
  <2> HIDE DEF v
  <2> QED
    BY <1>4 DEF JoiningTypeOK
<1> HIDE DEF v, ref
<1> QED
  BY <1>3, <1>4, <1>5, <1>6 DEF SendLetter, Keeps

LEMMA SendKeepsLetter ==
  ASSUME JoiningTypeOK, LetterInv, NEW r \in Tasks, SendLetter(r)
  PROVE  LetterInv'
<1>1. letter' = letter /\ posted' = posted
  BY SendFacts DEF medicalTest
<1>2. task[r].told = {} /\ task'[r].told = {}
  BY SendFacts DEF LetterInv, LettersHold
<1>3. LettersHold'
  BY <1>1, <1>2, SendFacts DEF LetterInv, LettersHold, Writing
<1>4. ASSUME inLine'
      PROVE  OneLetter'
  <2>1. OneLetter /\ \A q \in Tasks : task[q].step \notin Sending
    BY <1>4, SendFacts DEF LetterInv, Some
  <2>2. SystemRefs' = SystemRefs
    BY <1>1 DEF SystemRefs
  <2>3. \A p, q \in Tasks : task'[p].step \in Sending /\ task'[q].step \in Sending => p = q
    BY <2>1, SendFacts
  <2>4. \A q \in Tasks : task'[q].step \in Sending =>
          /\ task'[q].saw.told = letter.told
          /\ letter.ref = 0 \/ (task'[q].step # "issue" /\ task'[q].ref \in {Typed, letter.ref})
    BY <2>1, SendFacts DEF Typed
  <2>5. \A n \in SystemRefs :
          \/ letter.ref \in {n, Typed}
          \/ letter.ref = 0 /\ \E q \in Tasks : task'[q].told # {} /\ task'[q].ref = n
    BY <1>2, <2>1, SendFacts DEF OneLetter
  <2>6. \A s \in posted.told : s \in letter.told \/ \E q \in Tasks : s \in task'[q].told
    BY <1>2, <2>1, SendFacts DEF OneLetter
  <2> QED
    BY <1>1, <2>1, <2>2, <2>3, <2>4, <2>5, <2>6 DEF OneLetter
<1> QED
  BY <1>3, <1>4 DEF LetterInv

LEMMA IssueKeepsLetter ==
  ASSUME JoiningTypeOK, LetterInv, NEW r \in Tasks, Issue(r)
  PROVE  LetterInv'
<1>1. letter' = letter /\ posted' = posted /\ inLine' = inLine /\ task[r].step = "issue"
  BY DEF Issue, Doing
<1>2. task[r] \in Task /\ issued \in Nat
  BY DEF JoiningTypeOK
<1>3. /\ \A q \in Tasks : q # r => task'[q] = task[q]
      /\ \/ task'[r] = NoTask
         \/ task'[r].step = "team" /\ task'[r].ref = issued + 1 /\ task'[r].saw = task[r].saw
            /\ task'[r].told = task[r].told
  <2>1. CASE task' = [task EXCEPT ![r].ref = issued + 1, ![r].step = "team"]
    <3>1. task'[r] = [task[r] EXCEPT !.ref = issued + 1, !.step = "team"]
      BY <2>1 DEF JoiningTypeOK
    <3>2. \A q \in Tasks : q # r => task'[q] = task[q]
      BY <2>1 DEF JoiningTypeOK
    <3> QED
      BY <1>2, <3>1, <3>2 DEF Task
  <2>2. CASE task' = [task EXCEPT ![r] = NoTask]
    BY <2>2 DEF JoiningTypeOK
  <2> QED
    BY <2>1, <2>2 DEF Issue
<1>4. task[r].told = {} /\ task'[r].told = {}
  BY <1>1, <1>3, NoTaskType DEF LetterInv, LettersHold
<1>5. /\ task'[r].step \in {"none", "team"} /\ (task'[r].step = "team" => task'[r].ref # 0)
      /\ task'[r].step = "team" => task'[r].saw = task[r].saw
  BY <1>2, <1>3, NoTaskType
<1>6. LettersHold'
  BY <1>1, <1>3, <1>4, <1>5 DEF LetterInv, LettersHold, Writing
<1>7. ASSUME inLine'
      PROVE  OneLetter'
  <2>1. OneLetter /\ task[r].step \in Sending
    BY <1>1, <1>7 DEF LetterInv, Sending
  <2>2. SystemRefs' = SystemRefs
    BY <1>1 DEF SystemRefs
  <2>3. \A p, q \in Tasks : task'[p].step \in Sending /\ task'[q].step \in Sending => p = q
    BY <1>3, <2>1 DEF OneLetter
  <2>4. letter.ref = 0
    BY <1>1, <2>1 DEF OneLetter
  <2>5. \A q \in Tasks : task'[q].step \in Sending => task'[q].saw.told = letter.told
    BY <1>3, <1>5, <2>1 DEF OneLetter, Sending
  <2>6. \A n \in SystemRefs : \E q \in Tasks : task'[q].told # {} /\ task'[q].ref = n
    <3>1. \A n \in SystemRefs : letter.ref # n /\ letter.ref # Typed
      BY <2>4 DEF LetterInv, LettersHold, SystemRefs, Typed
    <3> QED
      BY <1>3, <1>4, <2>1, <3>1 DEF OneLetter
  <2>7. \A s \in posted.told : s \in letter.told \/ \E q \in Tasks : s \in task'[q].told
    BY <1>3, <1>4, <2>1 DEF OneLetter
  <2> QED
    BY <1>1, <2>1, <2>2, <2>3, <2>4, <2>5, <2>6, <2>7 DEF OneLetter
<1> QED
  BY <1>6, <1>7 DEF LetterInv

LEMMA PostKeepsLetter ==
  ASSUME JoiningTypeOK, LetterInv, NEW r \in Tasks, NEW side \in Sides, NEW next \in {"candidate", "record"},
         task[r].step \in {"team", "candidate"}, PostLetter(r, side, next)
  PROVE  LetterInv'
<1>1. letter' = letter /\ inLine' = inLine
  BY DEF PostLetter
<1>2. task[r] \in Task /\ posted \in Posted
  BY DEF JoiningTypeOK
<1>3. PICK leaves \in BOOLEAN :
        /\ posted' = IF leaves THEN [refs |-> posted.refs \cup {task[r].ref}, told |-> posted.told \cup {side}]
                     ELSE posted
        /\ task' = [task EXCEPT ![r].step = next, ![r].told = IF leaves THEN @ \cup {side} ELSE @]
  BY DEF PostLetter
<1>4. /\ \A q \in Tasks : q # r => task'[q] = task[q]
      /\ task'[r].step = next /\ task'[r].ref = task[r].ref /\ task'[r].saw = task[r].saw
      /\ task'[r].told = IF leaves THEN task[r].told \cup {side} ELSE task[r].told
  <2>1. task'[r] = [task[r] EXCEPT !.step = next, !.told = IF leaves THEN @ \cup {side} ELSE @]
    BY <1>3 DEF JoiningTypeOK
  <2>2. \A q \in Tasks : q # r => task'[q] = task[q]
    BY <1>3 DEF JoiningTypeOK
  <2> QED
    BY <1>2, <2>1, <2>2 DEF Task
<1>5. task[r].ref # 0 /\ task[r].step \in Sending /\ task'[r].step \in Sending
  BY <1>4 DEF LetterInv, LettersHold, Writing, Sending
<1>6. LettersHold'
  BY <1>3, <1>4, <1>5 DEF LetterInv, LettersHold, Writing
<1>7. ASSUME inLine'
      PROVE  OneLetter'
  <2>1. OneLetter
    BY <1>1, <1>7 DEF LetterInv
  <2>2. \A p, q \in Tasks : task'[p].step \in Sending /\ task'[q].step \in Sending => p = q
    BY <1>4, <1>5, <2>1 DEF OneLetter
  <2>3. task[r].step # "issue" /\ task'[r].step # "issue"
    BY <1>4
  <2>4. \A q \in Tasks : task'[q].step \in Sending =>
          /\ task'[q].saw.told = letter.told
          /\ letter.ref = 0 \/ (task'[q].step # "issue" /\ task'[q].ref \in {Typed, letter.ref})
    BY <1>4, <1>5, <2>1, <2>3 DEF OneLetter
  <2>5. CASE ~leaves
    <3>1. \A q \in Tasks : task'[q].told = task[q].told /\ task'[q].ref = task[q].ref
      BY <1>4, <2>5
    <3>2. SystemRefs' = SystemRefs /\ posted' = posted
      BY <1>3, <2>5 DEF SystemRefs
    <3>3. \A n \in SystemRefs :
            \/ letter.ref \in {n, Typed}
            \/ letter.ref = 0 /\ \E q \in Tasks : task'[q].told # {} /\ task'[q].ref = n
      BY <2>1, <3>1 DEF OneLetter
    <3>4. \A s \in posted.told : s \in letter.told \/ \E q \in Tasks : s \in task'[q].told
      BY <2>1, <3>1 DEF OneLetter
    <3> QED
      BY <1>1, <2>1, <2>2, <2>4, <3>2, <3>3, <3>4 DEF OneLetter
  <2>6. CASE leaves
    <3>1. /\ SystemRefs' = SystemRefs \cup ({task[r].ref} \ {Typed})
          /\ posted'.told = posted.told \cup {side}
      BY <1>3, <2>6 DEF SystemRefs
    <3>2. task'[r].told # {} /\ side \in task'[r].told /\ task[r].told \subseteq task'[r].told
      BY <1>4, <2>6
    <3>3. \A q \in Tasks : task[q].told # {} => q = r
      BY <1>5, <2>1 DEF LetterInv, LettersHold, OneLetter, Sending
    <3>4. task[r].ref # Typed => \A n \in SystemRefs : n = task[r].ref
      <4> SUFFICES ASSUME task[r].ref # Typed, NEW n \in SystemRefs
                   PROVE  n = task[r].ref
        OBVIOUS
      <4>1. letter.ref = 0 \/ letter.ref = task[r].ref
        BY <1>5, <2>1 DEF OneLetter
      <4>2. n # 0
        BY DEF SystemRefs, LetterInv, LettersHold
      <4> QED
        BY <2>1, <3>3, <4>1, <4>2 DEF OneLetter, Typed
    <3>5. \A n \in SystemRefs' :
            \/ letter.ref \in {n, Typed}
            \/ letter.ref = 0 /\ \E q \in Tasks : task'[q].told # {} /\ task'[q].ref = n
      <4>1. ASSUME NEW n \in SystemRefs
            PROVE  \/ letter.ref \in {n, Typed}
                   \/ letter.ref = 0 /\ \E q \in Tasks : task'[q].told # {} /\ task'[q].ref = n
        BY <1>4, <2>1, <3>2, <3>3 DEF OneLetter
      <4>2. ASSUME task[r].ref # Typed
            PROVE  \/ letter.ref = task[r].ref
                   \/ letter.ref = 0 /\ \E q \in Tasks : task'[q].told # {} /\ task'[q].ref = task[r].ref
        BY <1>4, <1>5, <2>1, <3>2, <4>2 DEF OneLetter
      <4> QED
        BY <3>1, <4>1, <4>2
    <3>6. \A m, n \in SystemRefs' : m = n
      BY <2>1, <3>1, <3>4 DEF OneLetter
    <3>7. \A s \in posted'.told : s \in letter.told \/ \E q \in Tasks : s \in task'[q].told
      BY <1>4, <2>1, <3>1, <3>2, <3>3 DEF OneLetter
    <3> QED
      BY <1>1, <2>2, <2>4, <3>5, <3>6, <3>7 DEF OneLetter
  <2> QED
    BY <2>5, <2>6
<1> QED
  BY <1>6, <1>7 DEF LetterInv

LEMMA RecordKeepsLetter ==
  ASSUME JoiningTypeOK, LetterInv, NEW r \in Tasks, RecordLetter(r)
  PROVE  LetterInv'
<1>1. task'[r] = NoTask /\ \A q \in Tasks : q # r => task'[q] = task[q]
  BY DoneType DEF RecordLetter, JoiningTypeOK
<1>2. /\ letter'.ref = task[r].ref /\ letter'.told = task[r].saw.told \cup task[r].told
      /\ posted' = posted /\ inLine' = inLine /\ task[r].step = "record"
  BY DEF RecordLetter, NumberKept, Doing
<1>3. task[r].ref # 0 /\ task[r].step \in Sending /\ task'[r].step \notin Sending /\ task'[r].told = {}
  BY <1>1, <1>2, NoTaskType DEF LetterInv, LettersHold, Writing, Sending
<1>4. LettersHold'
  BY <1>1, <1>2, <1>3 DEF LetterInv, LettersHold, Writing, Sending
<1>5. ASSUME inLine'
      PROVE  OneLetter'
  <2>1. OneLetter
    BY <1>2, <1>5 DEF LetterInv
  <2>2. \A q \in Tasks : task'[q].step \notin Sending
    BY <1>1, <1>3, <2>1 DEF OneLetter
  <2>3. \A q \in Tasks : task[q].told # {} => q = r
    BY <1>3, <2>1 DEF LetterInv, LettersHold, OneLetter, Sending
  <2>4. SystemRefs' = SystemRefs
    BY <1>2 DEF SystemRefs
  <2>5. \A n \in SystemRefs : letter'.ref \in {n, Typed}
    <3>1. letter.ref = 0 \/ task[r].ref \in {Typed, letter.ref}
      BY <1>3, <2>1 DEF OneLetter
    <3>2. 0 \notin SystemRefs
      BY DEF LetterInv, LettersHold, SystemRefs
    <3> QED
      BY <1>2, <2>1, <2>3, <3>1, <3>2 DEF OneLetter, Typed
  <2>6. \A s \in posted.told : s \in letter'.told
    <3>1. letter.told = task[r].saw.told
      BY <1>3, <2>1 DEF OneLetter
    <3> QED
      BY <1>2, <2>1, <2>3, <3>1 DEF OneLetter
  <2> QED
    BY <1>2, <2>1, <2>2, <2>4, <2>5, <2>6 DEF OneLetter
<1> QED
  BY <1>4, <1>5 DEF LetterInv

LEMMA TypingKeepsLetter ==
  ASSUME JoiningTypeOK, LetterInv, RequestMedicalTest
  PROVE  LetterInv'
<1>1. /\ letter'.ref \in {Typed, letter.ref} /\ letter'.told = letter.told
      /\ posted' = posted /\ task' = task /\ inLine' = (inLine /\ ~Some(Sending))
  BY DEF JoiningTypeOK, Letter, RequestMedicalTest, Keeps
<1>2. LettersHold'
  BY <1>1 DEF LetterInv, LettersHold
<1>3. ASSUME inLine'
      PROVE  OneLetter'
  <2>1. OneLetter /\ \A q \in Tasks : task[q].step \notin Sending /\ task[q].told = {}
    BY <1>1, <1>3 DEF LetterInv, LettersHold, Some, Sending
  <2>2. SystemRefs' = SystemRefs
    BY <1>1 DEF SystemRefs
  <2>3. \A n \in SystemRefs : letter'.ref \in {n, Typed}
    BY <1>1, <2>1 DEF OneLetter
  <2> QED
    BY <1>1, <2>1, <2>2, <2>3 DEF OneLetter
<1> QED
  BY <1>2, <1>3 DEF LetterInv

LEMMA RestartKeepsLetter ==
  ASSUME LetterInv, Restart
  PROVE  LetterInv'
<1>1. \A r \in Tasks : task'[r].step = "none" /\ task'[r].told = {}
  BY RestartMoves, NoTaskType
<1>2. /\ letter' = letter /\ posted' = posted
      /\ inLine' = (inLine /\ \A r \in Tasks : task[r].told = {} /\ task[r].step \notin {"look", "auto"})
  BY DEF Restart, medicalTest, Keeps
<1>3. LettersHold'
  BY <1>1, <1>2 DEF LetterInv, LettersHold, Writing
<1>4. ASSUME inLine'
      PROVE  OneLetter'
  <2>1. OneLetter /\ \A q \in Tasks : task[q].told = {}
    BY <1>2, <1>4 DEF LetterInv
  <2>2. SystemRefs' = SystemRefs
    BY <1>2 DEF SystemRefs
  <2>3. \A q \in Tasks : task'[q].step \notin Sending
    BY <1>1 DEF Sending
  <2> QED
    BY <1>1, <1>2, <2>1, <2>2, <2>3 DEF OneLetter
<1> QED
  BY <1>3, <1>4 DEF LetterInv

LEMMA LetterInvStep == JoiningTypeOK /\ LetterInv /\ [JoiningNext]_jvars => LetterInv'
<1> SUFFICES ASSUME JoiningTypeOK, LetterInv, JoiningNext \/ UNCHANGED jvars
             PROVE  LetterInv'
  OBVIOUS
<1>1. ASSUME NEW r \in Tasks, NEW steps, Moves(r, steps), steps \cap Sending = {},
             UNCHANGED medicalTest, inLine' => inLine
      PROVE  LetterInv'
  <2>1. \A q \in Tasks : \/ task'[q] = task[q]
                         \/ /\ task[q].step \notin Sending /\ task'[q].step \notin Sending
                            /\ task'[q].told \subseteq task[q].told
    BY <1>1 DEF Moves, Sending
  <2> QED
    BY <1>1, <2>1, LetterQuiet
<1>2. ASSUME NEW r \in Tasks, Step(r), ~LetterStep(r)
      PROVE  LetterInv'
  <2>1. inLine' => inLine
    BY <1>2, LineKept DEF JoiningNext
  <2>2. /\ Numbering \cap Sending = {} /\ {"id"} \cap Sending = {} /\ Forming \cap Sending = {}
        /\ Reading \cap Sending = {} /\ Replying \cap Sending = {}
    BY DEF Numbering, Forming, Reading, Replying, Sending
  <2>3. CASE NumberStep(r)
    BY <1>1, <2>1, <2>2, <2>3, NumberMoves
  <2>4. CASE IdStep(r)
    BY <1>1, <2>1, <2>2, <2>4, IdMoves
  <2>5. CASE FormStep(r)
    BY <1>1, <2>1, <2>2, <2>5, FormMoves
  <2>6. CASE PaperStep(r)
    BY <1>1, <2>1, <2>2, <2>6, PaperMoves
  <2>7. CASE ReplyStep(r)
    BY <1>1, <2>1, <2>2, <2>7, ReplyMoves
  <2> QED
    BY <1>2, <2>3, <2>4, <2>5, <2>6, <2>7, StepKinds
<1>3. ASSUME NEW r \in Tasks, LetterStep(r)
      PROVE  LetterInv'
  <2>1. MailTeam(r) \/ MailCandidate(r) => LetterInv'
    BY PostKeepsLetter DEF MailTeam, MailCandidate, Doing, Sides
  <2> QED
    BY <1>3, <2>1, SendKeepsLetter, IssueKeepsLetter, RecordKeepsLetter DEF LetterStep
<1>4. CASE UploadMedicalReport \/ ManualCrossCheck \/ Notify \/ Expire \/ UNCHANGED jvars
  <2>1. UNCHANGED medicalTest /\ UNCHANGED task /\ (inLine' => inLine)
    BY <1>4 DEF UploadMedicalReport, ManualCrossCheck, Notify, Expire, jvars, medicalTest
  <2> QED
    BY <2>1, LetterQuiet
<1> QED
  BY <1>2, <1>3, <1>4, TypingKeepsLetter, RestartKeepsLetter DEF JoiningNext

-----------------------------------------------------------------------------
(* The numbers: one first save at a time, and what the others are about to write is
   what their candidate already has. *)
Fresh(r) == task[r].step \in Numbering /\ exam[task[r].candidate] = 0

OneNumber ==
  /\ \A q, r \in Tasks : Fresh(q) /\ Fresh(r) => q = r
  /\ \A c, d \in Candidates : c # d /\ exam[c] = exam[d] => exam[c] = 0
  /\ \A r \in Tasks : task[r].step = "number" => Fresh(r)
  /\ \A r \in Tasks : task[r].step = "exam" =>
       /\ task[r].ref # 0
       /\ Fresh(r) => \A c \in Candidates : exam[c] # task[r].ref
       /\ ~Fresh(r) => task[r].ref = exam[task[r].candidate]

OneId ==
  /\ \A q, r \in Tasks : task[q].step = "id" /\ task[r].step = "id" => q = r
  /\ \A r \in Tasks : task[r].step = "id" => ~Clash(task[r].candidate, task[r].id)
  /\ \A c, d \in Candidates : c # d => employeeId[c] \cap employeeId[d] = {}

LEMMA NumberQuiet ==
  ASSUME inLine => OneNumber, UNCHANGED exam, inLine' => inLine,
         \A r \in Tasks : task'[r] = task[r] \/ task'[r].step \notin Numbering
  PROVE  inLine' => OneNumber'
<1> SUFFICES ASSUME inLine'
             PROVE  OneNumber'
  OBVIOUS
<1>1. OneNumber
  OBVIOUS
<1>2. \A r \in Tasks : task'[r].step \in Numbering => task'[r] = task[r]
  OBVIOUS
<1>3. \A r \in Tasks : task'[r].step \in Numbering => Fresh(r)' = Fresh(r)
  BY <1>2 DEF Fresh
<1>4. \A q, r \in Tasks : Fresh(q)' /\ Fresh(r)' => q = r
  BY <1>1, <1>3 DEF Fresh, OneNumber
<1>5. \A r \in Tasks : task'[r].step = "number" => Fresh(r)'
  BY <1>1, <1>2, <1>3 DEF OneNumber, Numbering
<1>6. \A r \in Tasks : task'[r].step = "exam" =>
        /\ task'[r].ref # 0
        /\ Fresh(r)' => \A c \in Candidates : exam'[c] # task'[r].ref
        /\ ~Fresh(r)' => task'[r].ref = exam'[task'[r].candidate]
  BY <1>1, <1>2, <1>3 DEF OneNumber, Numbering
<1> QED
  BY <1>1, <1>4, <1>5, <1>6 DEF OneNumber

LEMMA UpsertKeepsNumber ==
  ASSUME JoiningTypeOK, inLine => OneNumber, NEW r \in Tasks, UpsertMedicalExam(r)
  PROVE  inLine' => OneNumber'
<1> SUFFICES ASSUME inLine'
             PROVE  OneNumber'
  OBVIOUS
<1>1. PICK c \in Candidates :
        /\ Begin(r, "numbers", [NoTask EXCEPT !.step = IF exam[c] = 0 THEN "number" ELSE "exam",
                                              !.candidate = c, !.ref = exam[c]])
        /\ Keeps(exam[c] # 0 \/ ~Some({"number", "exam"}))
  BY DEF UpsertMedicalExam
<1> DEFINE step == IF exam[c] = 0 THEN "number" ELSE "exam"
           v == [NoTask EXCEPT !.step = step, !.candidate = c, !.ref = exam[c]]
<1>2. OneNumber /\ exam' = exam /\ (exam[c] = 0 => \A q \in Tasks : task[q].step \notin Numbering)
  BY <1>1 DEF Keeps, UpsertMedicalExam, numbers, Some, Numbering
<1>3. v.step = step /\ v.candidate = c /\ v.ref = exam[c]
  <2> HIDE DEF step
  <2> QED
    BY NoTaskType DEF Task
<1>4. task[r].step = "none" /\ task' = [task EXCEPT ![r] = v]
  BY <1>1 DEF Begin, Doing
<1>5. task'[r] = v /\ \A q \in Tasks : q # r => task'[q] = task[q]
  <2> HIDE DEF v
  <2> QED
    BY <1>4 DEF JoiningTypeOK
<1> HIDE DEF v
<1>6. /\ task'[r].candidate = c /\ task'[r].ref = exam[c]
      /\ task'[r].step = IF exam[c] = 0 THEN "number" ELSE "exam"
  BY <1>3, <1>5
<1>7. \A q \in Tasks : q # r => Fresh(q)' = Fresh(q)
  BY <1>2, <1>5 DEF Fresh
<1>8. Fresh(r)' = (exam[c] = 0)
  BY <1>2, <1>6 DEF Fresh, Numbering
<1>9. \A p, q \in Tasks : Fresh(p)' /\ Fresh(q)' => p = q
  <2>1. exam[c] = 0 => \A q \in Tasks : q # r => ~Fresh(q)'
    BY <1>2, <1>7 DEF Fresh
  <2> QED
    BY <1>2, <1>7, <1>8, <2>1 DEF OneNumber
<1>10. \A q \in Tasks : task'[q].step = "number" => Fresh(q)'
  BY <1>2, <1>5, <1>6, <1>7, <1>8 DEF OneNumber
<1>11. \A q \in Tasks : task'[q].step = "exam" =>
         /\ task'[q].ref # 0
         /\ Fresh(q)' => \A d \in Candidates : exam'[d] # task'[q].ref
         /\ ~Fresh(q)' => task'[q].ref = exam'[task'[q].candidate]
  <2>1. ASSUME NEW q \in Tasks, q # r, task'[q].step = "exam"
        PROVE  /\ task'[q].ref # 0
               /\ Fresh(q)' => \A d \in Candidates : exam'[d] # task'[q].ref
               /\ ~Fresh(q)' => task'[q].ref = exam'[task'[q].candidate]
    BY <1>2, <1>5, <1>7, <2>1 DEF OneNumber
  <2>2. task'[r].step = "exam" => /\ exam[c] # 0 /\ task'[r].ref = exam[c] /\ ~Fresh(r)'
                                  /\ exam'[task'[r].candidate] = exam[c]
    BY <1>2, <1>6, <1>8
  <2> QED
    BY <2>1, <2>2
<1> QED
  BY <1>2, <1>9, <1>10, <1>11 DEF OneNumber

LEMMA GenerateKeepsNumber ==
  ASSUME JoiningTypeOK, inLine => OneNumber, NEW r \in Tasks, GenerateMedicalRefNo(r)
  PROVE  inLine' => OneNumber'
<1> SUFFICES ASSUME inLine'
             PROVE  OneNumber'
  OBVIOUS
<1>1. OneNumber /\ exam' = exam /\ task[r].step = "number"
  BY DEF GenerateMedicalRefNo, numbers, Doing
<1>2. task[r] \in Task
  BY DEF JoiningTypeOK
<1>3. /\ task'[r].step = "exam" /\ task'[r].ref = NextNumber /\ task'[r].candidate = task[r].candidate
      /\ \A q \in Tasks : q # r => task'[q] = task[q]
  <2>1. task' = [task EXCEPT ![r].ref = NextNumber, ![r].step = "exam"]
    BY DEF GenerateMedicalRefNo
  <2> HIDE DEF NextNumber
  <2>2. task'[r] = [task[r] EXCEPT !.ref = NextNumber, !.step = "exam"]
    BY <2>1 DEF JoiningTypeOK
  <2>3. \A q \in Tasks : q # r => task'[q] = task[q]
    BY <2>1 DEF JoiningTypeOK
  <2> QED
    BY <1>2, <2>2, <2>3 DEF Task
<1>4. NextNumber \in Nat /\ NextNumber # 0 /\ \A c \in Candidates : exam[c] # NextNumber
  <2>1. exam \in [Candidates -> Nat]
    BY DEF JoiningTypeOK
  <2>2. NextNumber \in Nat /\ NextNumber # 0 /\ \A c \in Candidates : exam[c] < NextNumber
    BY <2>1, MaxNumber
  <2> HIDE DEF NextNumber
  <2> QED
    BY <2>1, <2>2
<1> HIDE DEF NextNumber
<1>5. \A q \in Tasks : Fresh(q)' = Fresh(q)
  BY <1>1, <1>3 DEF Fresh, Numbering
<1>6. Fresh(r)
  BY <1>1 DEF OneNumber
<1>7. \A q \in Tasks : task'[q].step = "exam" =>
        /\ task'[q].ref # 0
        /\ Fresh(q)' => \A d \in Candidates : exam'[d] # task'[q].ref
        /\ ~Fresh(q)' => task'[q].ref = exam'[task'[q].candidate]
  BY <1>1, <1>3, <1>4, <1>5, <1>6 DEF OneNumber
<1>8. \A q \in Tasks : task'[q].step = "number" => Fresh(q)'
  BY <1>1, <1>3, <1>5 DEF OneNumber
<1> QED
  BY <1>1, <1>5, <1>7, <1>8 DEF OneNumber

LEMMA CommitKeepsNumber ==
  ASSUME JoiningTypeOK, inLine => OneNumber, NEW r \in Tasks, CommitExam(r)
  PROVE  inLine' => OneNumber'
<1> SUFFICES ASSUME inLine'
             PROVE  OneNumber'
  OBVIOUS
<1> DEFINE c == task[r].candidate
           n == task[r].ref
<1>1. OneNumber /\ task[r].step = "exam"
  BY DEF CommitExam, Doing
<1>2. c \in Candidates /\ n \in Nat /\ exam \in [Candidates -> Nat]
  BY DEF JoiningTypeOK, Task
<1>3. exam'[c] = n /\ \A d \in Candidates : d # c => exam'[d] = exam[d]
  BY <1>2 DEF CommitExam
<1>4. task'[r].step = "none" /\ \A q \in Tasks : q # r => task'[q] = task[q]
  BY DoneType, NoTaskType DEF CommitExam, JoiningTypeOK
<1>5. n # 0 /\ (Fresh(r) => \A d \in Candidates : exam[d] # n) /\ (~Fresh(r) => n = exam[c])
  BY <1>1 DEF OneNumber
<1>6. Fresh(r) <=> exam[c] = 0
  BY <1>1 DEF Fresh, Numbering
<1> HIDE DEF c, n
<1>7. \A q \in Tasks : q # r /\ task[q].step \in Numbering => exam'[task[q].candidate] = exam[task[q].candidate]
  <2> SUFFICES ASSUME NEW q \in Tasks, q # r, task[q].step \in Numbering
               PROVE  exam'[task[q].candidate] = exam[task[q].candidate]
    OBVIOUS
  <2>1. task[q].candidate \in Candidates
    BY DEF JoiningTypeOK, Task
  <2>2. task[q].candidate # c \/ exam[c] = n
    BY <1>1, <1>5, <1>6 DEF OneNumber, Fresh
  <2> QED
    BY <1>3, <2>1, <2>2
<1>8. \A q \in Tasks : (q # r => Fresh(q)' = Fresh(q)) /\ (q = r => ~Fresh(q)')
  BY <1>4, <1>7 DEF Fresh, Numbering
<1>9. \A p, q \in Tasks : Fresh(p)' /\ Fresh(q)' => p = q
  BY <1>1, <1>8 DEF OneNumber
<1>10. \A d, e \in Candidates : d # e /\ exam'[d] = exam'[e] => exam'[d] = 0
  <2>1. CASE Fresh(r)
    BY <1>1, <1>3, <1>5, <2>1 DEF OneNumber
  <2>2. CASE ~Fresh(r)
    BY <1>1, <1>3, <1>5, <2>2 DEF OneNumber
  <2> QED
    BY <2>1, <2>2
<1>11. \A q \in Tasks : task'[q].step = "number" => Fresh(q)'
  BY <1>1, <1>4, <1>8 DEF OneNumber
<1>12. \A q \in Tasks : task'[q].step = "exam" =>
         /\ task'[q].ref # 0
         /\ Fresh(q)' => \A d \in Candidates : exam'[d] # task'[q].ref
         /\ ~Fresh(q)' => task'[q].ref = exam'[task'[q].candidate]
  <2> SUFFICES ASSUME NEW q \in Tasks, task'[q].step = "exam"
               PROVE  /\ task'[q].ref # 0
                      /\ Fresh(q)' => \A d \in Candidates : exam'[d] # task'[q].ref
                      /\ ~Fresh(q)' => task'[q].ref = exam'[task'[q].candidate]
    OBVIOUS
  <2>1. q # r /\ task'[q] = task[q] /\ task[q].step \in Numbering
    BY <1>4 DEF Numbering
  <2>2. task[q].ref # 0 /\ (~Fresh(q) => task[q].ref = exam[task[q].candidate])
    BY <1>1, <2>1 DEF OneNumber
  <2>3. Fresh(q) => \A d \in Candidates : exam'[d] # task[q].ref
    <3>1. Fresh(q) => exam[c] = n
      BY <1>1, <1>5, <2>1 DEF OneNumber
    <3> QED
      BY <1>1, <1>3, <2>1, <3>1 DEF OneNumber
  <2> QED
    BY <1>7, <1>8, <2>1, <2>2, <2>3
<1> QED
  BY <1>9, <1>10, <1>11, <1>12 DEF OneNumber

LEMMA IdQuiet ==
  ASSUME inLine => OneId, UNCHANGED employeeId, inLine' => inLine,
         \A r \in Tasks : task'[r] = task[r] \/ task'[r].step # "id"
  PROVE  inLine' => OneId'
  BY DEF OneId, Clash

LEMMA SetKeepsId ==
  ASSUME JoiningTypeOK, inLine => OneId, NEW r \in Tasks, SetEmployeeId(r)
  PROVE  inLine' => OneId'
<1> SUFFICES ASSUME inLine'
             PROVE  OneId'
  OBVIOUS
<1>1. PICK c \in Candidates, n \in Ids :
        /\ ~Clash(c, n)
        /\ Begin(r, "numbers", [NoTask EXCEPT !.step = "id", !.candidate = c, !.id = n])
        /\ Keeps(~Some({"id"}))
  BY DEF SetEmployeeId
<1> DEFINE v == [NoTask EXCEPT !.step = "id", !.candidate = c, !.id = n]
<1>2. OneId /\ \A q \in Tasks : task[q].step # "id"
  BY <1>1 DEF Keeps, Some
<1>3. v.step = "id" /\ v.candidate = c /\ v.id = n
  BY NoTaskType DEF Task
<1>4. task' = [task EXCEPT ![r] = v]
  BY <1>1 DEF Begin
<1> HIDE DEF v
<1>5. task'[r] = v /\ \A q \in Tasks : q # r => task'[q] = task[q]
  BY <1>4 DEF JoiningTypeOK
<1>6. employeeId' = employeeId
  BY DEF SetEmployeeId, numbers
<1> QED
  BY <1>1, <1>2, <1>3, <1>5, <1>6 DEF OneId, Clash

LEMMA CommitKeepsId ==
  ASSUME JoiningTypeOK, inLine => OneId, NEW r \in Tasks, CommitEmployeeId(r)
  PROVE  inLine' => OneId'
<1> SUFFICES ASSUME inLine'
             PROVE  OneId'
  OBVIOUS
<1> DEFINE c == task[r].candidate
           n == task[r].id
<1>1. OneId /\ task[r].step = "id" /\ ~Clash(c, n)
  BY DEF CommitEmployeeId, Doing, OneId
<1>2. c \in Candidates /\ employeeId \in [Candidates -> SUBSET Ids]
  BY DEF JoiningTypeOK, Task
<1>3. employeeId'[c] = {n} /\ \A d \in Candidates : d # c => employeeId'[d] = employeeId[d]
  BY <1>2 DEF CommitEmployeeId
<1>4. task'[r].step = "none" /\ \A q \in Tasks : q # r => task'[q] = task[q]
  BY DoneType, NoTaskType DEF CommitEmployeeId, JoiningTypeOK
<1> HIDE DEF c, n
<1>5. \A q \in Tasks : task'[q].step # "id"
  BY <1>1, <1>4 DEF OneId
<1>6. \A d \in Candidates : d # c => n \notin employeeId[d]
  BY <1>1 DEF Clash
<1>7. \A d, e \in Candidates : d # e => employeeId'[d] \cap employeeId'[e] = {}
  <2> SUFFICES ASSUME NEW d \in Candidates, NEW e \in Candidates, d # e
               PROVE  employeeId'[d] \cap employeeId'[e] = {}
    OBVIOUS
  <2>1. CASE d = c
    BY <1>3, <1>6, <2>1
  <2>2. CASE e = c
    BY <1>3, <1>6, <2>2
  <2>3. CASE d # c /\ e # c
    BY <1>1, <1>3, <2>3 DEF OneId
  <2> QED
    BY <2>1, <2>2, <2>3
<1> QED
  BY <1>5, <1>7 DEF OneId

LEMMA NumbersStep ==
  JoiningTypeOK /\ (inLine => OneNumber /\ OneId) /\ [JoiningNext]_jvars => (inLine' => OneNumber' /\ OneId')
<1> SUFFICES ASSUME JoiningTypeOK, inLine => OneNumber /\ OneId, JoiningNext \/ UNCHANGED jvars
             PROVE  (inLine' => OneNumber') /\ (inLine' => OneId')
  OBVIOUS
<1>1. inLine' => inLine
  BY LineKept DEF jvars
<1>2. ASSUME NEW r \in Tasks, NEW steps, Moves(r, steps)
      PROVE  /\ steps \cap Numbering = {} => \A q \in Tasks : task'[q] = task[q] \/ task'[q].step \notin Numbering
             /\ "id" \notin steps => \A q \in Tasks : task'[q] = task[q] \/ task'[q].step # "id"
  BY <1>2 DEF Moves, Numbering
<1>3. /\ {"id"} \cap Numbering = {} /\ Forming \cap Numbering = {} /\ Reading \cap Numbering = {}
      /\ Replying \cap Numbering = {} /\ Sending \cap Numbering = {}
      /\ "id" \notin Numbering \cup Forming \cup Reading \cup Replying \cup Sending
  BY DEF Numbering, Forming, Reading, Replying, Sending
<1>4. ASSUME NEW r \in Tasks, Step(r)
      PROVE  (inLine' => OneNumber') /\ (inLine' => OneId')
  <2>1. CASE LetterStep(r)
    BY <1>1, <1>2, <1>3, <2>1, LetterMoves, NumberQuiet, IdQuiet DEF numbers
  <2>2. CASE FormStep(r)
    BY <1>1, <1>2, <1>3, <2>2, FormMoves, NumberQuiet, IdQuiet DEF numbers
  <2>3. CASE PaperStep(r)
    BY <1>1, <1>2, <1>3, <2>3, PaperMoves, NumberQuiet, IdQuiet DEF numbers
  <2>4. CASE ReplyStep(r)
    BY <1>1, <1>2, <1>3, <2>4, ReplyMoves, NumberQuiet, IdQuiet DEF numbers
  <2>5. CASE NumberStep(r)
    <3>1. inLine' => OneId'
      BY <1>1, <1>2, <1>3, <2>5, NumberMoves, IdQuiet
    <3>2. inLine' => OneNumber'
      BY <2>5, UpsertKeepsNumber, GenerateKeepsNumber, CommitKeepsNumber DEF NumberStep
    <3> QED
      BY <3>1, <3>2
  <2>6. CASE IdStep(r)
    <3>1. inLine' => OneNumber'
      BY <1>1, <1>2, <1>3, <2>6, IdMoves, NumberQuiet
    <3>2. inLine' => OneId'
      BY <2>6, SetKeepsId, CommitKeepsId DEF IdStep
    <3> QED
      BY <3>1, <3>2
  <2> QED
    BY <1>4, <2>1, <2>2, <2>3, <2>4, <2>5, <2>6, StepKinds
<1>5. CASE \/ RequestMedicalTest \/ UploadMedicalReport \/ ManualCrossCheck \/ Notify \/ Expire
           \/ UNCHANGED jvars
  <2>1. UNCHANGED <<numbers, task>>
    BY <1>5 DEF RequestMedicalTest, UploadMedicalReport, ManualCrossCheck, Notify, Expire, jvars, numbers
  <2> QED
    BY <1>1, <2>1, NumberQuiet, IdQuiet DEF numbers
<1>6. CASE Restart
  <2>1. UNCHANGED numbers /\ \A q \in Tasks : task'[q].step \notin Numbering /\ task'[q].step # "id"
    BY <1>6, RestartMoves DEF Restart, Numbering
  <2> QED
    BY <1>1, <2>1, NumberQuiet, IdQuiet DEF numbers
<1> QED
  BY <1>4, <1>5, <1>6 DEF JoiningNext

-----------------------------------------------------------------------------
(* The Code of Conduct: one signature is filed at a time, and only once it is given. *)
AfterSigning == {"file", "attach", "fileRow"}

FormHolds ==
  /\ \A r \in Tasks : task[r].step \in AfterSigning => conduct.signed
  /\ ~conduct.signed => conduct.filed = 0
  /\ \A r \in Tasks : task[r].step = "fileRow" => conduct.onFile
  /\ Form \in Present => conduct.onFile
  /\ \A r \in Tasks : task[r].step = "extract" => task[r].doc \in Docs
  /\ \A r \in Tasks : task[r].step = "summarize" => task[r].doc \in Present

OneForm ==
  /\ \A q, r \in Tasks :
       {task[q].step, task[r].step} \subseteq AfterSigning \cup {"sign"} => q = r
  /\ \A r \in Tasks : task[r].step = "sign" => ~conduct.signed
  /\ \A r \in Tasks : task[r].step = "file" => conduct.filed = 0
  /\ conduct.filed <= 1

FormInv == FormHolds /\ (inLine => OneForm)

LEMMA OneFormKept ==
  ASSUME OneForm, conduct'.signed = conduct.signed, conduct'.filed = conduct.filed,
         \A r \in Tasks : \/ task'[r] = task[r]
                          \/ task'[r].step \notin AfterSigning \cup {"sign"}
                          \/ task[r].step \in AfterSigning /\ task'[r].step = "fileRow"
  PROVE  OneForm'
<1>1. \A r \in Tasks : task'[r].step \in AfterSigning \cup {"sign"} => task[r].step \in AfterSigning \cup {"sign"}
  BY DEF AfterSigning
<1>2. \A r \in Tasks : task'[r].step \in {"sign", "file"} => task[r].step = task'[r].step
  BY DEF AfterSigning
<1>3. \A q, r \in Tasks :
        {task'[q].step, task'[r].step} \subseteq AfterSigning \cup {"sign"} => q = r
  <2> SUFFICES ASSUME NEW q \in Tasks, NEW r \in Tasks, task'[q].step \in AfterSigning \cup {"sign"},
                      task'[r].step \in AfterSigning \cup {"sign"}
               PROVE  q = r
    OBVIOUS
  <2>1. task[q].step \in AfterSigning \cup {"sign"} /\ task[r].step \in AfterSigning \cup {"sign"}
    BY <1>1
  <2> QED
    BY <2>1 DEF OneForm
<1>4. \A r \in Tasks : task'[r].step = "sign" => ~conduct'.signed
  BY <1>2 DEF OneForm
<1>5. \A r \in Tasks : task'[r].step = "file" => conduct'.filed = 0
  BY <1>2 DEF OneForm
<1> QED
  BY <1>3, <1>4, <1>5 DEF OneForm

LEMMA FormQuiet ==
  ASSUME FormInv, UNCHANGED conduct, inLine' => inLine,
         Present \subseteq Present', Form \in Present' => Form \in Present,
         \A r \in Tasks : \/ task'[r] = task[r]
                          \/ task'[r].step \notin AfterSigning \cup {"sign", "extract", "summarize"}
                          \/ task'[r].step = "extract" /\ task'[r].doc \in Docs
                          \/ task'[r].step = "summarize" /\ task'[r].doc \in Present'
  PROVE  FormInv'
<1>1. \A r \in Tasks : task'[r].step \in AfterSigning \cup {"sign"} => task'[r] = task[r]
  BY DEF AfterSigning
<1>2. FormHolds
  BY DEF FormInv
<1>3. \A r \in Tasks : task'[r].step = "extract" => task'[r].doc \in Docs
  BY <1>2 DEF FormHolds
<1>4. \A r \in Tasks : task'[r].step = "summarize" => task'[r].doc \in Present'
  BY <1>2 DEF FormHolds
<1>5. FormHolds'
  BY <1>1, <1>2, <1>3, <1>4 DEF FormHolds, AfterSigning
<1>6. ASSUME inLine'
      PROVE  OneForm'
  <2>1. OneForm
    BY <1>6 DEF FormInv
  <2> QED
    BY <1>1, <2>1, OneFormKept
<1> QED
  BY <1>5, <1>6 DEF FormInv

(* What is read of the documents and what is written on them. *)
LEMMA PaperFacts ==
  ASSUME JoiningTypeOK, FormHolds, NEW r \in Tasks, PaperStep(r)
  PROVE  /\ Present \subseteq Present' /\ (Form \in Present' => Form \in Present)
         /\ task'[r].step \notin AfterSigning \cup {"sign"}
         /\ task'[r].step = "extract" => task'[r].doc \in Docs
         /\ task'[r].step = "summarize" => task'[r].doc \in Present'
<1>1. /\ task[r] \in Task /\ papers.doc \in [Rows -> DocStates] /\ Form \in Rows /\ Form \notin Docs
      /\ papers \in Papers
  BY DocsAssumption DEF JoiningTypeOK, Papers, Rows, Ours
<1>2. task'[r].step \in Reading \cup {"none"} /\ task'[r].step \notin AfterSigning \cup {"sign"}
  BY PaperMoves DEF Moves, Reading, AfterSigning
<1>3. ASSUME NEW d \in Rows, NEW s \in DocStates, s # "none", papers' = [papers EXCEPT !.doc[d] = s]
      PROVE  /\ Present' = Present \cup {d}
  <2>1. papers'.doc = [papers.doc EXCEPT ![d] = s]
    BY <1>1, <1>3 DEF Papers
  <2>2. papers'.doc[d] = s /\ \A e \in Rows : e # d => papers'.doc[e] = papers.doc[e]
    BY <1>1, <2>1
  <2> QED
    BY <1>3, <2>2 DEF Present
<1>4. ASSUME NEW step \in {"extract", "summarize"}, NEW d \in Rows,
             Begin(r, "check", [NoTask EXCEPT !.step = step, !.doc = d])
      PROVE  task'[r].step = step /\ task'[r].doc = d
  <2> DEFINE v == [NoTask EXCEPT !.step = step, !.doc = d]
  <2>1. v.step = step /\ v.doc = d
    BY NoTaskType DEF Task
  <2>2. task' = [task EXCEPT ![r] = v]
    BY <1>4 DEF Begin
  <2> HIDE DEF v
  <2> QED
    BY <2>1, <2>2 DEF JoiningTypeOK
<1>5. CASE PublicUpload(r)
  <2>1. PICK d \in Docs : /\ papers.doc[d] = "none" /\ papers' = [papers EXCEPT !.doc[d] = "uploaded"]
                          /\ Begin(r, "check", [NoTask EXCEPT !.step = "extract", !.doc = d])
    BY <1>5 DEF PublicUpload
  <2>2. d \in Rows /\ "uploaded" \in DocStates
    BY DEF Rows, DocStates
  <2> QED
    BY <1>1, <1>2, <1>3, <1>4, <2>1, <2>2
<1>6. CASE AutoSummarizeDoc(r)
  <2>1. task[r].step = "extract" /\ task[r].doc \in Docs /\ task[r].doc \in Rows /\ "extracted" \in DocStates
    BY <1>6 DEF AutoSummarizeDoc, Doing, FormHolds, Rows, DocStates
  <2>2. CASE papers' = [papers EXCEPT !.doc[task[r].doc] = "extracted"] /\ GoOn(r, "look")
    <3>1. task'[r].step = "look"
      <4>1. "look" \in Steps
        BY DEF Steps
      <4> QED
        BY <2>2, <4>1, GoneOnTo
    <3>2. Present' = Present \cup {task[r].doc}
      BY <1>3, <2>1, <2>2
    <3>3. task[r].doc \in Present \/ task[r].doc # Form
      BY <1>1, <2>1
    <3> QED
      BY <1>1, <1>2, <2>1, <3>1, <3>2
  <2>3. CASE Done(r) /\ UNCHANGED papers
    <3>1. task'[r].step = "none" /\ Present' = Present
      BY <2>3, DoneType, NoTaskType DEF JoiningTypeOK, Present
    <3> QED
      BY <1>2, <3>1
  <2> QED
    BY <1>6, <2>2, <2>3 DEF AutoSummarizeDoc
<1>7. CASE SummarizeDoc(r)
  <2>1. PICK d \in Present : Begin(r, "check", [NoTask EXCEPT !.step = "summarize", !.doc = d])
    BY <1>7 DEF SummarizeDoc
  <2>2. Present' = Present /\ d \in Rows
    BY <1>7 DEF SummarizeDoc, Present
  <2> QED
    BY <1>2, <1>4, <2>1, <2>2
<1>8. CASE CommitSummarizeDoc(r)
  <2>1. task[r].step = "summarize" /\ task[r].doc \in Present /\ task[r].doc \in Rows /\ "byHand" \in DocStates
    BY <1>8 DEF CommitSummarizeDoc, Doing, FormHolds, Present, DocStates
  <2>2. Present' = Present
    BY <1>3, <1>8, <2>1 DEF CommitSummarizeDoc
  <2>3. task'[r].step = "none"
    BY <1>8, DoneType, NoTaskType DEF CommitSummarizeDoc, JoiningTypeOK
  <2> QED
    BY <1>2, <2>2, <2>3
<1>9. CASE AutoCrossCheck(r) \/ CrossVerify(r) \/ CommitVerdict(r) \/ CheckFails(r)
  <2>1. Present' = Present
    <3>1. papers'.doc = papers.doc
      BY <1>1, <1>9 DEF AutoCrossCheck, CrossVerify, CommitVerdict, CheckFails, Verdict, Papers
    <3> QED
      BY <3>1 DEF Present
  <2>2. \A step \in {"auto", "verdict"} : CheckOf(r, step).step = step
    BY <1>1 DEF CheckOf, Task
  <2>3. task'[r].step \in {"none", "auto", "verdict"}
    <3>1. CASE AutoCrossCheck(r)
      BY <2>2, <3>1, NoTaskType DEF AutoCrossCheck, JoiningTypeOK
    <3>2. CASE CrossVerify(r)
      BY <2>2, <3>2 DEF CrossVerify, Begin, JoiningTypeOK
    <3>3. CASE CommitVerdict(r) \/ CheckFails(r)
      BY <3>3, DoneType, NoTaskType DEF CommitVerdict, CheckFails, JoiningTypeOK
    <3> QED
      BY <1>9, <3>1, <3>2, <3>3
  <2> QED
    BY <1>2, <2>1, <2>3
<1> QED
  BY <1>5, <1>6, <1>7, <1>8, <1>9 DEF PaperStep

LEMMA AcknowledgeKeepsForm ==
  ASSUME JoiningTypeOK, FormInv, NEW r \in Tasks, PublicAcknowledgeCoc(r)
  PROVE  FormInv'
<1> DEFINE v == [NoTask EXCEPT !.step = "sign"]
<1>1. v.step = "sign"
  BY NoTaskType DEF Task
<1>2. task' = [task EXCEPT ![r] = v]
  BY DEF PublicAcknowledgeCoc, Begin
<1> HIDE DEF v
<1>3. task'[r].step = "sign" /\ \A q \in Tasks : q # r => task'[q] = task[q]
  BY <1>1, <1>2 DEF JoiningTypeOK
<1>4. /\ ~conduct.signed /\ conduct' = conduct /\ papers' = papers
      /\ inLine' = (inLine /\ ~Some({"sign"}))
  BY DEF PublicAcknowledgeCoc, MayAcknowledge, Keeps
<1>5. \A q \in Tasks : task[q].step \notin AfterSigning
  BY <1>4 DEF FormInv, FormHolds
<1>6. FormHolds'
  BY <1>3, <1>4 DEF FormInv, FormHolds, Present, AfterSigning
<1>7. ASSUME inLine'
      PROVE  OneForm'
  <2>1. OneForm /\ \A q \in Tasks : task[q].step # "sign"
    BY <1>4, <1>7 DEF FormInv, Some
  <2> QED
    BY <1>3, <1>4, <1>5, <2>1 DEF OneForm, AfterSigning
<1> QED
  BY <1>6, <1>7 DEF FormInv

(* A request that goes from signing to filing, and what it writes on the way. *)
LEMMA SettlingKeepsForm ==
  ASSUME JoiningTypeOK, FormInv, NEW r \in Tasks, SignCoc(r) \/ FileCoc(r) \/ AttachCoc(r) \/ AddCocRow(r)
  PROVE  FormInv'
<1>1. conduct \in Conduct /\ papers \in Papers /\ inLine' = inLine
  BY DEF JoiningTypeOK, SignCoc, FileCoc, AttachCoc, AddCocRow
<1>2. ASSUME NEW step \in AfterSigning, GoOn(r, step)
      PROVE  task'[r].step = step /\ \A q \in Tasks : q # r => task'[q] = task[q]
  <2>1. step \in Steps
    BY DEF AfterSigning, Steps
  <2> QED
    BY <1>2, <2>1, GoneOnTo
<1>3. ASSUME Done(r)
      PROVE  task'[r].step = "none" /\ \A q \in Tasks : q # r => task'[q] = task[q]
  BY <1>3, DoneType, NoTaskType DEF JoiningTypeOK
<1>4. CASE SignCoc(r)
  <2>1. /\ task[r].step = "sign" /\ task'[r].step = "file" /\ \A q \in Tasks : q # r => task'[q] = task[q]
        /\ conduct'.signed /\ conduct'.filed = conduct.filed /\ conduct'.onFile = conduct.onFile
        /\ papers' = papers
    BY <1>1, <1>2, <1>4 DEF SignCoc, Doing, Conduct, AfterSigning
  <2>2. FormHolds'
    BY <2>1 DEF FormInv, FormHolds, Present, AfterSigning
  <2>3. inLine => OneForm'
    BY <2>1 DEF FormInv, FormHolds, OneForm, AfterSigning
  <2> QED
    BY <1>1, <2>2, <2>3 DEF FormInv
<1>5. CASE FileCoc(r)
  <2>1. task[r].step = "file" /\ papers' = papers
    BY <1>5 DEF FileCoc, Doing
  <2>2. CASE GoOn(r, "attach") /\ conduct' = [conduct EXCEPT !.filed = @ + 1]
    <3>1. /\ task'[r].step = "attach" /\ \A q \in Tasks : q # r => task'[q] = task[q]
          /\ conduct'.signed = conduct.signed /\ conduct'.filed = conduct.filed + 1
          /\ conduct'.onFile = conduct.onFile /\ conduct.filed \in Nat
      BY <1>1, <1>2, <2>2 DEF Conduct, AfterSigning
    <3>2. FormHolds'
      BY <2>1, <3>1 DEF FormInv, FormHolds, Present, AfterSigning
    <3>3. inLine => OneForm'
      BY <2>1, <3>1 DEF FormInv, OneForm, AfterSigning
    <3> QED
      BY <1>1, <3>2, <3>3 DEF FormInv
  <2>3. CASE Done(r) /\ UNCHANGED conduct
    <3>1. Present' = Present
      BY <2>1 DEF Present
    <3> QED
      BY <1>1, <1>3, <2>3, <3>1, FormQuiet DEF AfterSigning
  <2> QED
    BY <1>5, <2>2, <2>3 DEF FileCoc
<1>6. CASE AttachCoc(r)
  <2>1. /\ task[r].step = "attach" /\ task'[r].step = "fileRow" /\ \A q \in Tasks : q # r => task'[q] = task[q]
        /\ conduct'.signed = conduct.signed /\ conduct'.filed = conduct.filed /\ conduct'.onFile
        /\ papers' = papers
    BY <1>1, <1>2, <1>6 DEF AttachCoc, Doing, Conduct, AfterSigning
  <2>2. FormHolds'
    BY <2>1 DEF FormInv, FormHolds, Present, AfterSigning
  <2>3. inLine => OneForm'
    BY <2>1, OneFormKept DEF FormInv, AfterSigning
  <2> QED
    BY <1>1, <2>2, <2>3 DEF FormInv
<1>7. CASE AddCocRow(r)
  <2>1. /\ task[r].step = "fileRow" /\ task'[r].step = "none" /\ \A q \in Tasks : q # r => task'[q] = task[q]
        /\ conduct' = conduct
    BY <1>3, <1>7 DEF AddCocRow, Doing
  <2>2. conduct.onFile
    BY <2>1 DEF FormInv, FormHolds
  <2>3. Present \subseteq Present'
    <3>1. papers'.doc = [papers.doc EXCEPT ![Form] = IF @ = "none" THEN "uploaded" ELSE @]
      BY <1>1, <1>7 DEF AddCocRow, Papers
    <3>2. papers.doc \in [Rows -> DocStates]
      BY <1>1 DEF Papers
    <3> QED
      BY <3>1, <3>2 DEF Present
  <2>4. FormHolds'
    BY <2>1, <2>2, <2>3 DEF FormInv, FormHolds, AfterSigning
  <2>5. inLine => OneForm'
    BY <2>1, OneFormKept DEF FormInv, AfterSigning
  <2> QED
    BY <1>1, <2>4, <2>5 DEF FormInv
<1> QED
  BY <1>4, <1>5, <1>6, <1>7

LEMMA FormInvStep == JoiningTypeOK /\ FormInv /\ [JoiningNext]_jvars => FormInv'
<1> SUFFICES ASSUME JoiningTypeOK, FormInv, JoiningNext \/ UNCHANGED jvars
             PROVE  FormInv'
  OBVIOUS
<1>1. inLine' => inLine
  BY LineKept DEF jvars
<1>2. ASSUME NEW r \in Tasks, NEW steps, Moves(r, steps), UNCHANGED <<conduct, papers>>,
             steps \cap (AfterSigning \cup {"sign", "extract", "summarize"}) = {}
      PROVE  FormInv'
  <2>1. Present' = Present
    BY <1>2 DEF Present
  <2>2. \A q \in Tasks : \/ task'[q] = task[q]
                         \/ task'[q].step \notin AfterSigning \cup {"sign", "extract", "summarize"}
    BY <1>2 DEF Moves, AfterSigning
  <2> QED
    BY <1>1, <1>2, <2>1, <2>2, FormQuiet
<1>3. ASSUME NEW r \in Tasks, Step(r)
      PROVE  FormInv'
  <2>1. CASE LetterStep(r) \/ NumberStep(r) \/ IdStep(r) \/ ReplyStep(r)
    <3>1. /\ Sending \cap (AfterSigning \cup {"sign", "extract", "summarize"}) = {}
          /\ Numbering \cap (AfterSigning \cup {"sign", "extract", "summarize"}) = {}
          /\ {"id"} \cap (AfterSigning \cup {"sign", "extract", "summarize"}) = {}
          /\ Replying \cap (AfterSigning \cup {"sign", "extract", "summarize"}) = {}
      BY DEF Sending, Numbering, Replying, AfterSigning
    <3>2. CASE LetterStep(r)
      BY <1>2, <3>1, <3>2, LetterMoves
    <3>3. CASE NumberStep(r)
      BY <1>2, <3>1, <3>3, NumberMoves
    <3>4. CASE IdStep(r)
      BY <1>2, <3>1, <3>4, IdMoves
    <3>5. CASE ReplyStep(r)
      BY <1>2, <3>1, <3>5, ReplyMoves
    <3> QED
      BY <2>1, <3>2, <3>3, <3>4, <3>5
  <2>2. CASE PaperStep(r)
    <3>1. UNCHANGED conduct /\ \A q \in Tasks : q # r => task'[q] = task[q]
      BY <2>2, PaperMoves DEF Moves
    <3>2. FormHolds
      BY DEF FormInv
    <3> QED
      BY <1>1, <2>2, <3>1, <3>2, PaperFacts, FormQuiet
  <2>3. CASE SendCoc(r) \/ CommitSendCoc(r)
    <3>1. /\ task'[r].step \in {"none", "mailForm"} /\ \A q \in Tasks : q # r => task'[q] = task[q]
          /\ conduct'.signed = conduct.signed /\ conduct'.filed = conduct.filed
          /\ conduct'.onFile = conduct.onFile /\ UNCHANGED papers
      <4>1. CASE SendCoc(r)
        <5> DEFINE v == [NoTask EXCEPT !.step = "mailForm"]
        <5>1. v.step = "mailForm"
          BY NoTaskType DEF Task
        <5>2. task' = [task EXCEPT ![r] = v]
          BY <4>1 DEF SendCoc, Begin
        <5> HIDE DEF v
        <5> QED
          BY <4>1, <5>1, <5>2 DEF SendCoc, JoiningTypeOK
      <4>2. CASE CommitSendCoc(r)
        BY <4>2, DoneType, NoTaskType DEF CommitSendCoc, JoiningTypeOK, Conduct
      <4> QED
        BY <2>3, <4>1, <4>2
    <3>2. FormHolds'
      BY <3>1 DEF FormInv, FormHolds, AfterSigning, Present
    <3>3. inLine' => OneForm'
      BY <1>1, <3>1, OneFormKept DEF FormInv, AfterSigning
    <3> QED
      BY <3>2, <3>3 DEF FormInv
  <2>4. CASE PublicAcknowledgeCoc(r)
    BY <2>4, AcknowledgeKeepsForm
  <2>5. CASE SignCoc(r) \/ FileCoc(r) \/ AttachCoc(r) \/ AddCocRow(r)
    BY <2>5, SettlingKeepsForm
  <2> QED
    BY <1>3, <2>1, <2>2, <2>3, <2>4, <2>5, StepKinds DEF FormStep
<1>4. CASE RequestMedicalTest \/ Notify \/ Expire \/ UNCHANGED jvars
  <2>1. UNCHANGED <<conduct, papers, task>>
    BY <1>4 DEF RequestMedicalTest, Notify, Expire, jvars
  <2>2. Present' = Present
    BY <2>1 DEF Present
  <2> QED
    BY <1>1, <2>1, <2>2, FormQuiet
<1>5. CASE UploadMedicalReport \/ ManualCrossCheck
  <2>1. UNCHANGED <<conduct, task>>
    BY <1>5 DEF UploadMedicalReport, ManualCrossCheck
  <2>2. papers.doc \in [Rows -> DocStates] /\ papers \in Papers /\ Form # Report
    BY DEF JoiningTypeOK, Papers, Form, Report
  <2>3. Present \subseteq Present' /\ (Form \in Present' => Form \in Present)
    BY <1>5, <2>2 DEF UploadMedicalReport, ManualCrossCheck, Verdict, Present, Papers
  <2> QED
    BY <1>1, <2>1, <2>3, FormQuiet
<1>6. CASE Restart
  <2>1. UNCHANGED <<conduct, papers>> /\ \A q \in Tasks : task'[q].step = "none"
    BY <1>6, RestartMoves DEF Restart
  <2>2. Present' = Present
    BY <2>1 DEF Present
  <2> QED
    BY <1>1, <2>1, <2>2, FormQuiet DEF AfterSigning
<1> QED
  BY <1>3, <1>4, <1>5, <1>6 DEF JoiningNext

-----------------------------------------------------------------------------
(* The cross-check: once all papers are read the verdict covers them, or a check that
   will cover them is under way; and a check nobody overtook covers them too. *)
Judging == {"auto", "verdict"}

AllRead == Present # {} /\ \A d \in Present : papers.doc[d] = "extracted"

CheckComes ==
  \E r \in Tasks : task[r].step = "look" \/ (task[r].step = "auto" /\ task[r].covers = Present)

Covered ==
  /\ papers.by = "hr" \/ papers.covers = Present \/ CheckComes
  /\ \A r \in Tasks : task[r].step \in Judging /\ task[r].was = papers.verdicts =>
       task[r].covers = Present \/ CheckComes

ChecksHold ==
  /\ \A r \in Tasks : task[r].step \in Judging => task[r].was <= papers.verdicts
  /\ inLine /\ AllRead => Covered

LEMMA ChecksQuiet ==
  ASSUME ChecksHold, UNCHANGED papers, inLine' => inLine,
         \A r \in Tasks : \/ task'[r] = task[r]
                          \/ /\ task[r].step \notin Judging \cup {"look"}
                             /\ task'[r].step \notin Judging \cup {"look"}
  PROVE  ChecksHold'
<1>1. Present' = Present /\ AllRead' = AllRead
  BY DEF Present, AllRead
<1>2. \A r \in Tasks : {task[r].step, task'[r].step} \cap (Judging \cup {"look"}) # {} => task'[r] = task[r]
  OBVIOUS
<1>3. CheckComes' = CheckComes
  BY <1>1, <1>2 DEF CheckComes, Judging
<1>4. \A r \in Tasks : task'[r].step \in Judging => task'[r] = task[r]
  BY <1>2
<1> QED
  BY <1>1, <1>3, <1>4 DEF ChecksHold, Covered

(* A paper that is not extracted leaves the verdict for later. *)
LEMMA ChecksWait ==
  ASSUME ChecksHold, papers'.verdicts = papers.verdicts, ~AllRead',
         \A r \in Tasks : task'[r] = task[r] \/ task'[r].step \notin Judging
  PROVE  ChecksHold'
  BY DEF ChecksHold

LEMMA ChecksPaperStep ==
  ASSUME JoiningTypeOK, ChecksHold, NEW r \in Tasks, PaperStep(r)
  PROVE  ChecksHold'
<1>1. /\ task[r] \in Task /\ papers.doc \in [Rows -> DocStates] /\ papers \in Papers
      /\ papers.verdicts \in Nat /\ Extracted \subseteq Rows
  BY DEF JoiningTypeOK, Papers, Extracted
<1>2. \A q \in Tasks : q # r => task'[q] = task[q]
  BY PaperMoves DEF Moves
<1>3. inLine' => inLine
  BY LineKept DEF JoiningNext, Step, PaperStep
<1>4. ASSUME NEW d \in Rows, NEW s \in {"uploaded", "byHand"}, papers' = [papers EXCEPT !.doc[d] = s]
      PROVE  papers'.verdicts = papers.verdicts /\ ~AllRead'
  <2>1. papers'.doc = [papers.doc EXCEPT ![d] = s] /\ papers'.verdicts = papers.verdicts
    BY <1>1, <1>4 DEF Papers
  <2>2. papers'.doc[d] = s
    BY <1>1, <2>1
  <2> QED
    BY <2>1, <2>2 DEF AllRead, Present
<1>5. ASSUME NEW step \in {"extract", "summarize"}, NEW d \in Rows,
             Begin(r, "check", [NoTask EXCEPT !.step = step, !.doc = d])
      PROVE  task[r].step = "none" /\ task'[r].step = step
  <2> DEFINE v == [NoTask EXCEPT !.step = step, !.doc = d]
  <2>1. v.step = step
    BY NoTaskType DEF Task
  <2>2. task' = [task EXCEPT ![r] = v] /\ task[r].step = "none"
    BY <1>5 DEF Begin, Doing
  <2> HIDE DEF v
  <2> QED
    BY <2>1, <2>2 DEF JoiningTypeOK
<1>6. ASSUME Done(r)
      PROVE  task'[r].step = "none"
  BY <1>6, DoneType, NoTaskType DEF JoiningTypeOK
<1>7. \A step \in Judging : LET v == CheckOf(r, step) IN
        v.step = step /\ v.covers = Extracted /\ v.was = papers.verdicts
  <2> HIDE DEF Extracted
  <2> QED
    BY <1>1 DEF CheckOf, Task
<1>8. AllRead => Extracted = Present /\ Ready
  BY DEF AllRead, Present, Extracted, Ready
<1>9. CASE PublicUpload(r)
  <2>1. PICK d \in Docs : /\ papers' = [papers EXCEPT !.doc[d] = "uploaded"]
                          /\ Begin(r, "check", [NoTask EXCEPT !.step = "extract", !.doc = d])
    BY <1>9 DEF PublicUpload
  <2>2. d \in Rows
    BY DEF Rows
  <2> QED
    BY <1>2, <1>4, <1>5, <2>1, <2>2, ChecksWait DEF Judging
<1>10. CASE AutoSummarizeDoc(r)
  <2>1. task[r].step = "extract"
    BY <1>10 DEF AutoSummarizeDoc, Doing
  <2>2. CASE papers' = [papers EXCEPT !.doc[task[r].doc] = "extracted"] /\ GoOn(r, "look")
    <3>1. task'[r].step = "look"
      <4>1. "look" \in Steps
        BY DEF Steps
      <4> QED
        BY <2>2, <4>1, GoneOnTo
    <3>2. CheckComes' /\ papers'.verdicts = papers.verdicts
      BY <1>1, <2>2, <3>1 DEF CheckComes, Papers
    <3> QED
      BY <1>2, <1>3, <3>1, <3>2 DEF ChecksHold, Covered, Judging
  <2>3. CASE Done(r) /\ UNCHANGED papers
    BY <1>2, <1>3, <1>6, <2>1, <2>3, ChecksQuiet DEF Judging
  <2> QED
    BY <1>10, <2>2, <2>3 DEF AutoSummarizeDoc
<1>11. CASE SummarizeDoc(r)
  <2>1. PICK d \in Present : Begin(r, "check", [NoTask EXCEPT !.step = "summarize", !.doc = d])
    BY <1>11 DEF SummarizeDoc
  <2>2. d \in Rows /\ UNCHANGED papers
    BY <1>11 DEF SummarizeDoc, Present
  <2> QED
    BY <1>2, <1>3, <1>5, <2>1, <2>2, ChecksQuiet DEF Judging
<1>12. CASE CommitSummarizeDoc(r)
  <2>1. task[r].doc \in Rows /\ papers' = [papers EXCEPT !.doc[task[r].doc] = "byHand"] /\ Done(r)
    BY <1>1, <1>12 DEF CommitSummarizeDoc, Task
  <2> QED
    BY <1>2, <1>4, <1>6, <2>1, ChecksWait DEF Judging
<1>13. CASE AutoCrossCheck(r)
  <2>1. papers' = papers /\ task' = [task EXCEPT ![r] = IF Ready THEN CheckOf(r, "auto") ELSE NoTask]
    BY <1>13 DEF AutoCrossCheck
  <2>2. Present' = Present /\ AllRead' = AllRead
    BY <2>1 DEF Present, AllRead
  <2>3. CASE Ready
    <3>1. task'[r] = CheckOf(r, "auto")
      BY <2>1, <2>3 DEF JoiningTypeOK
    <3>2. task'[r].step = "auto" /\ task'[r].covers = Extracted /\ task'[r].was = papers.verdicts
      BY <1>7, <3>1 DEF Judging
    <3>3. AllRead => CheckComes'
      BY <1>8, <2>2, <3>2 DEF CheckComes
    <3> QED
      BY <1>1, <1>2, <1>3, <2>1, <2>2, <3>2, <3>3 DEF ChecksHold, Covered
  <2>4. CASE ~Ready
    <3>1. ~AllRead' /\ task'[r].step = "none"
      BY <1>8, <2>1, <2>2, <2>4, NoTaskType DEF JoiningTypeOK
    <3> QED
      BY <1>2, <2>1, <3>1, ChecksWait DEF Judging
  <2> QED
    BY <2>3, <2>4
<1>14. CASE CrossVerify(r)
  <2>1. papers' = papers /\ task[r].step = "none" /\ task'[r] = CheckOf(r, "verdict") /\ inLine' = inLine
    BY <1>14 DEF CrossVerify, Begin, Doing, JoiningTypeOK
  <2>2. task'[r].step = "verdict" /\ task'[r].covers = Extracted /\ task'[r].was = papers.verdicts
    BY <1>7, <2>1 DEF Judging
  <2>3. Present' = Present /\ AllRead' = AllRead
    BY <2>1 DEF Present, AllRead
  <2>4. CheckComes' = CheckComes
    BY <1>2, <2>1, <2>2, <2>3 DEF CheckComes
  <2> QED
    BY <1>1, <1>2, <1>8, <2>1, <2>2, <2>3, <2>4 DEF ChecksHold, Covered
<1>15. CASE CommitVerdict(r)
  <2>1. /\ task[r].step \in Judging /\ papers' = Verdict("ai", task[r].covers) /\ Done(r)
        /\ inLine' = (inLine /\ papers.verdicts = task[r].was)
    BY <1>15 DEF CommitVerdict, Doing, Judging, Keeps
  <2>2. /\ papers'.doc = papers.doc /\ papers'.covers = task[r].covers
        /\ papers'.verdicts = papers.verdicts + 1
    BY <1>1, <2>1 DEF Verdict, Papers
  <2>3. Present' = Present /\ AllRead' = AllRead
    BY <2>2 DEF Present, AllRead
  <2>4. task'[r].step = "none"
    BY <1>6, <2>1
  <2>5. \A q \in Tasks : task'[q].step \in Judging => task[q] = task'[q] /\ task[q].was \in Nat
    BY <1>2, <2>4 DEF Judging, JoiningTypeOK, Task
  <2>6. \A q \in Tasks : task'[q].step \in Judging => task'[q].was < papers'.verdicts
    BY <1>1, <2>2, <2>5 DEF ChecksHold
  <2>7. ASSUME inLine', AllRead'
        PROVE  papers'.covers = Present' \/ CheckComes'
    <3>1. task[r].covers = Present \/ CheckComes
      BY <2>1, <2>3, <2>7 DEF ChecksHold, Covered
    <3>2. CASE task[r].covers = Present
      BY <2>2, <2>3, <3>2
    <3>3. CASE task[r].covers # Present
      <4>1. PICK q \in Tasks : task[q].step = "look" \/ (task[q].step = "auto" /\ task[q].covers = Present)
        BY <3>1, <3>3 DEF CheckComes
      <4>2. q # r
        BY <2>1, <3>3, <4>1 DEF Judging
      <4> QED
        BY <1>2, <2>3, <4>1, <4>2 DEF CheckComes
    <3> QED
      BY <3>2, <3>3
  <2>8. \A q \in Tasks : task'[q].step \in Judging => task'[q].was # papers'.verdicts /\ task'[q].was <= papers'.verdicts
    BY <1>1, <2>2, <2>5, <2>6
  <2> QED
    BY <2>7, <2>8 DEF ChecksHold, Covered
<1>16. CASE CheckFails(r)
  <2>1. task[r].step \in Judging /\ task'[r].step = "none" /\ papers' = papers /\ (inLine' => inLine /\ task[r].step = "verdict")
    BY <1>6, <1>16 DEF CheckFails, Doing, Judging, Keeps
  <2>2. Present' = Present /\ AllRead' = AllRead
    BY <2>1 DEF Present, AllRead
  <2>3. inLine' /\ CheckComes => CheckComes'
    BY <1>2, <2>1, <2>2 DEF CheckComes
  <2>4. \A q \in Tasks : task'[q].step \in Judging => task'[q] = task[q]
    BY <1>2, <2>1 DEF Judging
  <2> QED
    BY <2>1, <2>2, <2>3, <2>4 DEF ChecksHold, Covered
<1> QED
  BY <1>9, <1>10, <1>11, <1>12, <1>13, <1>14, <1>15, <1>16 DEF PaperStep

LEMMA ChecksStep == JoiningTypeOK /\ ChecksHold /\ [JoiningNext]_jvars => ChecksHold'
<1> SUFFICES ASSUME JoiningTypeOK, ChecksHold, JoiningNext \/ UNCHANGED jvars
             PROVE  ChecksHold'
  OBVIOUS
<1>1. inLine' => inLine
  BY LineKept DEF jvars
<1>2. papers.doc \in [Rows -> DocStates] /\ papers \in Papers /\ papers.verdicts \in Nat
  BY DEF JoiningTypeOK, Papers
<1>3. ASSUME NEW r \in Tasks, NEW steps, Moves(r, steps), UNCHANGED papers,
             steps \cap (Judging \cup {"look"}) = {}
      PROVE  ChecksHold'
  <2>1. \A q \in Tasks : \/ task'[q] = task[q]
                         \/ /\ task[q].step \notin Judging \cup {"look"}
                            /\ task'[q].step \notin Judging \cup {"look"}
    BY <1>3 DEF Moves, Judging
  <2> QED
    BY <1>1, <1>3, <2>1, ChecksQuiet
<1>4. ASSUME NEW r \in Tasks, Step(r)
      PROVE  ChecksHold'
  <2>1. /\ Sending \cap (Judging \cup {"look"}) = {} /\ Numbering \cap (Judging \cup {"look"}) = {}
        /\ {"id"} \cap (Judging \cup {"look"}) = {} /\ Replying \cap (Judging \cup {"look"}) = {}
        /\ Forming \cap (Judging \cup {"look"}) = {}
    BY DEF Sending, Numbering, Replying, Forming, Judging
  <2>2. CASE LetterStep(r)
    BY <1>3, <2>1, <2>2, LetterMoves
  <2>3. CASE NumberStep(r)
    BY <1>3, <2>1, <2>3, NumberMoves
  <2>4. CASE IdStep(r)
    BY <1>3, <2>1, <2>4, IdMoves
  <2>5. CASE ReplyStep(r)
    BY <1>3, <2>1, <2>5, ReplyMoves
  <2>6. CASE PaperStep(r)
    BY <2>6, ChecksPaperStep
  <2>7. CASE AddCocRow(r)
    <3>1. CASE papers.doc[Form] = "none"
      <4>1. papers'.doc = [papers.doc EXCEPT ![Form] = "uploaded"] /\ papers'.verdicts = papers.verdicts
        BY <1>2, <2>7, <3>1 DEF AddCocRow, Papers
      <4>2. Form \in Rows
        BY DEF Rows, Ours
      <4>3. ~AllRead'
        BY <1>2, <4>1, <4>2 DEF AllRead, Present
      <4>4. task'[r].step = "none" /\ \A q \in Tasks : q # r => task'[q] = task[q]
        BY <2>7, DoneType, NoTaskType DEF AddCocRow, JoiningTypeOK
      <4> QED
        BY <4>1, <4>3, <4>4, ChecksWait DEF Judging
    <3>2. CASE papers.doc[Form] # "none"
      <4>1. papers' = papers
        BY <1>2, <2>7, <3>2 DEF AddCocRow, Papers
      <4> QED
        BY <1>3, <2>1, <2>7, <4>1, FormMoves DEF FormStep
    <3> QED
      BY <3>1, <3>2
  <2>8. CASE FormStep(r) /\ ~AddCocRow(r)
    <3>1. UNCHANGED papers
      BY <2>8 DEF FormStep, SendCoc, CommitSendCoc, PublicAcknowledgeCoc, SignCoc, FileCoc, AttachCoc
    <3> QED
      BY <1>3, <2>1, <2>8, <3>1, FormMoves
  <2> QED
    BY <1>4, <2>2, <2>3, <2>4, <2>5, <2>6, <2>7, <2>8, StepKinds
<1>5. CASE RequestMedicalTest \/ Notify \/ Expire \/ UNCHANGED jvars
  <2>1. UNCHANGED <<papers, task>>
    BY <1>5 DEF RequestMedicalTest, Notify, Expire, jvars
  <2> QED
    BY <1>1, <2>1, ChecksQuiet
<1>6. CASE UploadMedicalReport
  <2>1. papers'.doc = [papers.doc EXCEPT ![Report] = "uploaded"] /\ papers'.verdicts = papers.verdicts /\ task' = task
    BY <1>2, <1>6 DEF UploadMedicalReport, Papers
  <2>2. Report \in Rows
    BY DEF Rows, Ours
  <2>3. ~AllRead'
    BY <1>2, <2>1, <2>2 DEF AllRead, Present
  <2> QED
    BY <2>1, <2>3, ChecksWait
<1>7. CASE ManualCrossCheck
  <2>1. /\ task' = task /\ papers'.by = "hr" /\ papers'.verdicts = papers.verdicts + 1
    BY <1>2, <1>7 DEF ManualCrossCheck, Verdict, Papers
  <2>2. \A r \in Tasks : task[r].was \in Nat
    BY DEF JoiningTypeOK, Task
  <2>3. \A r \in Tasks : task'[r].step \in Judging => task'[r].was <= papers'.verdicts /\ task'[r].was # papers'.verdicts
    BY <1>2, <2>1, <2>2 DEF ChecksHold
  <2> QED
    BY <2>1, <2>3 DEF ChecksHold, Covered
<1>8. CASE Restart
  <2>1. /\ papers' = papers /\ \A r \in Tasks : task'[r].step = "none"
        /\ inLine' => inLine /\ \A r \in Tasks : task[r].step \notin {"look", "auto"}
    BY <1>8, RestartMoves DEF Restart, Keeps
  <2>2. Present' = Present /\ AllRead' = AllRead
    BY <2>1 DEF Present, AllRead
  <2>3. inLine' => ~CheckComes
    BY <2>1 DEF CheckComes
  <2> QED
    BY <2>1, <2>2, <2>3 DEF ChecksHold, Covered, Judging
<1> QED
  BY <1>4, <1>5, <1>6, <1>7, <1>8 DEF JoiningNext

-----------------------------------------------------------------------------
(* Together *)

PapersInv == JoiningTypeOK /\ LetterInv /\ (inLine => OneNumber /\ OneId) /\ FormInv /\ ChecksHold

LEMMA PapersInit == JoiningInit => PapersInv
<1> SUFFICES ASSUME JoiningInit
             PROVE  PapersInv
  OBVIOUS
<1>1. \A r \in Tasks : task[r].step = "none" /\ task[r].told = {}
  BY NoTaskType DEF JoiningInit
<1>2. Present = {}
  BY DEF JoiningInit, NoPapers, Present
<1>3. LetterInv
  BY <1>1 DEF JoiningInit, LetterInv, LettersHold, OneLetter, SystemRefs, Writing, Sending
<1>4. OneNumber /\ OneId
  BY <1>1 DEF JoiningInit, OneNumber, OneId, Fresh, Numbering
<1>5. FormInv
  BY <1>1, <1>2 DEF JoiningInit, FormInv, FormHolds, OneForm, AfterSigning
<1>6. ChecksHold
  BY <1>1, <1>2 DEF ChecksHold, AllRead, Judging
<1> QED
  BY <1>3, <1>4, <1>5, <1>6, JoiningInitType DEF PapersInv

LEMMA PapersInvStep == PapersInv /\ [JoiningNext]_jvars => PapersInv'
<1> SUFFICES ASSUME PapersInv, [JoiningNext]_jvars
             PROVE  PapersInv'
  OBVIOUS
<1>1. JoiningTypeOK' /\ LetterInv' /\ FormInv' /\ ChecksHold'
  BY JoiningTypeStep, LetterInvStep, FormInvStep, ChecksStep DEF PapersInv
<1>2. inLine' => OneNumber' /\ OneId'
  BY NumbersStep DEF PapersInv
<1> QED
  BY <1>1, <1>2 DEF PapersInv

LEMMA PapersFollow == PapersInv => PapersInOrder
<1> SUFFICES ASSUME PapersInv
             PROVE  PapersInOrder
  OBVIOUS
<1>1. LetterStands
  <2> SUFFICES ASSUME inLine
               PROVE  /\ Cardinality(posted.refs \ {Typed}) <= 1
                      /\ posted.told \subseteq letter.told \cup UNION {task[r].told : r \in Tasks}
    BY DEF LetterStands
  <2>1. OneLetter
    BY DEF PapersInv, LetterInv
  <2>2. Cardinality(SystemRefs) <= 1
    <3>1. CASE SystemRefs = {}
      BY <3>1, FS_EmptySet
    <3>2. CASE SystemRefs # {}
      <4>1. PICK n \in SystemRefs : TRUE
        BY <3>2
      <4>2. \A m \in SystemRefs : m = n
        BY <2>1 DEF OneLetter
      <4>3. SystemRefs = {n}
        BY <4>1, <4>2
      <4>4. Cardinality({n}) = 1
        BY FS_Singleton
      <4> QED
        BY <4>3, <4>4
    <3> QED
      BY <3>1, <3>2
  <2> QED
    BY <2>1, <2>2 DEF OneLetter, SystemRefs
<1>2. NumbersApart
  BY DEF PapersInv, NumbersApart, OneNumber, OneId
<1>3. FormFiledOnce
  BY DEF PapersInv, FormFiledOnce, FormInv, FormHolds, OneForm
<1>4. AllCrossChecked
  <2> SUFFICES ASSUME inLine, ~Some(Checking), AllRead
               PROVE  papers.by = "hr" \/ papers.covers = Present
    BY DEF AllCrossChecked, AllRead
  <2>1. ~CheckComes
    BY DEF Some, Checking, CheckComes
  <2> QED
    BY <2>1 DEF PapersInv, ChecksHold, Covered
<1> QED
  BY <1>1, <1>2, <1>3, <1>4 DEF PapersInOrder

(* The joining papers are in order however many requests, candidates and documents there
   are: at most one number is mailed and who was told stays told, numbers and IDs are one
   person's, the form is filed once and can be opened, and the verdict covers every paper
   (sendMedicalLetter, setEmployeeId, publicAcknowledgeCoc, autoSummarizeDoc). *)
THEOREM PapersTheorem == JoiningSpec => []PapersInOrder
  BY PapersInit, PapersInvStep, PapersFollow, PTL DEF JoiningSpec

-----------------------------------------------------------------------------
(* ItLetter: the request IT has, the row and the answer *)

(* One mail to IT. *)
ItMail == [asked : AskedOf, cc : SUBSET Colleagues, link : Nat]

(* Of the right types, and the mails in order. *)
LetterTyped == ItLetterTypeOK /\ outbox \in Seq(ItMail)

(* The row is the last mail that left. *)
IsLastMail(row) ==
  IF outbox = << >> THEN row.sends = 0
  ELSE /\ row.sends > 0
       /\ row.asked = LastMail.asked /\ row.cc = LastMail.cc /\ row.link = LastMail.link

(* Until its mail has left, a send holds the row as it was then. *)
SendingLetter(s) ==
  /\ dialog[s].at = "save" => dialog[s].was = letterRow
  /\ dialog[s].at # "save" => /\ letterRow.asked = dialog[s].asked /\ letterRow.cc = dialog[s].cc
                              /\ letterRow.link = dialog[s].link /\ letterRow.sends > 0
  /\ IsLastMail(dialog[s].was)

RowHolds ==
  alone =>
    /\ \A s, t \in UnderWay : s = t
    /\ UnderWay = {} => IsLastMail(letterRow)
    /\ \A s \in UnderWay : SendingLetter(s)

(* No send is under way beside an answer. *)
AnswerHolds ==
  alone /\ letterRow.answered =>
    /\ UnderWay = {} /\ outbox # << >>
    /\ letterRow.said \subseteq {LastMail.asked[l] : l \in Leavers}

(* Somebody who moves is nowhere, from the dialog to the mail and back, but by hand. *)
ByHand(whose) == \A l \in Transferred : whose[l] # NoMailbox => l \in chosen

MoversHold ==
  /\ \A i \in DOMAIN outbox : ByHand(outbox[i].asked)
  /\ ByHand(letterRow.asked)
  /\ \A s \in Senders :
       /\ dialog[s].at = "open" => dialog[s].ticked \cap Transferred \subseteq chosen
       /\ s \in UnderWay => ByHand(dialog[s].asked) /\ ByHand(dialog[s].was.asked)

ItLetterInv == LetterTyped /\ RowHolds /\ AnswerHolds /\ MoversHold

-----------------------------------------------------------------------------

LEMMA NoLetterType == NoLetter \in LetterRow /\ NobodyAsked \in AskedOf
BY DEF NoLetter, LetterRow, NobodyAsked, AskedOf, Boxes, NoMailbox

LEMMA ShutType == Shut \in Dialog /\ Shut.at = "none"
BY NoLetterType DEF Shut, Dialog

LEMMA NextLinkType == ItLetterTypeOK /\ outbox \in Seq(ItMail) => NextLink \in Nat
<1> SUFFICES ASSUME ItLetterTypeOK, outbox \in Seq(ItMail) PROVE NextLink \in Nat
  OBVIOUS
<1>1. UnderWay \subseteq Senders
  BY DEF UnderWay
<1>2. Cardinality(UnderWay) \in Nat
  BY <1>1, SendersAssumption, FS_Subset, FS_CardinalityType
<1>3. letterRow.link \in Nat
  BY DEF ItLetterTypeOK, LetterRow
<1>4. Len(outbox) \in Nat
  BY LenProperties
<1> QED
  BY <1>2, <1>3, <1>4 DEF NextLink

LEMMA TurnType ==
  ASSUME turns \in [TurnKinds -> Nat], NEW k \in TurnKinds, Turn(k)
  PROVE  turns' \in [TurnKinds -> Nat]
BY DEF Turn

LEMMA PutDialog ==
  ASSUME dialog \in [Senders -> Dialog], NEW s \in Senders, NEW d \in Dialog,
         dialog' = [dialog EXCEPT ![s] = d]
  PROVE  dialog' \in [Senders -> Dialog]
OBVIOUS

LEMMA LetterTypeStep == LetterTyped /\ [ItLetterNext]_ivars => LetterTyped'
<1> SUFFICES ASSUME LetterTyped, [ItLetterNext]_ivars PROVE LetterTyped'
  OBVIOUS
<1> USE DEF LetterTyped
<1>t. /\ known \in [Persons -> Boxes] /\ letterRow \in LetterRow /\ dialog \in [Senders -> Dialog]
      /\ reader \in [open : BOOLEAN, asked : AskedOf, said : SUBSET Mailboxes]
      /\ turns \in [TurnKinds -> Nat] /\ outbox \in Seq(ItMail)
      /\ chosen \subseteq Leavers /\ alone \in BOOLEAN
  BY DEF ItLetterTypeOK
<1>g. ASSUME /\ known' \in [Persons -> Boxes] /\ letterRow' \in LetterRow
             /\ dialog' \in [Senders -> Dialog]
             /\ reader' \in [open : BOOLEAN, asked : AskedOf, said : SUBSET Mailboxes]
             /\ turns' \in [TurnKinds -> Nat] /\ outbox' \in Seq(ItMail)
             /\ chosen' \subseteq Leavers /\ alone' \in BOOLEAN
      PROVE  LetterTyped'
  <2>1. \A i \in DOMAIN outbox' : outbox'[i] \in ItMail
    BY <1>g, ElementOfSeq, LenProperties
  <2> QED
    BY <1>g, <2>1 DEF ItLetterTypeOK, ItMail
<1>k. TurnKinds = {"draft", "change", "answer"}
  BY DEF TurnKinds
<1>1. CASE LearnAddress
  <2>1. PICK p \in Persons, box \in Boxes : known' = [known EXCEPT ![p] = box]
    BY <1>1 DEF LearnAddress
  <2>2. turns' \in [TurnKinds -> Nat]
    BY <1>1, <1>t, <1>k, TurnType DEF LearnAddress
  <2> QED
    BY <1>1, <2>1, <2>2, <1>t, <1>g DEF LearnAddress
<1>2. CASE ReadByToken
  <2>1. PICK said \in SUBSET Mailboxes :
          reader' = [open |-> TRUE, asked |-> letterRow.asked, said |-> said]
    BY <1>2 DEF ReadByToken
  <2>2. turns' \in [TurnKinds -> Nat]
    BY <1>2, <1>t, <1>k, TurnType DEF ReadByToken
  <2>3. letterRow.asked \in AskedOf
    BY <1>t DEF LetterRow
  <2> QED
    BY <1>2, <2>1, <2>2, <2>3, <1>t, <1>g DEF ReadByToken
<1>3. CASE ClaimAnswer
  <2>1. letterRow' \in LetterRow
    <3>1. {reader.asked[l] : l \in Leavers} \cap reader.said \in SUBSET Mailboxes
      BY <1>t
    <3> QED
      BY <1>3, <1>t, <3>1 DEF ClaimAnswer, LetterRow
  <2>2. reader' \in [open : BOOLEAN, asked : AskedOf, said : SUBSET Mailboxes]
    BY <1>3, <1>t DEF ClaimAnswer
  <2> QED
    BY <1>3, <2>1, <2>2, <1>t, <1>g DEF ClaimAnswer
<1>4. ASSUME NEW s \in Senders, Draft(s) PROVE LetterTyped'
  <2> DEFINE whose == [l \in Leavers |-> IF known[l] # NoMailbox THEN known[l]
                                         ELSE letterRow.asked[l]]
             ticked == IF letterRow.sends > 0 THEN AskedBefore ELSE TickedAtFirst
  <2>1. whose \in AskedOf
    BY <1>t DEF AskedOf, LetterRow, Persons
  <2>2. ticked \subseteq Leavers
    BY DEF AskedBefore, TickedAtFirst
  <2>3. letterRow.cc \in SUBSET Colleagues
    BY <1>t DEF LetterRow
  <2>4. [Shut EXCEPT !.at = "open", !.asked = whose, !.ticked = ticked, !.cc = letterRow.cc]
          \in Dialog
    BY <2>1, <2>2, <2>3, ShutType DEF Dialog
  <2>5. dialog' = [dialog EXCEPT ![s] = [Shut EXCEPT !.at = "open", !.asked = whose,
                                           !.ticked = ticked, !.cc = letterRow.cc]]
    BY <1>4 DEF Draft
  <2>6. dialog' \in [Senders -> Dialog]
    BY <2>4, <2>5, <1>t, PutDialog
  <2>7. turns' \in [TurnKinds -> Nat]
    BY <1>4, <1>t, <1>k, TurnType DEF Draft
  <2> QED
    BY <1>4, <2>6, <2>7, <1>t, <1>g DEF Draft
<1>5. ASSUME NEW s \in Senders, Tick(s) PROVE LetterTyped'
  <2>1. PICK l \in Leavers, box \in Mailboxes :
          \/ /\ dialog' = [dialog EXCEPT ![s].ticked = @ \ {l}]
             /\ UNCHANGED chosen
          \/ /\ dialog' = [dialog EXCEPT ![s].ticked = @ \cup {l},
                                         ![s].asked[l] = IF @ = NoMailbox THEN box ELSE @]
             /\ chosen' = chosen \cup {l}
    BY <1>5 DEF Tick
  <2>2. dialog' \in [Senders -> Dialog]
    <3> DEFINE whose == [dialog[s].asked EXCEPT ![l] = IF @ = NoMailbox THEN box ELSE @]
    <3>1. dialog[s] \in Dialog /\ dialog[s].asked \in AskedOf /\ dialog[s].ticked \subseteq Leavers
      BY <1>t DEF Dialog
    <3>2. whose \in AskedOf
      BY <3>1 DEF AskedOf, Boxes
    <3>4. CASE dialog' = [dialog EXCEPT ![s].ticked = @ \ {l}]
      BY <3>4, <3>1, <1>t DEF Dialog
    <3>5. CASE dialog' = [dialog EXCEPT ![s].ticked = @ \cup {l},
                                        ![s].asked[l] = IF @ = NoMailbox THEN box ELSE @]
      <4>1. dialog' = [dialog EXCEPT ![s] = [dialog[s] EXCEPT !.ticked = @ \cup {l},
                                                              !.asked = whose]]
        BY <3>5, <3>1, <1>t DEF Dialog, AskedOf
      <4>2. [dialog[s] EXCEPT !.ticked = @ \cup {l}, !.asked = whose] \in Dialog
        <5> HIDE DEF whose
        <5> QED BY <3>1, <3>2 DEF Dialog
      <4> HIDE DEF whose
      <4> QED
        BY <4>1, <4>2, <1>t, PutDialog
    <3> QED
      BY <2>1, <3>4, <3>5
  <2>3. turns' \in [TurnKinds -> Nat]
    BY <1>5, <1>t, <1>k, TurnType DEF Tick
  <2>4. chosen' \subseteq Leavers
    BY <2>1, <1>t
  <2> QED
    BY <1>5, <2>2, <2>3, <2>4, <1>t, <1>g DEF Tick
<1>6. ASSUME NEW s \in Senders, Copy(s) PROVE LetterTyped'
  <2>1. dialog' \in [Senders -> Dialog]
    <3>1. PICK c \in Colleagues :
            dialog' = [dialog EXCEPT ![s] = [dialog[s] EXCEPT !.cc = IF c \in @ THEN @ \ {c}
                                                                    ELSE @ \cup {c}]]
      BY <1>6 DEF Copy
    <3>2. [dialog[s] EXCEPT !.cc = IF c \in @ THEN @ \ {c} ELSE @ \cup {c}] \in Dialog
      BY <1>t DEF Dialog
    <3> QED
      BY <3>1, <3>2, <1>t, PutDialog
  <2>4. turns' \in [TurnKinds -> Nat]
    BY <1>6, <1>t, <1>k, TurnType DEF Copy
  <2> QED
    BY <1>6, <2>1, <2>4, <1>t, <1>g DEF Copy
<1>7. ASSUME NEW s \in Senders, SendIt(s) PROVE LetterTyped'
  <2> DEFINE whose == [l \in Leavers |-> IF l \in dialog[s].ticked THEN dialog[s].asked[l]
                                         ELSE NoMailbox]
  <2>1. PICK cc \in OnCc(dialog[s].cc) :
          dialog' = [dialog EXCEPT ![s] =
            [@ EXCEPT !.at = "save", !.cc = cc, !.was = letterRow, !.link = NextLink,
                      !.asked = whose]]
    BY <1>7 DEF SendIt
  <2>2. dialog[s] \in Dialog
    BY <1>t
  <2>3. whose \in AskedOf
    BY <2>2 DEF AskedOf, Dialog, Boxes
  <2>4. cc \subseteq Colleagues
    BY <2>1, <2>2 DEF OnCc, Dialog
  <2>5. NextLink \in Nat
    BY NextLinkType
  <2>6. [dialog[s] EXCEPT !.at = "save", !.cc = cc, !.was = letterRow, !.link = NextLink,
                          !.asked = whose] \in Dialog
    <3> HIDE DEF whose
    <3> QED BY <2>2, <2>3, <2>4, <2>5, <1>t DEF Dialog
  <2>7. dialog' \in [Senders -> Dialog]
    <3> HIDE DEF whose
    <3> QED BY <2>1, <2>6, <1>t, PutDialog
  <2>8. alone' \in BOOLEAN
    BY <1>7 DEF SendIt
  <2> QED
    BY <1>7, <2>7, <2>8, <1>t, <1>g DEF SendIt
<1>8. ASSUME NEW s \in Senders, SaveLetter(s) PROVE LetterTyped'
  <2>1. letterRow' \in LetterRow
    <3>1. /\ dialog[s].asked \in AskedOf /\ dialog[s].cc \in SUBSET Colleagues
          /\ dialog[s].link \in Nat /\ letterRow.sends + 1 \in Nat
      BY <1>t DEF Dialog, LetterRow
    <3> QED
      BY <1>8, <3>1, <1>t DEF SaveLetter, LetterRow
  <2>2. dialog' \in [Senders -> Dialog]
    <3>1. [dialog[s] EXCEPT !.at = "mail"] \in Dialog
      BY <1>t DEF Dialog
    <3> QED
      BY <1>8, <3>1, <1>t, PutDialog DEF SaveLetter
  <2> QED
    BY <1>8, <2>1, <2>2, <1>t, <1>g DEF SaveLetter
<1>9. ASSUME NEW s \in Senders, MailLetterToIt(s) PROVE LetterTyped'
  <2>1. dialog' \in [Senders -> Dialog]
    <3>1. [dialog[s] EXCEPT !.at = "undo"] \in Dialog
      BY <1>t DEF Dialog
    <3>2. \/ dialog' = [dialog EXCEPT ![s] = Shut]
          \/ dialog' = [dialog EXCEPT ![s] = [dialog[s] EXCEPT !.at = "undo"]]
      BY <1>9 DEF MailLetterToIt
    <3> QED
      BY <3>1, <3>2, <1>t, ShutType, PutDialog
  <2>2. [asked |-> dialog[s].asked, cc |-> dialog[s].cc, link |-> dialog[s].link] \in ItMail
    BY <1>t DEF ItMail, Dialog
  <2>3. outbox' \in Seq(ItMail)
    <3> DEFINE m == [asked |-> dialog[s].asked, cc |-> dialog[s].cc, link |-> dialog[s].link]
    <3>1. outbox' = Append(outbox, m) \/ outbox' = outbox
      BY <1>9 DEF MailLetterToIt
    <3>2. m \in ItMail
      BY <2>2
    <3> HIDE DEF m
    <3> QED
      BY SMTT(60), <3>1, <3>2, <1>t, AppendProperties
  <2> QED
    BY <1>9, <2>1, <2>3, <1>t, <1>g DEF MailLetterToIt
<1>10. ASSUME NEW s \in Senders, UndoLetter(s) PROVE LetterTyped'
  <2>1. letterRow' \in LetterRow
    BY <1>10, <1>t, NoLetterType DEF UndoLetter, AsRead, LetterRow, Dialog
  <2>2. dialog' \in [Senders -> Dialog]
    BY <1>10, <1>t, ShutType DEF UndoLetter
  <2> QED
    BY <1>10, <2>1, <2>2, <1>t, <1>g DEF UndoLetter
<1>11. ASSUME NEW s \in Senders, Dismiss(s) PROVE LetterTyped'
  <2>1. dialog' \in [Senders -> Dialog]
    BY <1>11, <1>t, ShutType DEF Dismiss
  <2>2. alone' \in BOOLEAN
    BY <1>11 DEF Dismiss
  <2> QED
    BY <1>11, <2>1, <2>2, <1>t, <1>g DEF Dismiss
<1>12. CASE UNCHANGED ivars
  BY <1>12, <1>t, <1>g DEF ivars
<1> QED
  BY <1>1, <1>2, <1>3, <1>4, <1>5, <1>6, <1>7, <1>8, <1>9, <1>10, <1>11, <1>12 DEF ItLetterNext

-----------------------------------------------------------------------------
(* Who moves *)

LEMMA MoversStep == LetterTyped /\ MoversHold /\ [ItLetterNext]_ivars => MoversHold'
<1> SUFFICES ASSUME LetterTyped, MoversHold, [ItLetterNext]_ivars PROVE MoversHold'
  OBVIOUS
<1>t. /\ letterRow \in LetterRow /\ dialog \in [Senders -> Dialog] /\ outbox \in Seq(ItMail)
      /\ chosen \subseteq Leavers /\ Transferred \subseteq Leavers
  BY TurnsAssumption DEF LetterTyped, ItLetterTypeOK
<1>g. ASSUME \A i \in DOMAIN outbox' : \A l \in Transferred :
               outbox'[i].asked[l] # NoMailbox => l \in chosen',
             \A l \in Transferred : letterRow'.asked[l] # NoMailbox => l \in chosen',
             \A s \in Senders : \A l \in Transferred :
               /\ dialog'[s].at = "open" /\ l \in dialog'[s].ticked => l \in chosen'
               /\ dialog'[s].at \in {"save", "mail", "undo"} =>
                    /\ dialog'[s].asked[l] # NoMailbox => l \in chosen'
                    /\ dialog'[s].was.asked[l] # NoMailbox => l \in chosen'
      PROVE  MoversHold'
  BY <1>g DEF MoversHold, ByHand, UnderWay
<1>o. \A i \in DOMAIN outbox : \A l \in Transferred : outbox[i].asked[l] # NoMailbox => l \in chosen
  BY DEF MoversHold, ByHand
<1>r. \A l \in Transferred : letterRow.asked[l] # NoMailbox => l \in chosen
  BY DEF MoversHold, ByHand
<1>d. \A s \in Senders : \A l \in Transferred :
        /\ dialog[s].at = "open" /\ l \in dialog[s].ticked => l \in chosen
        /\ dialog[s].at \in {"save", "mail", "undo"} =>
             /\ dialog[s].asked[l] # NoMailbox => l \in chosen
             /\ dialog[s].was.asked[l] # NoMailbox => l \in chosen
  BY DEF MoversHold, ByHand, UnderWay
<1>s. Shut.at = "none"
  BY ShutType
<1>1. CASE LearnAddress \/ ReadByToken \/ UNCHANGED ivars
  <2>1. UNCHANGED <<letterRow, dialog, outbox, chosen>>
    BY <1>1 DEF LearnAddress, ReadByToken, ivars
  <2> QED
    BY <2>1, <1>o, <1>r, <1>d, <1>g
<1>2. CASE ClaimAnswer
  <2>1. letterRow'.asked = letterRow.asked /\ UNCHANGED <<dialog, outbox, chosen>>
    BY <1>2, <1>t DEF ClaimAnswer, LetterRow
  <2> QED
    BY <2>1, <1>o, <1>r, <1>d, <1>g
<1>3. ASSUME NEW s \in Senders, Draft(s) PROVE MoversHold'
  <2>1. UNCHANGED <<letterRow, outbox, chosen>>
    BY <1>3 DEF Draft
  <2>2. \A t \in Senders \ {s} : dialog'[t] = dialog[t]
    BY <1>3, <1>t DEF Draft
  <2>3. dialog'[s].at = "open"
        /\ dialog'[s].ticked = (IF letterRow.sends > 0 THEN AskedBefore ELSE TickedAtFirst)
    BY <1>3, <1>t, ShutType DEF Draft, Dialog
  <2>4. \A l \in Transferred : l \in dialog'[s].ticked => l \in chosen
    BY <2>3, <1>r DEF AskedBefore, TickedAtFirst
  <2>5. \A t \in Senders : t = s \/ t \in Senders \ {s}
    OBVIOUS
  <2> QED
    BY <2>1, <2>2, <2>3, <2>4, <2>5, <1>o, <1>r, <1>d, <1>g
<1>4. ASSUME NEW s \in Senders, Tick(s) PROVE MoversHold'
  <2>1. UNCHANGED <<letterRow, outbox>> /\ dialog[s].at = "open"
    BY <1>4 DEF Tick
  <2>2. PICK l \in Leavers, box \in Mailboxes :
          \/ /\ dialog' = [dialog EXCEPT ![s].ticked = @ \ {l}]
             /\ UNCHANGED chosen
          \/ /\ dialog' = [dialog EXCEPT ![s].ticked = @ \cup {l},
                                         ![s].asked[l] = IF @ = NoMailbox THEN box ELSE @]
             /\ chosen' = chosen \cup {l}
    BY <1>4 DEF Tick
  <2>3. /\ chosen \subseteq chosen'
        /\ dialog'[s].at = "open"
        /\ \A m \in dialog'[s].ticked : m \in dialog[s].ticked \/ m \in chosen'
    BY <2>1, <2>2, <1>t DEF Dialog
  <2>4. \A t \in Senders \ {s} : dialog'[t] = dialog[t]
    BY <2>2, <1>t
  <2>5. \A t \in Senders : t = s \/ t \in Senders \ {s}
    OBVIOUS
  <2> QED
    BY <2>1, <2>3, <2>4, <2>5, <1>o, <1>r, <1>d, <1>g
<1>5. ASSUME NEW s \in Senders, Copy(s) PROVE MoversHold'
  <2>1. UNCHANGED <<letterRow, outbox, chosen>> /\ dialog[s].at = "open"
    BY <1>5 DEF Copy
  <2>2. PICK c \in Colleagues :
          dialog' = [dialog EXCEPT ![s].cc = IF c \in @ THEN @ \ {c} ELSE @ \cup {c}]
    BY <1>5 DEF Copy
  <2>3. dialog'[s].at = "open" /\ dialog'[s].ticked = dialog[s].ticked
    BY <2>1, <2>2, <1>t DEF Dialog
  <2>4. \A t \in Senders \ {s} : dialog'[t] = dialog[t]
    BY <2>2, <1>t
  <2>5. \A t \in Senders : t = s \/ t \in Senders \ {s}
    OBVIOUS
  <2> QED
    BY <2>1, <2>3, <2>4, <2>5, <1>o, <1>r, <1>d, <1>g
<1>6. ASSUME NEW s \in Senders, SendIt(s) PROVE MoversHold'
  <2> DEFINE whose == [l \in Leavers |-> IF l \in dialog[s].ticked THEN dialog[s].asked[l]
                                         ELSE NoMailbox]
  <2>1. UNCHANGED <<letterRow, outbox, chosen>> /\ dialog[s].at = "open"
    BY <1>6 DEF SendIt
  <2>2. PICK cc \in OnCc(dialog[s].cc) :
          dialog' = [dialog EXCEPT ![s] =
            [@ EXCEPT !.at = "save", !.cc = cc, !.was = letterRow, !.link = NextLink,
                      !.asked = whose]]
    BY <1>6 DEF SendIt
  <2>3. dialog'[s].at = "save" /\ dialog'[s].was = letterRow /\ dialog'[s].asked = whose
    <3> HIDE DEF whose
    <3> QED BY <2>2, <1>t DEF Dialog
  <2>4. \A l \in Transferred : whose[l] # NoMailbox => l \in chosen
    BY <2>1, <1>t, <1>d
  <2>5. \A t \in Senders \ {s} : dialog'[t] = dialog[t]
    <3> HIDE DEF whose
    <3> QED BY <2>2, <1>t
  <2>6. \A t \in Senders : t = s \/ t \in Senders \ {s}
    OBVIOUS
  <2> HIDE DEF whose
  <2> QED
    BY <2>1, <2>3, <2>4, <2>5, <2>6, <1>o, <1>r, <1>d, <1>g
<1>7. ASSUME NEW s \in Senders, SaveLetter(s) PROVE MoversHold'
  <2>1. UNCHANGED <<outbox, chosen>> /\ dialog[s].at = "save"
        /\ dialog' = [dialog EXCEPT ![s].at = "mail"]
    BY <1>7 DEF SaveLetter
  <2>2. letterRow'.asked = dialog[s].asked
    BY <1>7, <1>t DEF SaveLetter, LetterRow
  <2>3. dialog'[s].at = "mail" /\ dialog'[s].asked = dialog[s].asked
        /\ dialog'[s].was = dialog[s].was
    BY <2>1, <1>t DEF Dialog
  <2>4. \A t \in Senders \ {s} : dialog'[t] = dialog[t]
    BY <2>1, <1>t
  <2>5. \A t \in Senders : t = s \/ t \in Senders \ {s}
    OBVIOUS
  <2> QED
    BY <2>1, <2>2, <2>3, <2>4, <2>5, <1>o, <1>r, <1>d, <1>g
<1>8. ASSUME NEW s \in Senders, MailLetterToIt(s) PROVE MoversHold'
  <2> DEFINE m == [asked |-> dialog[s].asked, cc |-> dialog[s].cc, link |-> dialog[s].link]
  <2>1. UNCHANGED <<letterRow, chosen>> /\ dialog[s].at = "mail"
    BY <1>8 DEF MailLetterToIt
  <2>2. \/ outbox' = Append(outbox, m) /\ dialog' = [dialog EXCEPT ![s] = Shut]
        \/ outbox' = outbox /\ dialog' = [dialog EXCEPT ![s] = [dialog[s] EXCEPT !.at = "undo"]]
    BY <1>8, <1>t DEF MailLetterToIt, Dialog
  <2>3. m \in ItMail /\ m.asked = dialog[s].asked
    BY <1>t DEF ItMail, Dialog
  <2>4. \A i \in DOMAIN outbox' :
          \/ i \in DOMAIN outbox /\ outbox'[i] = outbox[i]
          \/ outbox'[i] = m
    <3> HIDE DEF m
    <3> QED BY SMTT(60), <2>2, <2>3, <1>t, AppendProperties, LenProperties
  <2>5. \/ dialog'[s].at = "none"
        \/ /\ dialog'[s].at = "undo" /\ dialog'[s].asked = dialog[s].asked
           /\ dialog'[s].was = dialog[s].was
    BY <2>2, <1>t, <1>s DEF Dialog
  <2>6. \A t \in Senders \ {s} : dialog'[t] = dialog[t]
    BY <2>2, <1>t
  <2>7. \A t \in Senders : t = s \/ t \in Senders \ {s}
    OBVIOUS
  <2>8. \A l \in Transferred : m.asked[l] # NoMailbox => l \in chosen
    BY <2>1, <2>3, <1>d
  <2> HIDE DEF m
  <2>9. \A i \in DOMAIN outbox' : \A l \in Transferred :
          outbox'[i].asked[l] # NoMailbox => l \in chosen'
    BY <2>1, <2>4, <2>8, <1>o
  <2>10. \A t \in Senders : \A l \in Transferred :
           /\ dialog'[t].at = "open" /\ l \in dialog'[t].ticked => l \in chosen'
           /\ dialog'[t].at \in {"save", "mail", "undo"} =>
                /\ dialog'[t].asked[l] # NoMailbox => l \in chosen'
                /\ dialog'[t].was.asked[l] # NoMailbox => l \in chosen'
    BY <2>1, <2>5, <2>6, <2>7, <1>d
  <2> QED
    BY <2>1, <2>9, <2>10, <1>r, <1>g
<1>9. ASSUME NEW s \in Senders, UndoLetter(s) PROVE MoversHold'
  <2>1. UNCHANGED <<outbox, chosen>> /\ dialog[s].at = "undo"
        /\ dialog' = [dialog EXCEPT ![s] = Shut]
    BY <1>9 DEF UndoLetter
  <2>2. letterRow'.asked = NobodyAsked \/ letterRow'.asked = dialog[s].was.asked
    BY <1>9, <1>t DEF UndoLetter, AsRead, NoLetter, LetterRow, Dialog
  <2>3. dialog'[s].at = "none"
    BY <2>1, <1>t, <1>s
  <2>4. \A t \in Senders \ {s} : dialog'[t] = dialog[t]
    BY <2>1, <1>t
  <2>5. \A t \in Senders : t = s \/ t \in Senders \ {s}
    OBVIOUS
  <2>6. \A l \in Transferred : letterRow'.asked[l] # NoMailbox => l \in chosen
    BY <2>1, <2>2, <1>d, <1>t DEF NobodyAsked
  <2> QED
    BY <2>1, <2>3, <2>4, <2>5, <2>6, <1>o, <1>d, <1>g
<1>10. ASSUME NEW s \in Senders, Dismiss(s) PROVE MoversHold'
  <2>1. UNCHANGED <<letterRow, outbox, chosen>> /\ dialog' = [dialog EXCEPT ![s] = Shut]
    BY <1>10 DEF Dismiss
  <2>2. dialog'[s].at = "none" /\ \A t \in Senders \ {s} : dialog'[t] = dialog[t]
    BY <2>1, <1>t, <1>s
  <2>3. \A t \in Senders : t = s \/ t \in Senders \ {s}
    OBVIOUS
  <2> QED
    BY <2>1, <2>2, <2>3, <1>o, <1>r, <1>d, <1>g
<1> QED
  BY <1>1, <1>2, <1>3, <1>4, <1>5, <1>6, <1>7, <1>8, <1>9, <1>10 DEF ItLetterNext

-----------------------------------------------------------------------------
(* The row, the last mail and the answer *)

(* Nothing a send rests on is touched. *)
LEMMA ItQuiet ==
  ASSUME RowHolds, AnswerHolds, UNCHANGED <<letterRow, outbox, alone>>,
         UnderWay' = UnderWay, \A s \in UnderWay : dialog'[s] = dialog[s]
  PROVE  RowHolds' /\ AnswerHolds'
<1>1. \A row : IsLastMail(row)' <=> IsLastMail(row)
  BY DEF IsLastMail, LastMail
<1>2. ASSUME alone' PROVE /\ \A s, t \in UnderWay' : s = t
                          /\ UnderWay' = {} => IsLastMail(letterRow)'
                          /\ \A s \in UnderWay' : SendingLetter(s)'
  <2>1. IsLastMail(letterRow)' <=> IsLastMail(letterRow)
    BY DEF IsLastMail, LastMail
  <2>2. ASSUME NEW s \in UnderWay' PROVE SendingLetter(s)'
    <3>1. SendingLetter(s) /\ dialog'[s] = dialog[s]
      BY <1>2, <2>2 DEF RowHolds
    <3>2. IsLastMail(dialog[s].was)' <=> IsLastMail(dialog[s].was)
      BY <3>1 DEF IsLastMail, LastMail
    <3> QED
      BY <3>1, <3>2 DEF SendingLetter
  <2> QED
    BY <1>2, <2>1, <2>2 DEF RowHolds
<1>3. RowHolds'
  BY <1>2 DEF RowHolds
<1>4. AnswerHolds'
  BY DEF AnswerHolds, LastMail
<1> QED
  BY <1>3, <1>4

(* Once a send has been overtaken nothing is claimed. *)
LEMMA ItOvertaken == ~alone' => RowHolds' /\ AnswerHolds'
BY DEF RowHolds, AnswerHolds

LEMMA RowStep ==
  LetterTyped /\ RowHolds /\ AnswerHolds /\ [ItLetterNext]_ivars => RowHolds' /\ AnswerHolds'
<1> SUFFICES ASSUME LetterTyped, RowHolds, AnswerHolds, [ItLetterNext]_ivars
             PROVE  RowHolds' /\ AnswerHolds'
  OBVIOUS
<1>t. /\ letterRow \in LetterRow /\ dialog \in [Senders -> Dialog] /\ outbox \in Seq(ItMail)
      /\ reader \in [open : BOOLEAN, asked : AskedOf, said : SUBSET Mailboxes]
  BY DEF LetterTyped, ItLetterTypeOK
<1>a. alone' => alone
  <2>1. CASE UNCHANGED ivars
    BY <2>1 DEF ivars
  <2>2. CASE ItLetterNext
    BY <2>2 DEF ItLetterNext, LearnAddress, ReadByToken, ClaimAnswer, Draft, Tick, Copy, SendIt,
                SaveLetter, MailLetterToIt, UndoLetter, Dismiss
  <2> QED
    BY <2>1, <2>2
<1>s. Shut.at = "none"
  BY ShutType
<1>u. \A s \in Senders : s \in UnderWay <=> dialog[s].at \in {"save", "mail", "undo"}
  BY DEF UnderWay
<1>v. \A s \in Senders : s \in UnderWay' <=> dialog'[s].at \in {"save", "mail", "undo"}
  BY DEF UnderWay
<1>w. UnderWay \subseteq Senders /\ UnderWay' \subseteq Senders
  BY DEF UnderWay
<1>q. ASSUME NEW s \in Senders, UNCHANGED <<letterRow, outbox, alone>>,
             dialog[s].at \notin {"save", "mail", "undo"},
             dialog'[s].at \notin {"save", "mail", "undo"},
             \A t \in Senders \ {s} : dialog'[t] = dialog[t]
      PROVE  RowHolds' /\ AnswerHolds'
  <2>1. \A t \in UnderWay : t # s /\ dialog'[t] = dialog[t]
    BY <1>q, <1>u, <1>w
  <2>2. UnderWay' = UnderWay
    BY <1>q, <1>u, <1>v, <1>w
  <2> QED
    BY <1>q, <2>1, <2>2, ItQuiet
(* What holds while s alone is under way, and what there is left to show of a step of its. *)
<1>l. ASSUME alone, NEW s \in Senders, s \in UnderWay
      PROVE  UnderWay = {s} /\ SendingLetter(s) /\ ~letterRow.answered
  BY <1>l DEF RowHolds, AnswerHolds
<1>1. CASE LearnAddress \/ ReadByToken \/ UNCHANGED ivars
  <2>1. UNCHANGED <<letterRow, dialog, outbox, alone>>
    BY <1>1 DEF LearnAddress, ReadByToken, ivars
  <2>2. UnderWay' = UnderWay
    BY <2>1 DEF UnderWay
  <2> QED
    BY <2>1, <2>2, ItQuiet
<1>2. CASE ClaimAnswer
  <2> SUFFICES ASSUME alone' PROVE RowHolds' /\ AnswerHolds'
    BY ItOvertaken
  <2>1. alone /\ UnderWay = {} /\ reader.asked = letterRow.asked
        /\ UNCHANGED <<dialog, outbox>>
    BY <1>2 DEF ClaimAnswer
  <2>2. UnderWay' = {}
    BY <2>1 DEF UnderWay
  <2>3. IsLastMail(letterRow)
    BY <2>1 DEF RowHolds
  <2>4. /\ letterRow'.sends = letterRow.sends /\ letterRow'.asked = letterRow.asked
        /\ letterRow'.cc = letterRow.cc /\ letterRow'.link = letterRow.link
    BY <1>2, <1>t DEF ClaimAnswer, LetterRow
  <2>5. IsLastMail(letterRow)'
    BY <2>1, <2>3, <2>4 DEF IsLastMail, LastMail
  <2>6. RowHolds'
    BY <2>2, <2>5 DEF RowHolds
  <2>7. CASE letterRow.answered \/ letterRow.sends = 0
    <3>1. letterRow' = letterRow
      BY <1>2, <2>7 DEF ClaimAnswer
    <3> QED
      BY <2>1, <2>2, <2>6, <3>1 DEF AnswerHolds, LastMail
  <2>8. CASE ~(letterRow.answered \/ letterRow.sends = 0)
    <3>1. letterRow'.said = {reader.asked[l] : l \in Leavers} \cap reader.said
      BY <1>2, <2>8, <1>t DEF ClaimAnswer, LetterRow
    <3>2. outbox # << >> /\ letterRow.asked = LastMail.asked
      BY <2>3, <2>8 DEF IsLastMail
    <3>3. letterRow'.said \subseteq {LastMail.asked[l] : l \in Leavers}
      BY <3>1, <3>2, <2>1
    <3> QED
      BY <2>1, <2>2, <2>6, <3>2, <3>3 DEF AnswerHolds, LastMail
  <2> QED
    BY <2>7, <2>8
<1>3. ASSUME NEW s \in Senders, Draft(s) PROVE RowHolds' /\ AnswerHolds'
  <2>1. UNCHANGED <<letterRow, outbox, alone>> /\ dialog[s].at = "none"
        /\ \A t \in Senders \ {s} : dialog'[t] = dialog[t]
    BY <1>3, <1>t DEF Draft
  <2>2. dialog'[s].at = "open"
    BY <1>3, <1>t, ShutType DEF Draft, Dialog
  <2> QED
    BY <2>1, <2>2, <1>q
<1>4. ASSUME NEW s \in Senders, Tick(s) PROVE RowHolds' /\ AnswerHolds'
  <2>1. UNCHANGED <<letterRow, outbox, alone>> /\ dialog[s].at = "open"
        /\ \A t \in Senders \ {s} : dialog'[t] = dialog[t]
    BY <1>4, <1>t DEF Tick
  <2>2. dialog'[s].at = "open"
    BY <1>4, <1>t DEF Tick, Dialog
  <2> QED
    BY <2>1, <2>2, <1>q
<1>5. ASSUME NEW s \in Senders, Copy(s) PROVE RowHolds' /\ AnswerHolds'
  <2>1. UNCHANGED <<letterRow, outbox, alone>> /\ dialog[s].at = "open"
        /\ \A t \in Senders \ {s} : dialog'[t] = dialog[t]
    BY <1>5, <1>t DEF Copy
  <2>2. dialog'[s].at = "open"
    BY <1>5, <1>t DEF Copy, Dialog
  <2> QED
    BY <2>1, <2>2, <1>q
<1>6. ASSUME NEW s \in Senders, SendIt(s) PROVE RowHolds' /\ AnswerHolds'
  <2> SUFFICES ASSUME alone' PROVE RowHolds' /\ AnswerHolds'
    BY ItOvertaken
  <2> DEFINE whose == [l \in Leavers |-> IF l \in dialog[s].ticked THEN dialog[s].asked[l]
                                         ELSE NoMailbox]
  <2>1. alone /\ UnderWay = {} /\ ~letterRow.answered /\ UNCHANGED <<letterRow, outbox>>
    BY <1>6 DEF SendIt
  <2>2. PICK cc \in OnCc(dialog[s].cc) :
          dialog' = [dialog EXCEPT ![s] =
            [@ EXCEPT !.at = "save", !.cc = cc, !.was = letterRow, !.link = NextLink,
                      !.asked = whose]]
    BY <1>6 DEF SendIt
  <2> HIDE DEF whose
  <2>3. dialog'[s].at = "save" /\ dialog'[s].was = letterRow
        /\ \A t \in Senders \ {s} : dialog'[t] = dialog[t]
    BY <2>2, <1>t DEF Dialog
  <2>4. UnderWay' = {s}
    BY <2>1, <2>3, <1>u, <1>v, <1>w
  <2>5. IsLastMail(letterRow)
    BY <2>1 DEF RowHolds
  <2>6. IsLastMail(dialog[s].was)'
    BY <2>1, <2>3, <2>5 DEF IsLastMail, LastMail
  <2>7. SendingLetter(s)'
    BY <2>1, <2>3, <2>6 DEF SendingLetter
  <2>8. RowHolds'
    BY <2>4, <2>7 DEF RowHolds
  <2> QED
    BY <2>1, <2>8 DEF AnswerHolds
<1>7. ASSUME NEW s \in Senders, SaveLetter(s) PROVE RowHolds' /\ AnswerHolds'
  <2> SUFFICES ASSUME alone' PROVE RowHolds' /\ AnswerHolds'
    BY ItOvertaken
  <2>1. dialog[s].at = "save" /\ dialog' = [dialog EXCEPT ![s].at = "mail"]
        /\ UNCHANGED <<outbox, alone>>
    BY <1>7 DEF SaveLetter
  <2>2. UnderWay = {s} /\ SendingLetter(s) /\ ~letterRow.answered
    BY <2>1, <1>l, <1>u, <1>a
  <2>3. /\ letterRow'.sends > 0 /\ letterRow'.answered = letterRow.answered
        /\ letterRow'.asked = dialog[s].asked
        /\ letterRow'.cc = dialog[s].cc /\ letterRow'.link = dialog[s].link
    <3>1. letterRow.sends \in Nat
      BY <1>t DEF LetterRow
    <3> QED
      BY <1>7, <1>t, <3>1 DEF SaveLetter, LetterRow
  <2>4. /\ dialog'[s].at = "mail" /\ dialog'[s].was = dialog[s].was
        /\ dialog'[s].asked = dialog[s].asked
        /\ dialog'[s].cc = dialog[s].cc /\ dialog'[s].link = dialog[s].link
        /\ \A t \in Senders \ {s} : dialog'[t] = dialog[t]
    BY <2>1, <1>t DEF Dialog
  <2>5. UnderWay' = {s}
    BY <2>2, <2>4, <1>u, <1>v, <1>w
  <2>6. IsLastMail(dialog[s].was)'
    BY <2>1, <2>2, <2>4 DEF IsLastMail, LastMail, SendingLetter
  <2>7. SendingLetter(s)'
    BY <2>3, <2>4, <2>6 DEF SendingLetter
  <2>8. RowHolds'
    BY <2>5, <2>7 DEF RowHolds
  <2> QED
    BY <2>2, <2>3, <2>8 DEF AnswerHolds
<1>8. ASSUME NEW s \in Senders, MailLetterToIt(s) PROVE RowHolds' /\ AnswerHolds'
  <2> SUFFICES ASSUME alone' PROVE RowHolds' /\ AnswerHolds'
    BY ItOvertaken
  <2> DEFINE m == [asked |-> dialog[s].asked, cc |-> dialog[s].cc, link |-> dialog[s].link]
  <2>1. dialog[s].at = "mail" /\ UNCHANGED <<letterRow, alone>>
    BY <1>8 DEF MailLetterToIt
  <2>2. UnderWay = {s} /\ SendingLetter(s) /\ ~letterRow.answered
    BY <2>1, <1>l, <1>u, <1>a
  <2>3. /\ letterRow.asked = dialog[s].asked /\ letterRow.cc = dialog[s].cc
        /\ letterRow.link = dialog[s].link /\ letterRow.sends > 0
    BY <2>1, <2>2 DEF SendingLetter
  <2>4. CASE outbox' = Append(outbox, m) /\ dialog' = [dialog EXCEPT ![s] = Shut]
    <3>1. m \in ItMail
      BY <1>t DEF ItMail, Dialog
    <3>2. outbox'[Len(outbox')] = m /\ outbox' # << >>
      <4> HIDE DEF m
      <4> QED BY <2>4, <3>1, <1>t, AppendProperties, LenProperties
    <3>3. IsLastMail(letterRow)'
      BY <2>1, <2>3, <3>2 DEF IsLastMail, LastMail
    <3>4. UnderWay' = {}
      BY <2>2, <2>4, <1>t, <1>s, <1>u, <1>v, <1>w
    <3> QED
      BY <2>1, <2>2, <3>3, <3>4 DEF RowHolds, AnswerHolds
  <2>5. CASE outbox' = outbox /\ dialog' = [dialog EXCEPT ![s] = [dialog[s] EXCEPT !.at = "undo"]]
    <3>1. /\ dialog'[s].at = "undo" /\ dialog'[s].was = dialog[s].was
          /\ dialog'[s].asked = dialog[s].asked
          /\ dialog'[s].cc = dialog[s].cc /\ dialog'[s].link = dialog[s].link
          /\ \A t \in Senders \ {s} : dialog'[t] = dialog[t]
      BY <2>5, <1>t DEF Dialog
    <3>2. UnderWay' = {s}
      BY <2>2, <3>1, <1>u, <1>v, <1>w
    <3>3. IsLastMail(dialog[s].was)'
      BY <2>2, <2>5, <3>1 DEF IsLastMail, LastMail, SendingLetter
    <3>4. SendingLetter(s)'
      BY <2>1, <2>3, <3>1, <3>3 DEF SendingLetter
    <3> QED
      BY <2>1, <2>2, <3>2, <3>4 DEF RowHolds, AnswerHolds
  <2> QED
    BY <1>8, <2>4, <2>5, <1>t DEF MailLetterToIt, Dialog
<1>9. ASSUME NEW s \in Senders, UndoLetter(s) PROVE RowHolds' /\ AnswerHolds'
  <2> SUFFICES ASSUME alone' PROVE RowHolds' /\ AnswerHolds'
    BY ItOvertaken
  <2>1. dialog[s].at = "undo" /\ dialog' = [dialog EXCEPT ![s] = Shut]
        /\ UNCHANGED <<outbox, alone>>
    BY <1>9 DEF UndoLetter
  <2>2. UnderWay = {s} /\ SendingLetter(s) /\ ~letterRow.answered
    BY <2>1, <1>l, <1>u, <1>a
  <2>3. IsLastMail(dialog[s].was)
    BY <2>2 DEF SendingLetter
  <2>4. ~letterRow'.answered
        /\ \/ dialog[s].was.sends = 0 /\ letterRow' = NoLetter
           \/ /\ letterRow'.sends = dialog[s].was.sends
              /\ letterRow'.asked = dialog[s].was.asked
              /\ letterRow'.cc = dialog[s].was.cc /\ letterRow'.link = dialog[s].was.link
    BY <1>9, <2>2, <1>t DEF UndoLetter, AsRead, NoLetter, LetterRow, Dialog
  <2>5. IsLastMail(letterRow)'
    BY <2>1, <2>3, <2>4 DEF IsLastMail, LastMail, NoLetter
  <2>6. UnderWay' = {}
    BY <2>1, <2>2, <1>t, <1>s, <1>u, <1>v, <1>w
  <2> QED
    BY <2>4, <2>5, <2>6 DEF RowHolds, AnswerHolds
<1>10. ASSUME NEW s \in Senders, Dismiss(s) PROVE RowHolds' /\ AnswerHolds'
  <2> SUFFICES ASSUME alone' PROVE RowHolds' /\ AnswerHolds'
    BY ItOvertaken
  <2>1. s \notin UnderWay /\ UNCHANGED <<letterRow, outbox>> /\ alone
        /\ dialog' = [dialog EXCEPT ![s] = Shut]
    BY <1>10 DEF Dismiss
  <2>2. dialog'[s].at = "none" /\ \A t \in Senders \ {s} : dialog'[t] = dialog[t]
    BY <2>1, <1>t, <1>s
  <2>3. UNCHANGED alone
    BY <2>1, <1>10 DEF Dismiss
  <2> QED
    BY <2>1, <2>2, <2>3, <1>q, <1>u
<1> QED
  BY <1>1, <1>2, <1>3, <1>4, <1>5, <1>6, <1>7, <1>8, <1>9, <1>10 DEF ItLetterNext

LEMMA ItLetterInitInv == ItLetterInit => ItLetterInv
<1> SUFFICES ASSUME ItLetterInit PROVE ItLetterInv
  OBVIOUS
<1>1. turns \in [TurnKinds -> Nat]
  BY TurnsAssumption DEF ItLetterInit
<1>2. outbox \in Seq(ItMail) /\ DOMAIN outbox = {}
  BY DEF ItLetterInit
<1>3. LetterTyped
  BY <1>1, <1>2, NoLetterType, ShutType DEF ItLetterInit, LetterTyped, ItLetterTypeOK
<1>4. UnderWay = {}
  BY ShutType DEF ItLetterInit, UnderWay
<1>5. RowHolds
  BY <1>4 DEF ItLetterInit, RowHolds, IsLastMail, NoLetter
<1>6. AnswerHolds
  BY DEF ItLetterInit, AnswerHolds, NoLetter
<1>7. MoversHold
  BY <1>2, <1>4, ShutType, TurnsAssumption
     DEF ItLetterInit, MoversHold, ByHand, NoLetter, NobodyAsked
<1> QED
  BY <1>3, <1>5, <1>6, <1>7 DEF ItLetterInv

LEMMA ItLetterFollows == ItLetterInv => ItLetterStands
<1> SUFFICES ASSUME ItLetterInv PROVE ItLetterStands
  OBVIOUS
<1>1. RowIsLastMail
  BY DEF ItLetterInv, RowHolds, RowIsLastMail, IsLastMail
<1>2. MoversKept
  BY DEF ItLetterInv, MoversHold, ByHand, MoversKept
<1>3. AnsweredAsAsked
  BY DEF ItLetterInv, AnswerHolds, AnsweredAsAsked
<1> QED
  BY <1>1, <1>2, <1>3 DEF ItLetterStands

(* The request on the row is the one in the last mail that left, whatever failed after it
   was saved; nobody who moves is asked for but by hand; and IT's answer is about what its
   mail asked (send, undo, draft, completeByToken). *)
THEOREM ItLetterTheorem == ItLetterSpec => []ItLetterStands
<1>1. ItLetterInv /\ [ItLetterNext]_ivars => ItLetterInv'
  BY LetterTypeStep, MoversStep, RowStep DEF ItLetterInv
<1> QED
  BY <1>1, ItLetterInitInv, ItLetterFollows, PTL DEF ItLetterSpec
-----------------------------------------------------------------------------
(* The permanent file *)

(* The folders that have been archived, on the row or about to be. *)
Filed == {kept.url} \cup {work[k].url : k \in Archiving}

FolderKnown ==
  /\ \A k \in Works : work[k].at \in {"put", "list", "form"} => work[k].folder \in DOMAIN folders
  /\ \A k \in Works : work[k].at \in {"list", "form", "record"} => work[k].archive
  /\ kept.url # 0 => kept.archived

(* One archiving at a time, and none but to write the address again once there is one. *)
OneArchiving ==
  oneByOne =>
    /\ \A j, k \in Archiving : j = k
    /\ \A k \in Archiving : work[k].url # 0 => work[k].at = "record"
    /\ kept.url # 0 => \A k \in Archiving : work[k].at = "record" /\ work[k].url = kept.url

(* One folder of joining documents at a time; the others are the archived ones. *)
OneFolder ==
  oneByOne /\ ~twins =>
    /\ (\E k \in Works : work[k].at = "make") => In("joining") = {}
    /\ \A i, j \in In("joining") : i = j
    /\ In("archive") = Filed \ {0}
    /\ \A k \in Works : work[k].at \in {"list", "form"} => work[k].folder \in In("joining")

(* A document on record is in the folder, and if one is archived in that one. *)
PapersFiled ==
  oneByOne /\ ~twins =>
    \A d \in onRow \ late :
      \E i \in DOMAIN folders : d \in folders[i].docs /\ (In("archive") # {} => i \in In("archive"))

FormIn(i, x) == \E n \in DOMAIN folders[i].forms[x] : folders[i].forms[x][n] = refs[x]

Owed == {x \in Referees \ (since \cup unfiled) : refs[x] # 0}

(* A form listed and not changed since is about to be filed as it is, or is. *)
FormsFiled ==
  oneByOne /\ ~twins =>
    /\ \A k \in Works : work[k].at = "form" =>
         \A x \in Owed : IF x \in work[k].todo THEN work[k].saw[x] = refs[x]
                         ELSE FormIn(work[k].folder, x)
    /\ \A i \in Filed \ {0} : \A x \in Owed : FormIn(i, x)

ArchiveInv == ArchiveTypeOK /\ FolderKnown /\ OneArchiving /\ OneFolder /\ PapersFiled /\ FormsFiled

-----------------------------------------------------------------------------

LEMMA RestingType == Resting \in Work /\ Resting.at = "none" /\ ~Resting.archive
BY OrdersAssumption DEF Resting, Work

LEMMA FoldersAre ==
  ASSUME folders \in Seq(Folder)
  PROVE  /\ Len(folders) \in Nat /\ DOMAIN folders = 1..Len(folders)
         /\ \A i \in DOMAIN folders : folders[i] \in Folder
BY LenProperties, ElementOfSeq

LEMMA FolderPut ==
  ASSUME folders \in Seq(Folder), NEW f \in DOMAIN folders, NEW g \in Folder,
         folders' = [folders EXCEPT ![f] = g]
  PROVE  /\ folders' \in Seq(Folder) /\ Len(folders') = Len(folders)
         /\ DOMAIN folders' = DOMAIN folders
         /\ folders'[f] = g /\ \A i \in DOMAIN folders \ {f} : folders'[i] = folders[i]
<1>1. f \in 1..Len(folders)
  BY FoldersAre
<1>2. folders' \in Seq(Folder) /\ Len(folders') = Len(folders)
  BY <1>1, ExceptSeq
<1> QED
  BY <1>1, <1>2, FoldersAre

LEMMA WorkPut ==
  ASSUME work \in [Works -> Work], NEW k \in Works, NEW w \in Work,
         work' = [work EXCEPT ![k] = w]
  PROVE  /\ work' \in [Works -> Work] /\ work'[k] = w
         /\ \A j \in Works \ {k} : work'[j] = work[j]
OBVIOUS

LEMMA OrderType ==
  ASSUME orders \in [Ordered -> Nat], NEW o \in Ordered, Order(o)
  PROVE  orders' \in [Ordered -> Nat]
BY DEF Order

(* What each step does to the folders and to the work it goes on with. *)
LEMMA PutFacts ==
  ASSUME ArchiveTypeOK, FolderKnown, NEW k \in Works, PutScan(k)
  PROVE  LET f == work[k].folder IN
         /\ f \in DOMAIN folders /\ f \in DOMAIN folders'
         /\ folders' \in Seq(Folder) /\ Len(folders') = Len(folders)
         /\ DOMAIN folders' = DOMAIN folders
         /\ folders'[f].place = folders[f].place /\ folders'[f].forms = folders[f].forms
         /\ folders'[f].docs = folders[f].docs \cup work[k].scan
         /\ \A i \in DOMAIN folders \ {f} : folders'[i] = folders[i]
<1> DEFINE f == work[k].folder
<1>1. f \in DOMAIN folders
  BY DEF PutScan, FolderKnown
<1>2. folders \in Seq(Folder) /\ work[k].scan \subseteq Scans
  BY DEF ArchiveTypeOK, Work
<1>3. folders[f] \in Folder
  BY <1>1, <1>2, FoldersAre
<1> DEFINE g == [folders[f] EXCEPT !.docs = folders[f].docs \cup work[k].scan]
<1>4. g \in Folder /\ g.place = folders[f].place /\ g.forms = folders[f].forms
      /\ g.docs = folders[f].docs \cup work[k].scan
  BY <1>2, <1>3 DEF Folder
<1>5. folders' = [folders EXCEPT ![f] = g]
  BY <1>1, <1>3 DEF PutScan, Folder
<1> HIDE DEF g, f
<1>6. /\ folders' \in Seq(Folder) /\ Len(folders') = Len(folders)
      /\ DOMAIN folders' = DOMAIN folders
      /\ folders'[f] = g /\ \A i \in DOMAIN folders \ {f} : folders'[i] = folders[i]
  BY <1>1, <1>2, <1>4, <1>5, FolderPut
<1> QED
  BY <1>1, <1>4, <1>6 DEF f

LEMMA FileFacts ==
  ASSUME ArchiveTypeOK, FolderKnown, NEW k \in Works, NEW x \in Referees, work[k].at = "form",
         folders' = [folders EXCEPT ![work[k].folder].forms[x] = Append(@, work[k].saw[x])]
  PROVE  LET f == work[k].folder IN
         /\ f \in DOMAIN folders /\ f \in DOMAIN folders'
         /\ folders' \in Seq(Folder) /\ Len(folders') = Len(folders)
         /\ DOMAIN folders' = DOMAIN folders
         /\ folders'[f].place = folders[f].place /\ folders'[f].docs = folders[f].docs
         /\ folders'[f].forms[x] = Append(folders[f].forms[x], work[k].saw[x])
         /\ folders[f].forms[x] \in Seq(Nat) /\ work[k].saw[x] \in Nat
         /\ \A y \in Referees \ {x} : folders'[f].forms[y] = folders[f].forms[y]
         /\ \A i \in DOMAIN folders \ {f} : folders'[i] = folders[i]
<1> DEFINE f == work[k].folder
           more == [folders[f].forms EXCEPT ![x] = Append(@, work[k].saw[x])]
           g == [folders[f] EXCEPT !.forms = more]
<1>1. f \in DOMAIN folders
  BY DEF FolderKnown
<1>2. folders \in Seq(Folder) /\ work[k].saw[x] \in Nat
  BY DEF ArchiveTypeOK, Work
<1>3. folders[f] \in Folder /\ folders[f].forms \in [Referees -> Seq(Nat)]
  BY <1>1, <1>2, FoldersAre DEF Folder
<1>4. more \in [Referees -> Seq(Nat)]
  <2>1. Append(folders[f].forms[x], work[k].saw[x]) \in Seq(Nat)
    BY <1>2, <1>3, AppendProperties
  <2> QED
    BY <1>3, <2>1
<1>5. more[x] = Append(folders[f].forms[x], work[k].saw[x])
      /\ \A y \in Referees \ {x} : more[y] = folders[f].forms[y]
  BY <1>3
<1>6. g \in Folder /\ g.place = folders[f].place /\ g.docs = folders[f].docs /\ g.forms = more
  <2> HIDE DEF more
  <2> QED BY <1>3, <1>4 DEF Folder
<1>7. folders' = [folders EXCEPT ![f] = g]
  BY <1>1, <1>3 DEF Folder
<1> HIDE DEF g, more, f
<1>8. /\ folders' \in Seq(Folder) /\ Len(folders') = Len(folders)
      /\ DOMAIN folders' = DOMAIN folders
      /\ folders'[f] = g /\ \A i \in DOMAIN folders \ {f} : folders'[i] = folders[i]
  BY <1>1, <1>2, <1>6, <1>7, FolderPut
<1> QED
  BY <1>1, <1>2, <1>3, <1>5, <1>6, <1>8 DEF f

LEMMA MoveFacts ==
  ASSUME ArchiveTypeOK, FolderKnown, NEW k \in Works, MoveFolder(k)
  PROVE  LET f == work[k].folder IN
         /\ f \in DOMAIN folders /\ f \in DOMAIN folders'
         /\ folders' \in Seq(Folder) /\ Len(folders') = Len(folders)
         /\ DOMAIN folders' = DOMAIN folders
         /\ folders'[f].place = "archive" /\ folders'[f].docs = folders[f].docs
         /\ folders'[f].forms = folders[f].forms
         /\ \A i \in DOMAIN folders \ {f} : folders'[i] = folders[i]
<1> DEFINE f == work[k].folder
           g == [folders[f] EXCEPT !.place = "archive"]
<1>1. f \in DOMAIN folders
  BY DEF MoveFolder, FolderKnown
<1>2. folders \in Seq(Folder)
  BY DEF ArchiveTypeOK
<1>3. folders[f] \in Folder
  BY <1>1, <1>2, FoldersAre
<1>4. g \in Folder /\ g.place = "archive" /\ g.docs = folders[f].docs
      /\ g.forms = folders[f].forms
  BY <1>3 DEF Folder
<1>5. folders' = [folders EXCEPT ![f] = g]
  BY <1>1, <1>3 DEF MoveFolder, Folder
<1> HIDE DEF g, f
<1>6. /\ folders' \in Seq(Folder) /\ Len(folders') = Len(folders)
      /\ DOMAIN folders' = DOMAIN folders
      /\ folders'[f] = g /\ \A i \in DOMAIN folders \ {f} : folders'[i] = folders[i]
  BY <1>1, <1>2, <1>4, <1>5, FolderPut
<1> QED
  BY <1>1, <1>4, <1>6 DEF f

LEMMA MakeFacts ==
  ASSUME ArchiveTypeOK, NEW k \in Works, MakeFolder(k)
  PROVE  LET f == Len(folders) + 1 IN
         /\ f \notin DOMAIN folders /\ DOMAIN folders' = DOMAIN folders \cup {f}
         /\ folders' \in Seq(Folder) /\ Len(folders') = f /\ f \in 1..MaxFolders
         /\ folders'[f].place = "joining" /\ folders'[f].docs = {}
         /\ \A i \in DOMAIN folders : folders'[i] = folders[i]
<1> DEFINE g == [place |-> "joining", docs |-> {}, forms |-> [x \in Referees |-> << >>]]
<1>1. folders \in Seq(Folder) /\ Len(folders) \in Nat /\ Len(folders) < MaxFolders
      /\ MaxFolders \in Nat
  BY OrdersAssumption, LenProperties DEF ArchiveTypeOK, MakeFolder
<1>2. g \in Folder
  BY DEF Folder
<1>3. folders' = Append(folders, g) /\ g.place = "joining" /\ g.docs = {}
  BY DEF MakeFolder
<1> HIDE DEF g
<1>4. folders' \in Seq(Folder) /\ Len(folders') = Len(folders) + 1
      /\ folders'[Len(folders) + 1] = g /\ \A i \in 1..Len(folders) : folders'[i] = folders[i]
  BY <1>1, <1>2, <1>3, AppendProperties
<1>5. DOMAIN folders = 1..Len(folders) /\ DOMAIN folders' = 1..Len(folders) + 1
  BY <1>1, <1>4, LenProperties
<1> QED
  BY <1>1, <1>3, <1>4, <1>5

(* Where each step leaves the work it is of. *)
LEMMA Begun ==
  ASSUME ArchiveTypeOK, NEW k \in Works, PublicUploadScan(k) \/ StartArchive(k)
  PROVE  /\ work[k].at = "none"
         /\ work' \in [Works -> Work] /\ \A j \in Works \ {k} : work'[j] = work[j]
         /\ PublicUploadScan(k) => work'[k].at = "find" /\ ~work'[k].archive
         /\ StartArchive(k) => /\ work'[k].archive /\ work'[k].url = kept.url
                               /\ work'[k].at = IF kept.url = 0 THEN "find" ELSE "record"
<1>1. work \in [Works -> Work] /\ kept.url \in 0..MaxFolders
  BY DEF ArchiveTypeOK
<1>2. CASE PublicUploadScan(k)
  <2>1. PICK d \in Scans : work' = [work EXCEPT ![k] = [Resting EXCEPT !.at = "find", !.scan = {d}]]
    BY <1>2 DEF PublicUploadScan
  <2>2. [Resting EXCEPT !.at = "find", !.scan = {d}] \in Work
    BY RestingType DEF Work
  <2>3. work'[k] = [Resting EXCEPT !.at = "find", !.scan = {d}]
        /\ work' \in [Works -> Work] /\ \A j \in Works \ {k} : work'[j] = work[j]
    BY <1>1, <2>1, <2>2, WorkPut
  <2>4. work'[k].at = "find" /\ ~work'[k].archive
    BY <2>3, RestingType DEF Work
  <2>5. ASSUME StartArchive(k) PROVE FALSE
    <3> DEFINE w == [Resting EXCEPT !.at = IF kept.url = 0 THEN "find" ELSE "record",
                                    !.archive = TRUE, !.url = kept.url]
    <3>1. work' = [work EXCEPT ![k] = w] /\ w.archive
      BY <2>5, RestingType DEF StartArchive, Work
    <3> HIDE DEF w
    <3> QED
      BY <3>1, <2>4, <1>1
  <2> QED
    BY <1>2, <2>3, <2>4, <2>5 DEF PublicUploadScan
<1>3. CASE StartArchive(k)
  <2> DEFINE w == [Resting EXCEPT !.at = IF kept.url = 0 THEN "find" ELSE "record",
                                  !.archive = TRUE, !.url = kept.url]
  <2>1. work' = [work EXCEPT ![k] = w] /\ work[k].at = "none"
    BY <1>3 DEF StartArchive
  <2>2. w \in Work /\ w.archive /\ w.url = kept.url
        /\ w.at = IF kept.url = 0 THEN "find" ELSE "record"
    BY <1>1, RestingType DEF Work
  <2> HIDE DEF w
  <2>3. work' \in [Works -> Work] /\ work'[k] = w /\ \A j \in Works \ {k} : work'[j] = work[j]
    BY <1>1, <2>1, <2>2, WorkPut
  <2>4. ~PublicUploadScan(k)
    <3>1. w.at \in {"find", "record"} /\ w.archive
      BY <2>2
    <3>2. ASSUME PublicUploadScan(k) PROVE FALSE
      <4>1. PICK d \in Scans :
              work' = [work EXCEPT ![k] = [Resting EXCEPT !.at = "find", !.scan = {d}]]
        BY <3>2 DEF PublicUploadScan
      <4>2. ~work'[k].archive
        BY <1>1, <4>1, RestingType DEF Work
      <4> QED
        BY <4>2, <2>3, <3>1
    <3> QED
      BY <3>2
  <2> QED
    BY <2>1, <2>2, <2>3, <2>4
<1> QED
  BY <1>2, <1>3

LEMMA GotOn ==
  ASSUME ArchiveTypeOK, NEW k \in Works,
         EnsureFolder(k) \/ MakeFolder(k) \/ RenderAllForFiling(k) \/ MoveFolder(k)
  PROVE  /\ work' \in [Works -> Work] /\ \A j \in Works \ {k} : work'[j] = work[j]
         /\ (work'[k].archive <=> work[k].archive)
         /\ EnsureFolder(k) =>
              /\ work[k].at = "find" /\ work'[k].url = work[k].url
              /\ \/ In("joining") = {} /\ work'[k].at = "make"
                 \/ /\ work'[k].at = (IF work[k].archive THEN "list" ELSE "put")
                    /\ work'[k].folder \in In("joining")
         /\ MakeFolder(k) =>
              /\ work[k].at = "make" /\ work'[k].url = work[k].url
              /\ work'[k].at = (IF work[k].archive THEN "list" ELSE "put")
              /\ work'[k].folder = Len(folders) + 1
         /\ RenderAllForFiling(k) =>
              /\ work[k].at = "list" /\ work'[k].url = work[k].url
              /\ work'[k].at = "form" /\ work'[k].folder = work[k].folder
              /\ work'[k].saw = refs /\ work'[k].todo = {x \in Referees : refs[x] # 0}
         /\ MoveFolder(k) =>
              /\ work[k].at = "form" /\ work[k].todo = {}
              /\ work'[k].at = "record" /\ work'[k].url = work[k].folder
<1>t. work \in [Works -> Work] /\ work[k] \in Work /\ refs \in [Referees -> Nat]
      /\ folders \in Seq(Folder) /\ Len(folders) <= MaxFolders
  BY DEF ArchiveTypeOK
<1>1. CASE EnsureFolder(k)
  <2>1. CASE In("joining") = {}
    <3>1. [work[k] EXCEPT !.at = "make"] \in Work
      BY <1>t DEF Work
    <3>2. work' = [work EXCEPT ![k] = [work[k] EXCEPT !.at = "make"]]
      BY <1>1, <2>1, <1>t DEF EnsureFolder, Found, To, Work
    <3> QED
      BY <1>1, <1>t, <2>1, <3>1, <3>2
         DEF EnsureFolder, MakeFolder, RenderAllForFiling, MoveFolder, Work
  <2>2. CASE In("joining") # {}
    <3>1. PICK i \in In("joining") :
            work' = [work EXCEPT ![k] = [work[k] EXCEPT
                       !.at = IF work[k].archive THEN "list" ELSE "put", !.folder = i]]
      BY <1>1, <2>2 DEF EnsureFolder, Found
    <3>2. i \in 0..MaxFolders
      BY <1>t, FoldersAre, OrdersAssumption DEF In
    <3>3. [work[k] EXCEPT !.at = IF work[k].archive THEN "list" ELSE "put", !.folder = i] \in Work
      BY <1>t, <3>2 DEF Work
    <3> QED
      BY <1>1, <1>t, <3>1, <3>3 DEF EnsureFolder, MakeFolder, RenderAllForFiling, MoveFolder, Work
  <2> QED
    BY <2>1, <2>2
<1>2. CASE MakeFolder(k)
  <2>1. Len(folders) + 1 \in 0..MaxFolders
    BY <1>t, <1>2, FoldersAre, OrdersAssumption DEF MakeFolder
  <2> DEFINE w == [work[k] EXCEPT !.at = IF work[k].archive THEN "list" ELSE "put",
                                  !.folder = Len(folders) + 1]
  <2>2. w \in Work
    BY <1>t, <2>1 DEF Work
  <2>3. work' = [work EXCEPT ![k] = w]
    BY <1>2 DEF MakeFolder
  <2> QED
    BY <1>2, <1>t, <2>2, <2>3 DEF EnsureFolder, MakeFolder, RenderAllForFiling, MoveFolder, Work
<1>3. CASE RenderAllForFiling(k)
  <2> DEFINE w == [work[k] EXCEPT !.at = "form", !.saw = refs,
                                  !.todo = {x \in Referees : refs[x] # 0}]
  <2>2. w \in Work
    BY <1>t DEF Work
  <2>3. work' = [work EXCEPT ![k] = w]
    BY <1>3 DEF RenderAllForFiling
  <2>4. w.at = "form" /\ w.url = work[k].url /\ w.folder = work[k].folder /\ w.saw = refs
        /\ w.todo = {x \in Referees : refs[x] # 0} /\ (w.archive <=> work[k].archive)
    BY <1>t DEF Work
  <2> HIDE DEF w
  <2>5. work' \in [Works -> Work] /\ work'[k] = w /\ \A j \in Works \ {k} : work'[j] = work[j]
    BY <1>t, <2>2, <2>3
  <2>6. work[k].at = "list"
    BY <1>3 DEF RenderAllForFiling
  <2> QED
    BY <1>3, <2>4, <2>5, <2>6 DEF EnsureFolder, MakeFolder, MoveFolder
<1>4. CASE MoveFolder(k)
  <2> DEFINE w == [work[k] EXCEPT !.at = "record", !.url = work[k].folder]
  <2>2. w \in Work
    BY <1>t DEF Work
  <2>3. work' = [work EXCEPT ![k] = w]
    BY <1>4 DEF MoveFolder
  <2>4. w.at = "record" /\ w.url = work[k].folder /\ (w.archive <=> work[k].archive)
    BY <1>t DEF Work
  <2> HIDE DEF w
  <2>5. work' \in [Works -> Work] /\ work'[k] = w /\ \A j \in Works \ {k} : work'[j] = work[j]
    BY <1>t, <2>2, <2>3
  <2>6. work[k].at = "form" /\ work[k].todo = {}
    BY <1>4 DEF MoveFolder
  <2> QED
    BY <1>4, <2>4, <2>5, <2>6 DEF EnsureFolder, MakeFolder, RenderAllForFiling
<1> QED
  BY <1>1, <1>2, <1>3, <1>4

LEMMA FormWork ==
  ASSUME ArchiveTypeOK, NEW k \in Works, NEW x \in work[k].todo,
         work' = [work EXCEPT ![k].todo = @ \ {x}]
  PROVE  /\ work' \in [Works -> Work] /\ \A j \in Works \ {k} : work'[j] = work[j]
         /\ work'[k].at = work[k].at /\ (work'[k].archive <=> work[k].archive)
         /\ work'[k].url = work[k].url /\ work'[k].folder = work[k].folder
         /\ work'[k].saw = work[k].saw /\ work'[k].todo = work[k].todo \ {x}
<1>1. work \in [Works -> Work] /\ work[k] \in Work
  BY DEF ArchiveTypeOK
<1>2. [work[k] EXCEPT !.todo = work[k].todo \ {x}] \in Work
  BY <1>1 DEF Work
<1> DEFINE w == [work[k] EXCEPT !.todo = work[k].todo \ {x}]
<1>3. work' = [work EXCEPT ![k] = w]
  BY <1>1 DEF Work
<1>4. w.at = work[k].at /\ (w.archive <=> work[k].archive) /\ w.url = work[k].url
      /\ w.folder = work[k].folder /\ w.saw = work[k].saw /\ w.todo = work[k].todo \ {x}
  BY <1>1 DEF Work
<1> HIDE DEF w
<1> QED
  BY <1>1, <1>2, <1>3, <1>4 DEF w

LEMMA Rested ==
  ASSUME ArchiveTypeOK, NEW k \in Works, work' = [work EXCEPT ![k] = Resting]
  PROVE  /\ work' \in [Works -> Work] /\ work'[k] = Resting
         /\ \A j \in Works \ {k} : work'[j] = work[j]
BY RestingType DEF ArchiveTypeOK

LEMMA GaveUp ==
  ASSUME ArchiveTypeOK, NEW k \in Works, DriveFails(k)
  PROVE  /\ work' \in [Works -> Work] /\ \A j \in Works \ {k} : work'[j] = work[j]
         /\ \/ work'[k] = Resting /\ ~work[k].archive
            \/ /\ work[k].archive /\ work'[k].archive
               /\ work'[k].at = "record" /\ work'[k].url = work[k].url
<1>1. work \in [Works -> Work] /\ work[k] \in Work
  BY DEF ArchiveTypeOK
<1>2. CASE ~work[k].archive
  BY <1>2, Rested DEF DriveFails
<1>3. CASE work[k].archive
  <2>1. [work[k] EXCEPT !.at = "record"] \in Work
    BY <1>1 DEF Work
  <2>2. work' = [work EXCEPT ![k] = [work[k] EXCEPT !.at = "record"]]
    BY <1>3, <1>1 DEF DriveFails, To, Work
  <2> QED
    BY <1>1, <1>3, <2>1, <2>2 DEF Work
<1> QED
  BY <1>2, <1>3

LEMMA KnownHolds ==
  ASSUME FolderKnown, NEW k \in Works, \A j \in Works \ {k} : work'[j] = work[j],
         DOMAIN folders \subseteq DOMAIN folders',
         work'[k].at \in {"put", "list", "form"} => work'[k].folder \in DOMAIN folders',
         work'[k].at \in {"list", "form", "record"} => work'[k].archive
  PROVE  /\ \A j \in Works : work'[j].at \in {"put", "list", "form"} =>
                              work'[j].folder \in DOMAIN folders'
         /\ \A j \in Works : work'[j].at \in {"list", "form", "record"} => work'[j].archive
<1>1. SUFFICES ASSUME NEW j \in Works
      PROVE  /\ work'[j].at \in {"put", "list", "form"} => work'[j].folder \in DOMAIN folders'
             /\ work'[j].at \in {"list", "form", "record"} => work'[j].archive
  OBVIOUS
<1>2. CASE j = k
  BY <1>2
<1>3. CASE j # k
  BY <1>3 DEF FolderKnown
<1> QED
  BY <1>2, <1>3

LEMMA ArchiveTypeStep ==
  ArchiveTypeOK /\ FolderKnown /\ [ArchiveNext]_avars => ArchiveTypeOK' /\ FolderKnown'
<1> SUFFICES ASSUME ArchiveTypeOK, FolderKnown, [ArchiveNext]_avars
             PROVE  ArchiveTypeOK' /\ FolderKnown'
  OBVIOUS
<1>t. /\ folders \in Seq(Folder) /\ Len(folders) <= MaxFolders /\ onRow \subseteq Scans
      /\ refs \in [Referees -> Nat] /\ kept \in [archived : BOOLEAN, url : 0..MaxFolders]
      /\ work \in [Works -> Work] /\ orders \in [Ordered -> Nat]
      /\ late \subseteq Scans /\ since \subseteq Referees /\ unfiled \subseteq Referees
      /\ twins \in BOOLEAN /\ oneByOne \in BOOLEAN
  BY DEF ArchiveTypeOK
<1>f. /\ \A k \in Works : work[k].at \in {"put", "list", "form"} => work[k].folder \in DOMAIN folders
      /\ \A k \in Works : work[k].at \in {"list", "form", "record"} => work[k].archive
      /\ kept.url # 0 => kept.archived
  BY DEF FolderKnown
<1>g. ASSUME /\ folders' \in Seq(Folder) /\ Len(folders') <= MaxFolders /\ onRow' \subseteq Scans
             /\ refs' \in [Referees -> Nat] /\ kept' \in [archived : BOOLEAN, url : 0..MaxFolders]
             /\ work' \in [Works -> Work] /\ orders' \in [Ordered -> Nat]
             /\ late' \subseteq Scans /\ since' \subseteq Referees /\ unfiled' \subseteq Referees
             /\ twins' \in BOOLEAN /\ oneByOne' \in BOOLEAN,
             \A k \in Works : work'[k].at \in {"put", "list", "form"} =>
                                work'[k].folder \in DOMAIN folders',
             \A k \in Works : work'[k].at \in {"list", "form", "record"} => work'[k].archive,
             kept'.url # 0 => kept'.archived
      PROVE  ArchiveTypeOK' /\ FolderKnown'
  BY <1>g DEF ArchiveTypeOK, FolderKnown
<1>o. Ordered = {"upload", "reference", "archive"}
  BY DEF Ordered
<1>1. CASE SaveReference
  <2>1. PICK x \in Referees : refs' = [refs EXCEPT ![x] = @ + 1] /\ since' = since \cup {x}
    BY <1>1 DEF SaveReference
  <2>2. orders' \in [Ordered -> Nat]
    BY <1>1, <1>t, <1>o, OrderType DEF SaveReference
  <2>3. refs' \in [Referees -> Nat] /\ since' \subseteq Referees
    BY <2>1, <1>t
  <2> QED
    BY <1>1, <2>2, <2>3, <1>t, <1>f, <1>g DEF SaveReference
<1>2. CASE RemoveReference
  <2>1. PICK x \in Referees : refs' = [refs EXCEPT ![x] = 0] /\ since' = since \cup {x}
    BY <1>2 DEF RemoveReference
  <2>2. orders' \in [Ordered -> Nat]
    BY <1>2, <1>t, <1>o, OrderType DEF RemoveReference
  <2>3. refs' \in [Referees -> Nat] /\ since' \subseteq Referees
    BY <2>1, <1>t
  <2> QED
    BY <1>2, <2>2, <2>3, <1>t, <1>f, <1>g DEF RemoveReference
<1>3. CASE RestartDrive
  <2>1. work' = [k \in Works |-> Resting] /\ oneByOne' \in BOOLEAN
    BY <1>3 DEF RestartDrive
  <2>2. work' \in [Works -> Work] /\ \A k \in Works : work'[k].at = "none"
    BY <2>1, RestingType
  <2> QED
    BY <1>3, <2>1, <2>2, <1>t, <1>f, <1>g DEF RestartDrive
<1>4. ASSUME NEW k \in Works, PublicUploadScan(k) PROVE ArchiveTypeOK' /\ FolderKnown'
  <2>1. orders' \in [Ordered -> Nat]
    BY <1>4, <1>t, <1>o, OrderType DEF PublicUploadScan
  <2>2. UNCHANGED <<folders, onRow, refs, kept, late, since, unfiled, twins, oneByOne>>
    BY <1>4 DEF PublicUploadScan
  <2>3. /\ work' \in [Works -> Work] /\ \A j \in Works \ {k} : work'[j] = work[j]
        /\ work'[k].at = "find"
    BY <1>4, Begun
  <2>4. /\ \A j \in Works : work'[j].at \in {"put", "list", "form"} =>
                             work'[j].folder \in DOMAIN folders'
        /\ \A j \in Works : work'[j].at \in {"list", "form", "record"} => work'[j].archive
    BY <2>2, <2>3, KnownHolds
  <2> QED
    BY <2>1, <2>2, <2>3, <2>4, <1>t, <1>f, <1>g
<1>5. ASSUME NEW k \in Works, StartArchive(k) PROVE ArchiveTypeOK' /\ FolderKnown'
  <2>1. orders' \in [Ordered -> Nat] /\ oneByOne' \in BOOLEAN
    BY <1>5, <1>t, <1>o, OrderType DEF StartArchive
  <2>2. UNCHANGED <<folders, onRow, refs, kept, late, since, unfiled, twins>>
    BY <1>5 DEF StartArchive
  <2>3. /\ work' \in [Works -> Work] /\ \A j \in Works \ {k} : work'[j] = work[j]
        /\ work'[k].at \in {"find", "record"} /\ work'[k].archive
    BY <1>5, Begun
  <2>4. /\ \A j \in Works : work'[j].at \in {"put", "list", "form"} =>
                             work'[j].folder \in DOMAIN folders'
        /\ \A j \in Works : work'[j].at \in {"list", "form", "record"} => work'[j].archive
    BY <2>2, <2>3, KnownHolds
  <2> QED
    BY <2>1, <2>2, <2>3, <2>4, <1>t, <1>f, <1>g
<1>6. ASSUME NEW k \in Works, EnsureFolder(k) PROVE ArchiveTypeOK' /\ FolderKnown'
  <2>2. UNCHANGED <<folders, onRow, refs, kept, orders, late, since, unfiled, twins, oneByOne>>
    BY <1>6 DEF EnsureFolder
  <2>3. /\ work' \in [Works -> Work] /\ \A j \in Works \ {k} : work'[j] = work[j]
        /\ (work'[k].archive <=> work[k].archive)
        /\ \/ work'[k].at = "make"
           \/ /\ work'[k].at = (IF work[k].archive THEN "list" ELSE "put")
              /\ work'[k].folder \in DOMAIN folders
    BY <1>6, GotOn DEF In
  <2>4. /\ \A j \in Works : work'[j].at \in {"put", "list", "form"} =>
                             work'[j].folder \in DOMAIN folders'
        /\ \A j \in Works : work'[j].at \in {"list", "form", "record"} => work'[j].archive
    BY <2>2, <2>3, <1>6, KnownHolds
  <2> QED
    BY <2>2, <2>3, <2>4, <1>t, <1>f, <1>g
<1>7. ASSUME NEW k \in Works, MakeFolder(k) PROVE ArchiveTypeOK' /\ FolderKnown'
  <2>1. UNCHANGED <<onRow, refs, kept, orders, late, since, unfiled, oneByOne>>
        /\ twins' \in BOOLEAN
    BY <1>7, <1>t DEF MakeFolder
  <2>2. /\ work' \in [Works -> Work] /\ \A j \in Works \ {k} : work'[j] = work[j]
        /\ (work'[k].archive <=> work[k].archive)
        /\ work'[k].at = (IF work[k].archive THEN "list" ELSE "put")
        /\ work'[k].folder = Len(folders) + 1
    BY <1>7, GotOn
  <2>3. folders' \in Seq(Folder) /\ Len(folders') <= MaxFolders
        /\ DOMAIN folders' = DOMAIN folders \cup {Len(folders) + 1}
    <3>1. /\ folders' \in Seq(Folder) /\ Len(folders') \in 1..MaxFolders
          /\ DOMAIN folders' = DOMAIN folders \cup {Len(folders) + 1}
      BY <1>7, MakeFacts
    <3> QED
      BY <3>1, OrdersAssumption
  <2>4. /\ \A j \in Works : work'[j].at \in {"put", "list", "form"} =>
                             work'[j].folder \in DOMAIN folders'
        /\ \A j \in Works : work'[j].at \in {"list", "form", "record"} => work'[j].archive
    BY <2>2, <2>3, KnownHolds
  <2> QED
    BY <2>1, <2>2, <2>3, <2>4, <1>t, <1>f, <1>g
<1>8. ASSUME NEW k \in Works, PutScan(k) PROVE ArchiveTypeOK' /\ FolderKnown'
  <2>1. UNCHANGED <<refs, kept, orders, since, unfiled, twins, oneByOne>>
        /\ onRow' = onRow \cup work[k].scan /\ late' \subseteq late \cup work[k].scan
    BY <1>8 DEF PutScan
  <2>2. /\ work' \in [Works -> Work] /\ \A j \in Works \ {k} : work'[j] = work[j]
        /\ work'[k].at = "none"
    BY <1>8, Rested, RestingType DEF PutScan
  <2>3. folders' \in Seq(Folder) /\ Len(folders') = Len(folders)
        /\ DOMAIN folders' = DOMAIN folders
    BY <1>8, PutFacts
  <2>4. /\ \A j \in Works : work'[j].at \in {"put", "list", "form"} =>
                             work'[j].folder \in DOMAIN folders'
        /\ \A j \in Works : work'[j].at \in {"list", "form", "record"} => work'[j].archive
    BY <2>2, <2>3, KnownHolds
  <2>5. work[k].scan \subseteq Scans
    BY <1>t DEF Work
  <2> QED
    BY <2>1, <2>2, <2>3, <2>4, <2>5, <1>t, <1>f, <1>g
<1>9. ASSUME NEW k \in Works, RenderAllForFiling(k) PROVE ArchiveTypeOK' /\ FolderKnown'
  <2>1. UNCHANGED <<folders, onRow, refs, kept, orders, late, twins, oneByOne>>
        /\ since' = {} /\ unfiled' = {}
    BY <1>9 DEF RenderAllForFiling
  <2>2. /\ work' \in [Works -> Work] /\ \A j \in Works \ {k} : work'[j] = work[j]
        /\ (work'[k].archive <=> work[k].archive) /\ work'[k].at = "form"
        /\ work'[k].folder = work[k].folder /\ work[k].at = "list"
    BY <1>9, GotOn
  <2>4. /\ \A j \in Works : work'[j].at \in {"put", "list", "form"} =>
                             work'[j].folder \in DOMAIN folders'
        /\ \A j \in Works : work'[j].at \in {"list", "form", "record"} => work'[j].archive
    BY <2>1, <2>2, <1>f, KnownHolds
  <2> QED
    BY <2>1, <2>2, <2>4, <1>t, <1>f, <1>g
<1>10. ASSUME NEW k \in Works, FileForm(k) PROVE ArchiveTypeOK' /\ FolderKnown'
  <2>1. PICK x \in work[k].todo :
          /\ work[k].at = "form" /\ work' = [work EXCEPT ![k].todo = @ \ {x}]
          /\ \/ /\ folders' = [folders EXCEPT ![work[k].folder].forms[x] = Append(@, work[k].saw[x])]
                /\ UNCHANGED unfiled
             \/ unfiled' = unfiled \cup {x} /\ UNCHANGED folders
          /\ UNCHANGED <<onRow, refs, kept, orders, late, since, twins, oneByOne>>
    BY <1>10 DEF FileForm
  <2>2. x \in Referees
    BY <1>t DEF Work
  <2>3. /\ work' \in [Works -> Work] /\ \A j \in Works \ {k} : work'[j] = work[j]
        /\ (work'[k].archive <=> work[k].archive) /\ work'[k].at = "form"
        /\ work'[k].folder = work[k].folder
    BY <2>1, FormWork
  <2>4. \A j \in Works : j = k \/ j \in Works \ {k}
    OBVIOUS
  <2>5. CASE unfiled' = unfiled \cup {x} /\ UNCHANGED folders
    BY <2>1, <2>2, <2>3, <2>4, <2>5, <1>t, <1>f, <1>g
  <2>6. CASE folders' = [folders EXCEPT ![work[k].folder].forms[x] = Append(@, work[k].saw[x])]
             /\ UNCHANGED unfiled
    <3>1. folders' \in Seq(Folder) /\ Len(folders') = Len(folders)
          /\ DOMAIN folders' = DOMAIN folders
      BY <2>1, <2>2, <2>6, FileFacts
    <3> QED
      BY <2>1, <2>3, <2>4, <2>6, <3>1, <1>t, <1>f, <1>g
  <2> QED
    BY <2>1, <2>5, <2>6
<1>11. ASSUME NEW k \in Works, MoveFolder(k) PROVE ArchiveTypeOK' /\ FolderKnown'
  <2>1. UNCHANGED <<onRow, refs, kept, orders, late, since, unfiled, twins, oneByOne>>
    BY <1>11 DEF MoveFolder
  <2>2. /\ work' \in [Works -> Work] /\ \A j \in Works \ {k} : work'[j] = work[j]
        /\ (work'[k].archive <=> work[k].archive) /\ work'[k].at = "record" /\ work[k].at = "form"
    BY <1>11, GotOn
  <2>3. folders' \in Seq(Folder) /\ Len(folders') = Len(folders)
        /\ DOMAIN folders' = DOMAIN folders
    BY <1>11, MoveFacts
  <2>4. /\ \A j \in Works : work'[j].at \in {"put", "list", "form"} =>
                             work'[j].folder \in DOMAIN folders'
        /\ \A j \in Works : work'[j].at \in {"list", "form", "record"} => work'[j].archive
    BY <2>2, <2>3, <1>f, KnownHolds
  <2> QED
    BY <2>1, <2>2, <2>3, <2>4, <1>t, <1>f, <1>g
<1>12. ASSUME NEW k \in Works, DriveFails(k) PROVE ArchiveTypeOK' /\ FolderKnown'
  <2>1. UNCHANGED <<folders, onRow, refs, kept, orders, late, since, unfiled, twins, oneByOne>>
    BY <1>12 DEF DriveFails
  <2>2. /\ work' \in [Works -> Work] /\ \A j \in Works \ {k} : work'[j] = work[j]
        /\ \/ work'[k].at = "none"
           \/ work'[k].at = "record" /\ work'[k].archive
    BY <1>12, GaveUp, RestingType
  <2>4. /\ \A j \in Works : work'[j].at \in {"put", "list", "form"} =>
                             work'[j].folder \in DOMAIN folders'
        /\ \A j \in Works : work'[j].at \in {"list", "form", "record"} => work'[j].archive
    BY <2>1, <2>2, KnownHolds
  <2> QED
    BY <2>1, <2>2, <2>4, <1>t, <1>f, <1>g
<1>13. ASSUME NEW k \in Works, RecordArchive(k) PROVE ArchiveTypeOK' /\ FolderKnown'
  <2>1. UNCHANGED <<folders, onRow, refs, orders, late, since, unfiled, twins, oneByOne>>
        /\ kept' = [archived |-> TRUE, url |-> work[k].url]
    BY <1>13 DEF RecordArchive
  <2>2. /\ work' \in [Works -> Work] /\ \A j \in Works \ {k} : work'[j] = work[j]
        /\ work'[k].at = "none"
    BY <1>13, Rested, RestingType DEF RecordArchive
  <2>3. kept' \in [archived : BOOLEAN, url : 0..MaxFolders] /\ kept'.archived
    BY <2>1, <1>t DEF Work
  <2>4. /\ \A j \in Works : work'[j].at \in {"put", "list", "form"} =>
                             work'[j].folder \in DOMAIN folders'
        /\ \A j \in Works : work'[j].at \in {"list", "form", "record"} => work'[j].archive
    BY <2>1, <2>2, KnownHolds
  <2> QED
    BY <2>1, <2>2, <2>3, <2>4, <1>t, <1>f, <1>g
<1>14. CASE UNCHANGED avars
  BY <1>14, <1>t, <1>f, <1>g DEF avars
<1> QED
  BY <1>1, <1>2, <1>3, <1>4, <1>5, <1>6, <1>7, <1>8, <1>9, <1>10, <1>11, <1>12, <1>13, <1>14
     DEF ArchiveNext

(* The history is not taken back. *)
LEMMA Afterwards ==
  ASSUME ArchiveTypeOK, [ArchiveNext]_avars
  PROVE  (oneByOne' => oneByOne) /\ (~twins' => ~twins)
<1>t. oneByOne \in BOOLEAN /\ twins \in BOOLEAN
  BY DEF ArchiveTypeOK
<1>1. CASE SaveReference \/ RemoveReference \/ UNCHANGED avars
  BY <1>1 DEF SaveReference, RemoveReference, avars
<1>2. CASE RestartDrive
  BY <1>2, <1>t DEF RestartDrive
<1>3. ASSUME NEW k \in Works, PublicUploadScan(k) \/ EnsureFolder(k)
      PROVE  (oneByOne' => oneByOne) /\ (~twins' => ~twins)
  <2>1. UNCHANGED <<oneByOne, twins>>
    BY <1>3 DEF PublicUploadScan, EnsureFolder
  <2> QED
    BY <2>1
<1>4. ASSUME NEW k \in Works, MakeFolder(k) PROVE (oneByOne' => oneByOne) /\ (~twins' => ~twins)
  <2>1. UNCHANGED oneByOne /\ twins' = (twins \/ \E j \in Works \ {k} : work[j].at = "make")
    BY <1>4 DEF MakeFolder
  <2> QED
    BY <1>t, <2>1
<1>5. ASSUME NEW k \in Works, StartArchive(k) PROVE (oneByOne' => oneByOne) /\ (~twins' => ~twins)
  <2>1. UNCHANGED twins /\ oneByOne' = (oneByOne /\ Archiving = {})
    BY <1>5 DEF StartArchive
  <2> QED
    BY <1>t, <2>1
<1>6. ASSUME NEW k \in Works, PutScan(k) \/ RenderAllForFiling(k) \/ FileForm(k)
      PROVE  (oneByOne' => oneByOne) /\ (~twins' => ~twins)
  <2>1. UNCHANGED <<oneByOne, twins>>
    BY <1>6 DEF PutScan, RenderAllForFiling, FileForm
  <2> QED
    BY <2>1
<1>7. ASSUME NEW k \in Works, MoveFolder(k) \/ DriveFails(k) \/ RecordArchive(k)
      PROVE  (oneByOne' => oneByOne) /\ (~twins' => ~twins)
  <2>1. UNCHANGED <<oneByOne, twins>>
    BY <1>7 DEF MoveFolder, DriveFails, RecordArchive
  <2> QED
    BY <2>1
<1> QED
  BY <1>1, <1>2, <1>3, <1>4, <1>5, <1>6, <1>7 DEF ArchiveNext

(* One archiving at a time. *)
LEMMA OneArchivingStep ==
  ArchiveTypeOK /\ FolderKnown /\ OneArchiving /\ [ArchiveNext]_avars => OneArchiving'
<1> SUFFICES ASSUME ArchiveTypeOK, FolderKnown, OneArchiving, [ArchiveNext]_avars, oneByOne'
             PROVE  /\ \A j, i \in Archiving' : j = i
                    /\ \A j \in Archiving' : work'[j].url # 0 => work'[j].at = "record"
                    /\ kept'.url # 0 =>
                         \A j \in Archiving' : work'[j].at = "record" /\ work'[j].url = kept'.url
  BY DEF OneArchiving
<1> DEFINE Goal == /\ \A j, i \in Archiving' : j = i
                   /\ \A j \in Archiving' : work'[j].url # 0 => work'[j].at = "record"
                   /\ kept'.url # 0 =>
                        \A j \in Archiving' : work'[j].at = "record" /\ work'[j].url = kept'.url
           Were == /\ \A j, i \in Archiving : j = i
                   /\ \A j \in Archiving : work[j].url # 0 => work[j].at = "record"
                   /\ kept.url # 0 =>
                        \A j \in Archiving : work[j].at = "record" /\ work[j].url = kept.url
<1>h. oneByOne => Were
  BY DEF OneArchiving
<1>a. ASSUME NEW k \in Works, Were, kept' = kept, \A j \in Works \ {k} : work'[j] = work[j],
             k \in Archiving' =>
               /\ k \in Archiving
               /\ work'[k].url # 0 => work'[k].at = "record"
               /\ kept'.url # 0 => work'[k].at = "record" /\ work'[k].url = kept'.url
      PROVE  Goal
  <2>1. \A j \in Archiving' : j \in Works /\ j \in Archiving /\ (j = k \/ work'[j] = work[j])
    BY <1>a DEF Archiving
  <2> QED
    BY <1>a, <2>1
<1>1. CASE SaveReference \/ RemoveReference \/ UNCHANGED avars
  <2>1. UNCHANGED <<work, kept, oneByOne>>
    BY <1>1 DEF SaveReference, RemoveReference, avars
  <2>2. Archiving' = Archiving
    BY <2>1 DEF Archiving
  <2> QED
    BY <1>h, <2>1, <2>2
<1>2. CASE RestartDrive
  <2>1. Archiving' = {}
    BY <1>2, RestingType DEF RestartDrive, Archiving
  <2> QED
    BY <2>1
<1>3. ASSUME NEW k \in Works, PublicUploadScan(k) PROVE Goal
  <2>1. k \notin Archiving'
    BY <1>3, Begun DEF Archiving
  <2>2. oneByOne /\ kept' = kept
    BY <1>3 DEF PublicUploadScan
  <2> QED
    BY <1>3, <1>h, <1>a, <2>1, <2>2, Begun
<1>4. ASSUME NEW k \in Works, StartArchive(k) PROVE Goal
  <2>1. /\ Archiving = {} /\ kept' = kept /\ work'[k].url = kept.url
        /\ work'[k].at = IF kept.url = 0 THEN "find" ELSE "record"
        /\ \A j \in Works \ {k} : work'[j] = work[j]
    BY <1>4, Begun DEF StartArchive
  <2>2. \A j \in Archiving' : j = k
    BY <2>1 DEF Archiving
  <2> QED
    BY <2>1, <2>2
<1>5. ASSUME NEW k \in Works, EnsureFolder(k) \/ MakeFolder(k) \/ RenderAllForFiling(k)
      PROVE  Goal
  <2>1. /\ \A j \in Works \ {k} : work'[j] = work[j]
        /\ (work'[k].archive <=> work[k].archive)
        /\ work[k].at \in {"find", "make", "list"} /\ work'[k].url = work[k].url
    BY <1>5, GotOn
  <2>2. oneByOne /\ kept' = kept
    BY <1>5 DEF EnsureFolder, MakeFolder, RenderAllForFiling
  <2>3. k \in Archiving' => k \in Archiving
    BY <2>1 DEF Archiving
  <2>4. k \in Archiving => work'[k].url = 0 /\ kept'.url = 0
    BY <1>h, <2>1, <2>2
  <2> QED
    BY <1>h, <1>a, <2>1, <2>2, <2>3, <2>4
<1>6. ASSUME NEW k \in Works, MoveFolder(k) PROVE Goal
  <2>1. /\ \A j \in Works \ {k} : work'[j] = work[j]
        /\ work[k].at = "form" /\ work'[k].at = "record"
    BY <1>6, GotOn
  <2>2. oneByOne /\ kept' = kept
    BY <1>6 DEF MoveFolder
  <2>3. k \in Archiving
    BY <2>1 DEF Archiving, FolderKnown
  <2>4. kept.url = 0
    BY <1>h, <2>1, <2>2, <2>3
  <2> QED
    BY <1>h, <1>a, <2>1, <2>2, <2>3, <2>4
<1>7. ASSUME NEW k \in Works, FileForm(k) PROVE Goal
  <2>1. /\ \A j \in Works \ {k} : work'[j] = work[j]
        /\ work'[k].at = work[k].at /\ (work'[k].archive <=> work[k].archive)
        /\ work'[k].url = work[k].url
    BY <1>7, FormWork DEF FileForm
  <2>2. oneByOne /\ kept' = kept
    BY <1>7 DEF FileForm
  <2>3. k \in Archiving' => k \in Archiving
    BY <2>1 DEF Archiving
  <2> QED
    BY <1>h, <1>a, <2>1, <2>2, <2>3
<1>8. ASSUME NEW k \in Works, DriveFails(k) PROVE Goal
  <2>1. /\ \A j \in Works \ {k} : work'[j] = work[j]
        /\ \/ work'[k] = Resting
           \/ /\ work[k].archive /\ work'[k].at = "record" /\ work'[k].url = work[k].url
        /\ work[k].at \in {"find", "make", "put", "form"}
    BY <1>8, GaveUp DEF DriveFails
  <2>2. oneByOne /\ kept' = kept
    BY <1>8 DEF DriveFails
  <2>3. k \in Archiving' => k \in Archiving /\ work'[k].at = "record"
    BY <2>1, RestingType DEF Archiving
  <2>4. k \in Archiving => kept.url = 0
    BY <1>h, <2>1, <2>2
  <2> QED
    BY <1>h, <1>a, <2>1, <2>2, <2>3, <2>4
<1>9. ASSUME NEW k \in Works, PutScan(k) PROVE Goal
  <2>1. /\ \A j \in Works \ {k} : work'[j] = work[j]
        /\ k \notin Archiving'
    BY <1>9, Rested, RestingType DEF PutScan, Archiving
  <2>2. oneByOne /\ kept' = kept
    BY <1>9 DEF PutScan
  <2> QED
    BY <1>h, <1>a, <2>1, <2>2
<1>10. ASSUME NEW k \in Works, RecordArchive(k) PROVE Goal
  <2>1. /\ \A j \in Works \ {k} : work'[j] = work[j]
        /\ work'[k].at = "none" /\ work[k].at = "record" /\ oneByOne
    BY <1>10, Rested, RestingType DEF RecordArchive
  <2>2. k \in Archiving
    BY <2>1 DEF Archiving, FolderKnown
  <2>3. Archiving' = {}
    <3>1. \A j \in Archiving' : j \in Archiving /\ j # k
      BY <2>1 DEF Archiving
    <3> QED
      BY <1>h, <2>1, <2>2, <3>1
  <2> QED
    BY <2>3
<1> QED
  BY <1>1, <1>2, <1>3, <1>4, <1>5, <1>6, <1>7, <1>8, <1>9, <1>10 DEF ArchiveNext

(* While one looks for the folder or has it, nothing has been archived. *)
LEMMA NoneFiled ==
  ASSUME FolderKnown, OneArchiving, oneByOne, NEW k \in Works,
         work[k].at \in {"list", "form"}
  PROVE  /\ k \in Archiving /\ kept.url = 0 /\ work[k].url = 0
         /\ \A j \in Archiving : j = k
         /\ Filed \ {0} = {}
<1>1. k \in Archiving
  BY DEF Archiving, FolderKnown
<1>2. /\ \A j \in Archiving : j = k
      /\ work[k].url = 0 /\ kept.url = 0
  BY <1>1 DEF OneArchiving
<1> QED
  BY <1>1, <1>2 DEF Filed

(* Only moving the folder archives one. *)
LEMMA FiledNext ==
  ASSUME ArchiveTypeOK, FolderKnown, OneArchiving, [ArchiveNext]_avars, oneByOne'
  PROVE  \/ Filed' \ {0} = Filed \ {0}
         \/ \E k \in Works : MoveFolder(k)
<1>o. oneByOne
  BY Afterwards
<1>h. /\ \A j, i \in Archiving : j = i
      /\ \A j \in Archiving : work[j].url # 0 => work[j].at = "record"
      /\ kept.url # 0 => \A j \in Archiving : work[j].at = "record" /\ work[j].url = kept.url
  BY <1>o DEF OneArchiving
<1>f. \A x : x \in Filed <=> x = kept.url \/ \E j \in Archiving : x = work[j].url
  BY DEF Filed
<1>g. \A x : x \in Filed' <=> x = kept'.url \/ \E j \in Archiving' : x = work'[j].url
  BY DEF Filed
<1>a. ASSUME NEW k \in Works, kept' = kept, \A j \in Works \ {k} : work'[j] = work[j],
             k \in Archiving => work[k].url = 0 \/ (k \in Archiving' /\ work'[k].url = work[k].url),
             k \in Archiving' => work'[k].url = kept.url \/ (k \in Archiving /\ work'[k].url = work[k].url)
      PROVE  Filed' \ {0} = Filed \ {0}
  <2>1. \A j \in Works \ {k} : j \in Archiving <=> j \in Archiving'
    BY <1>a DEF Archiving
  <2>2. Archiving \subseteq Works /\ Archiving' \subseteq Works
    BY DEF Archiving
  <2>3. ASSUME NEW x, x # 0, x \in Filed PROVE x \in Filed'
    <3>1. CASE x = kept.url
      BY <3>1, <1>a, <1>g
    <3>2. ASSUME NEW j \in Archiving, x = work[j].url PROVE x \in Filed'
      <4>1. CASE j = k
        BY <4>1, <3>2, <2>3, <1>a, <1>g
      <4>2. CASE j # k
        BY <4>2, <3>2, <2>1, <2>2, <1>a, <1>g
      <4> QED
        BY <4>1, <4>2
    <3> QED
      BY <3>1, <3>2, <2>3, <1>f
  <2>4. ASSUME NEW x, x # 0, x \in Filed' PROVE x \in Filed
    <3>1. CASE x = kept'.url
      BY <3>1, <1>a, <1>f
    <3>2. ASSUME NEW j \in Archiving', x = work'[j].url PROVE x \in Filed
      <4>1. CASE j = k
        BY <4>1, <3>2, <2>4, <1>a, <1>f
      <4>2. CASE j # k
        BY <4>2, <3>2, <2>1, <2>2, <1>a, <1>f
      <4> QED
        BY <4>1, <4>2
    <3> QED
      BY <3>1, <3>2, <2>4, <1>g
  <2> QED
    BY <2>3, <2>4
<1>1. CASE SaveReference \/ RemoveReference \/ UNCHANGED avars
  <2>1. UNCHANGED <<work, kept>>
    BY <1>1 DEF SaveReference, RemoveReference, avars
  <2> QED
    BY <2>1 DEF Filed, Archiving
<1>2. CASE RestartDrive
  <2>1. /\ Archiving' = {} /\ kept' = kept
        /\ \A j \in Archiving : work[j].url = kept.url
    BY <1>2, RestingType DEF RestartDrive, Archiving, ArchiveTypeOK
  <2> QED
    BY <2>1, <1>f, <1>g
<1>3. ASSUME NEW k \in Works, PublicUploadScan(k) PROVE Filed' \ {0} = Filed \ {0}
  <2>1. k \notin Archiving' /\ k \notin Archiving /\ \A j \in Works \ {k} : work'[j] = work[j]
    BY <1>3, Begun DEF Archiving
  <2> QED
    BY <1>3, <1>a, <2>1 DEF PublicUploadScan
<1>4. ASSUME NEW k \in Works, StartArchive(k) PROVE Filed' \ {0} = Filed \ {0}
  <2>1. /\ k \notin Archiving /\ work'[k].url = kept.url
        /\ \A j \in Works \ {k} : work'[j] = work[j]
    BY <1>4, Begun DEF Archiving
  <2> QED
    BY <1>4, <1>a, <2>1 DEF StartArchive
<1>5. ASSUME NEW k \in Works, EnsureFolder(k) \/ MakeFolder(k) \/ RenderAllForFiling(k)
      PROVE  Filed' \ {0} = Filed \ {0}
  <2>1. /\ \A j \in Works \ {k} : work'[j] = work[j]
        /\ (work'[k].archive <=> work[k].archive) /\ work'[k].url = work[k].url
        /\ work[k].at \in {"find", "make", "list"}
        /\ work'[k].at \in {"make", "list", "put", "form"}
    BY <1>5, GotOn
  <2>2. k \in Archiving <=> k \in Archiving'
    BY <2>1 DEF Archiving
  <2>3. kept' = kept
    BY <1>5 DEF EnsureFolder, MakeFolder, RenderAllForFiling
  <2> QED
    BY <1>a, <2>1, <2>2, <2>3
<1>6. ASSUME NEW k \in Works, FileForm(k) PROVE Filed' \ {0} = Filed \ {0}
  <2>1. /\ \A j \in Works \ {k} : work'[j] = work[j]
        /\ work'[k].at = work[k].at /\ (work'[k].archive <=> work[k].archive)
        /\ work'[k].url = work[k].url
    BY <1>6, FormWork DEF FileForm
  <2>2. k \in Archiving <=> k \in Archiving'
    BY <2>1 DEF Archiving
  <2>3. kept' = kept
    BY <1>6 DEF FileForm
  <2> QED
    BY <1>a, <2>1, <2>2, <2>3
<1>7. ASSUME NEW k \in Works, DriveFails(k) PROVE Filed' \ {0} = Filed \ {0}
  <2>1. \A j \in Works \ {k} : work'[j] = work[j]
    BY <1>7, GaveUp
  <2>2. \/ k \notin Archiving /\ k \notin Archiving'
        \/ k \in Archiving' /\ k \in Archiving /\ work'[k].url = work[k].url
    BY <1>7, GaveUp, RestingType DEF DriveFails, Archiving
  <2>3. kept' = kept
    BY <1>7 DEF DriveFails
  <2> QED
    BY <1>a, <2>1, <2>2, <2>3
<1>8. ASSUME NEW k \in Works, PutScan(k) PROVE Filed' \ {0} = Filed \ {0}
  <2>1. /\ \A j \in Works \ {k} : work'[j] = work[j]
        /\ k \notin Archiving' /\ work[k].at = "put"
    BY <1>8, Rested, RestingType DEF PutScan, Archiving
  <2>2. k \in Archiving => work[k].url = 0
    BY <1>h, <2>1
  <2>3. kept' = kept
    BY <1>8 DEF PutScan
  <2> QED
    BY <1>a, <2>1, <2>2, <2>3
<1>9. ASSUME NEW k \in Works, RecordArchive(k) PROVE Filed' \ {0} = Filed \ {0}
  <2>1. /\ \A j \in Works \ {k} : work'[j] = work[j]
        /\ work'[k].at = "none" /\ work[k].at = "record" /\ kept'.url = work[k].url
    BY <1>9, Rested, RestingType DEF RecordArchive
  <2>2. k \in Archiving
    BY <2>1 DEF Archiving, FolderKnown
  <2>3. Archiving' = {}
    <3>1. \A j \in Archiving' : j \in Archiving /\ j # k
      BY <2>1 DEF Archiving
    <3> QED
      BY <1>h, <2>2, <3>1
  <2>4. kept.url # 0 => work[k].url = kept.url
    BY <1>h, <2>2
  <2>5. \A j \in Archiving : j = k
    BY <1>h, <2>2
  <2> QED
    BY <2>1, <2>2, <2>3, <2>4, <2>5, <1>f, <1>g
<1>10. CASE \E k \in Works : MoveFolder(k)
  BY <1>10
<1> QED
  BY <1>1, <1>2, <1>3, <1>4, <1>5, <1>6, <1>7, <1>8, <1>9, <1>10 DEF ArchiveNext

(* One folder of joining documents, and the archived ones. *)
LEMMA OneFolderStep ==
  /\ ArchiveTypeOK /\ FolderKnown /\ OneArchiving /\ OneFolder
  /\ [ArchiveNext]_avars
  => OneFolder'
<1> SUFFICES ASSUME ArchiveTypeOK, FolderKnown, OneArchiving, OneFolder, [ArchiveNext]_avars,
                    oneByOne', ~twins'
             PROVE  OneFolder'
  BY DEF OneFolder
<1>o. oneByOne /\ ~twins
  BY Afterwards
<1>h. /\ (\E k \in Works : work[k].at = "make") => In("joining") = {}
      /\ \A i, j \in In("joining") : i = j
      /\ In("archive") = Filed \ {0}
      /\ \A k \in Works : work[k].at \in {"list", "form"} => work[k].folder \in In("joining")
  BY <1>o DEF OneFolder
<1>u. \A k \in Works, j \in Works : work[k].at \in {"list", "form"}
        /\ work[j].at \in {"list", "form"} => j = k
  BY <1>o, NoneFiled
<1>q. ASSUME (\E k \in Works : work'[k].at = "make") => In("joining")' = {},
             \A i, j \in In("joining")' : i = j,
             In("archive")' = Filed' \ {0},
             \A k \in Works : work'[k].at \in {"list", "form"} => work'[k].folder \in In("joining")'
      PROVE  OneFolder'
  BY <1>q DEF OneFolder
<1>a. ASSUME NEW k \in Works, \A j \in Works \ {k} : work'[j] = work[j],
             In("joining")' = In("joining"), In("archive")' = In("archive"), ~MoveFolder(k),
             \A j \in Works : MoveFolder(j) => j = k,
             work'[k].at = "make" => In("joining") = {},
             work'[k].at \in {"list", "form"} => work'[k].folder \in In("joining")
      PROVE  OneFolder'
  <2>1. Filed' \ {0} = Filed \ {0}
    BY <1>a, FiledNext
  <2>2. (\E j \in Works : work'[j].at = "make") => In("joining")' = {}
    <3>1. SUFFICES ASSUME NEW j \in Works, work'[j].at = "make" PROVE In("joining") = {}
      BY <1>a
    <3>2. CASE j = k
      BY <3>1, <3>2, <1>a
    <3>3. CASE j # k
      BY <3>1, <3>3, <1>a, <1>h
    <3> QED
      BY <3>2, <3>3
  <2>3. \A j \in Works : work'[j].at \in {"list", "form"} => work'[j].folder \in In("joining")'
    <3>1. SUFFICES ASSUME NEW j \in Works, work'[j].at \in {"list", "form"}
                   PROVE  work'[j].folder \in In("joining")
      BY <1>a
    <3>2. CASE j = k
      BY <3>1, <3>2, <1>a
    <3>3. CASE j # k
      BY <3>1, <3>3, <1>a, <1>h
    <3> QED
      BY <3>2, <3>3
  <2> QED
    BY <1>a, <1>h, <1>q, <2>1, <2>2, <2>3
<1>s. folders' = folders => In("joining")' = In("joining") /\ In("archive")' = In("archive")
  BY DEF In
<1>v. ASSUME NEW k \in Works, work[k].at # work'[k].at, ~MoveFolder(k)
      PROVE  \A j \in Works : ~MoveFolder(j)
  <2>1. SUFFICES ASSUME NEW j \in Works, MoveFolder(j) PROVE FALSE
    OBVIOUS
  <2>2. k # j /\ \A i \in Works \ {j} : work'[i] = work[i]
    BY <1>v, <2>1, GotOn
  <2> QED
    BY <1>v, <2>2
<1>1. CASE SaveReference \/ RemoveReference \/ UNCHANGED avars
  <2>1. UNCHANGED <<work, kept, folders>>
    BY <1>1 DEF SaveReference, RemoveReference, avars
  <2>2. Filed' = Filed
    BY <2>1 DEF Filed, Archiving
  <2> QED
    BY <2>1, <2>2, <1>h, <1>q, <1>s
<1>2. CASE RestartDrive
  <2>1. folders' = folders /\ \A k \in Works : work'[k].at = "none"
    BY <1>2, RestingType DEF RestartDrive
  <2>2. \A k \in Works : ~MoveFolder(k)
    <3>1. SUFFICES ASSUME NEW k \in Works, MoveFolder(k) PROVE FALSE
      OBVIOUS
    <3>2. work'[k].at = "record"
      BY <3>1, GotOn
    <3> QED
      BY <2>1, <3>2
  <2>3. Filed' \ {0} = Filed \ {0}
    BY <2>2, FiledNext
  <2> QED
    BY <2>1, <2>3, <1>h, <1>q, <1>s
<1>3. ASSUME NEW k \in Works, PublicUploadScan(k) \/ StartArchive(k) PROVE OneFolder'
  <2>1. /\ \A j \in Works \ {k} : work'[j] = work[j]
        /\ work[k].at = "none" /\ work'[k].at \in {"find", "record"}
    BY <1>3, Begun
  <2>2. folders' = folders
    BY <1>3 DEF PublicUploadScan, StartArchive
  <2>3. ~MoveFolder(k)
    BY <2>1 DEF MoveFolder
  <2>4. \A j \in Works : ~MoveFolder(j)
    BY <2>1, <2>3, <1>v
  <2> QED
    BY <1>a, <1>s, <2>1, <2>2, <2>4
<1>4. ASSUME NEW k \in Works, EnsureFolder(k) PROVE OneFolder'
  <2>1. /\ \A j \in Works \ {k} : work'[j] = work[j]
        /\ work[k].at = "find"
        /\ \/ In("joining") = {} /\ work'[k].at = "make"
           \/ work'[k].at \in {"list", "put"} /\ work'[k].folder \in In("joining")
    BY <1>4, GotOn
  <2>2. folders' = folders
    BY <1>4 DEF EnsureFolder
  <2>3. ~MoveFolder(k)
    BY <2>1 DEF MoveFolder
  <2>4. \A j \in Works : ~MoveFolder(j)
    BY <2>1, <2>3, <1>v
  <2> QED
    BY <1>a, <1>s, <2>1, <2>2, <2>4
<1>5. ASSUME NEW k \in Works, MakeFolder(k) PROVE OneFolder'
  <2> DEFINE f == Len(folders) + 1
  <2>1. /\ \A j \in Works \ {k} : work'[j] = work[j]
        /\ work[k].at = "make" /\ work'[k].at \in {"list", "put"} /\ work'[k].folder = f
    BY <1>5, GotOn
  <2>2. /\ f \notin DOMAIN folders /\ DOMAIN folders' = DOMAIN folders \cup {f}
        /\ folders'[f].place = "joining"
        /\ \A i \in DOMAIN folders : folders'[i] = folders[i]
    BY <1>5, MakeFacts
  <2> HIDE DEF f
  <2>3. In("joining") = {}
    BY <2>1, <1>h
  <2>4. In("joining")' = {f} /\ In("archive")' = In("archive")
    BY <2>2, <2>3 DEF In
  <2>5. ~MoveFolder(k)
    BY <2>1 DEF MoveFolder
  <2>6. Filed' \ {0} = Filed \ {0}
    BY <2>1, <2>5, <1>v, FiledNext
  <2>7. \A j \in Works \ {k} : work[j].at # "make"
    BY <1>5, <1>o DEF MakeFolder
  <2>8. ~ \E j \in Works : work'[j].at = "make"
    BY <2>1, <2>7
  <2>9. \A j \in Works : work'[j].at \in {"list", "form"} => work'[j].folder = f
    BY <2>1, <2>3, <1>h
  <2> QED
    BY <1>h, <1>q, <2>4, <2>6, <2>8, <2>9
<1>6. ASSUME NEW k \in Works, PutScan(k) PROVE OneFolder'
  <2> DEFINE f == work[k].folder
  <2>1. /\ DOMAIN folders' = DOMAIN folders /\ folders'[f].place = folders[f].place
        /\ \A i \in DOMAIN folders \ {f} : folders'[i] = folders[i]
    BY <1>6, PutFacts
  <2> HIDE DEF f
  <2>2. In("joining")' = In("joining") /\ In("archive")' = In("archive")
    BY <2>1 DEF In
  <2>3. /\ \A j \in Works \ {k} : work'[j] = work[j]
        /\ work[k].at = "put" /\ work'[k].at = "none"
    BY <1>6, Rested, RestingType DEF PutScan
  <2>4. ~MoveFolder(k)
    BY <2>3 DEF MoveFolder
  <2>5. \A j \in Works : ~MoveFolder(j)
    BY <2>3, <2>4, <1>v
  <2> QED
    BY <1>a, <2>2, <2>3, <2>5
<1>7. ASSUME NEW k \in Works, RenderAllForFiling(k) PROVE OneFolder'
  <2>1. /\ \A j \in Works \ {k} : work'[j] = work[j]
        /\ work[k].at = "list" /\ work'[k].at = "form" /\ work'[k].folder = work[k].folder
    BY <1>7, GotOn
  <2>2. folders' = folders
    BY <1>7 DEF RenderAllForFiling
  <2>3. ~MoveFolder(k)
    BY <2>1 DEF MoveFolder
  <2>4. \A j \in Works : ~MoveFolder(j)
    BY <2>1, <2>3, <1>v
  <2> QED
    BY <1>a, <1>h, <1>s, <2>1, <2>2, <2>4
<1>8. ASSUME NEW k \in Works, FileForm(k) PROVE OneFolder'
  <2>1. PICK x \in work[k].todo :
          /\ work[k].at = "form" /\ work' = [work EXCEPT ![k].todo = @ \ {x}]
          /\ \/ folders' = [folders EXCEPT ![work[k].folder].forms[x] = Append(@, work[k].saw[x])]
             \/ UNCHANGED folders
    BY <1>8 DEF FileForm
  <2>2. /\ \A j \in Works \ {k} : work'[j] = work[j]
        /\ work'[k].at = "form" /\ work'[k].folder = work[k].folder
    BY <2>1, FormWork
  <2>3. x \in Referees
    BY DEF ArchiveTypeOK, Work
  <2>4. In("joining")' = In("joining") /\ In("archive")' = In("archive")
    <3>1. CASE folders' = [folders EXCEPT ![work[k].folder].forms[x] = Append(@, work[k].saw[x])]
      <4> DEFINE f == work[k].folder
      <4>1. /\ DOMAIN folders' = DOMAIN folders /\ folders'[f].place = folders[f].place
            /\ \A i \in DOMAIN folders \ {f} : folders'[i] = folders[i]
        BY <2>1, <2>3, <3>1, FileFacts
      <4> HIDE DEF f
      <4> QED
        BY <4>1 DEF In
    <3> QED
      BY <2>1, <3>1, <1>s
  <2>5. \A j \in Works : ~MoveFolder(j)
    <3>1. SUFFICES ASSUME NEW j \in Works, MoveFolder(j) PROVE FALSE
      OBVIOUS
    <3>2. work[j].at = "form" /\ work'[j].at = "record"
      BY <3>1, GotOn
    <3> QED
      BY <3>2, <2>2
  <2> QED
    BY <1>a, <1>h, <2>1, <2>2, <2>4, <2>5
<1>9. ASSUME NEW k \in Works, MoveFolder(k) PROVE OneFolder'
  <2> DEFINE f == work[k].folder
  <2>1. /\ \A j \in Works \ {k} : work'[j] = work[j]
        /\ work[k].at = "form" /\ work'[k].at = "record" /\ work'[k].url = f
        /\ (work'[k].archive <=> work[k].archive)
    BY <1>9, GotOn
  <2>2. /\ f \in DOMAIN folders /\ DOMAIN folders' = DOMAIN folders
        /\ folders'[f].place = "archive"
        /\ \A i \in DOMAIN folders \ {f} : folders'[i] = folders[i]
    BY <1>9, MoveFacts
  <2>3. f \in In("joining") /\ f # 0
    <3>1. f \in In("joining")
      BY <2>1, <1>h
    <3>2. f \in 1..Len(folders)
      BY <2>2, FoldersAre DEF ArchiveTypeOK
    <3> QED
      BY <3>1, <3>2, FoldersAre DEF ArchiveTypeOK
  <2>4. /\ k \in Archiving /\ kept.url = 0 /\ work[k].url = 0
        /\ \A j \in Archiving : j = k
        /\ Filed \ {0} = {}
    BY <2>1, <1>o, NoneFiled
  <2> HIDE DEF f
  <2>5. In("joining")' = {} /\ In("archive")' = In("archive") \cup {f}
    BY <2>2, <2>3, <1>h DEF In
  <2>6. Archiving' = {k}
    BY <2>1, <2>4 DEF Archiving
  <2>7. kept' = kept
    BY <1>9 DEF MoveFolder
  <2>8. Filed' \ {0} = {f}
    BY <2>1, <2>3, <2>4, <2>6, <2>7 DEF Filed
  <2>9. \A j \in Works : work'[j].at \notin {"list", "form"}
    BY <2>1, <1>u
  <2> QED
    BY <1>h, <1>q, <2>4, <2>5, <2>8, <2>9
<1>10. ASSUME NEW k \in Works, DriveFails(k) PROVE OneFolder'
  <2>1. /\ \A j \in Works \ {k} : work'[j] = work[j]
        /\ work'[k].at \in {"none", "record"} /\ work[k].at \in {"find", "make", "put", "form"}
        /\ work'[k].at = "record" => work'[k].url = work[k].url /\ work[k].archive
    BY <1>10, GaveUp, RestingType DEF DriveFails
  <2>2. folders' = folders
    BY <1>10 DEF DriveFails
  <2>3. ~MoveFolder(k)
    <3>1. SUFFICES ASSUME MoveFolder(k) PROVE FALSE
      OBVIOUS
    <3>2. work'[k].url = work[k].folder /\ work[k].at = "form" /\ work'[k].at = "record"
      BY <3>1, GotOn
    <3>3. work[k].folder \in DOMAIN folders /\ work[k].url = 0
      BY <3>2, <1>o, NoneFiled DEF FolderKnown
    <3>4. work[k].folder \in 1..Len(folders)
      BY <3>3, FoldersAre DEF ArchiveTypeOK
    <3> QED
      BY <2>1, <3>2, <3>3, <3>4
  <2>4. \A j \in Works : ~MoveFolder(j)
    BY <2>1, <2>3, <1>v
  <2> QED
    BY <1>a, <1>s, <2>1, <2>2, <2>4
<1>11. ASSUME NEW k \in Works, RecordArchive(k) PROVE OneFolder'
  <2>1. /\ \A j \in Works \ {k} : work'[j] = work[j]
        /\ work'[k].at = "none" /\ work[k].at = "record"
    BY <1>11, Rested, RestingType DEF RecordArchive
  <2>2. folders' = folders
    BY <1>11 DEF RecordArchive
  <2>3. ~MoveFolder(k)
    BY <2>1 DEF MoveFolder
  <2>4. \A j \in Works : ~MoveFolder(j)
    BY <2>1, <2>3, <1>v
  <2> QED
    BY <1>a, <1>s, <2>1, <2>2, <2>4
<1> QED
  BY <1>1, <1>2, <1>3, <1>4, <1>5, <1>6, <1>7, <1>8, <1>9, <1>10, <1>11 DEF ArchiveNext

(* A document on record stays in a folder that is, or is to be, the archived one. *)
LEMMA PapersFiledStep ==
  ArchiveTypeOK /\ FolderKnown /\ OneArchiving /\ OneFolder /\ PapersFiled /\ [ArchiveNext]_avars
  => PapersFiled'
<1> SUFFICES ASSUME ArchiveTypeOK, FolderKnown, OneArchiving, OneFolder, PapersFiled,
                    [ArchiveNext]_avars, oneByOne', ~twins'
             PROVE  PapersFiled'
  BY DEF PapersFiled
<1>o. oneByOne /\ ~twins
  BY Afterwards
<1>h. \A d \in onRow \ late :
        \E i \in DOMAIN folders : d \in folders[i].docs /\ (In("archive") # {} => i \in In("archive"))
  BY <1>o DEF PapersFiled
<1>a. ASSUME onRow' = onRow, late' = late, DOMAIN folders \subseteq DOMAIN folders',
             \A i \in DOMAIN folders : folders'[i].docs = folders[i].docs,
             In("archive")' = In("archive")
      PROVE  PapersFiled'
  BY <1>h, <1>a DEF PapersFiled
<1>1. CASE folders' = folders /\ onRow' = onRow /\ late' = late
  BY <1>1, <1>a DEF In
<1>2. CASE SaveReference \/ RemoveReference \/ RestartDrive \/ UNCHANGED avars
  BY <1>1, <1>2 DEF SaveReference, RemoveReference, RestartDrive, avars
<1>3. ASSUME NEW k \in Works, PublicUploadScan(k) \/ StartArchive(k) \/ RecordArchive(k)
      PROVE  PapersFiled'
  BY <1>1, <1>3 DEF PublicUploadScan, StartArchive, RecordArchive
<1>4. ASSUME NEW k \in Works, EnsureFolder(k) \/ RenderAllForFiling(k) \/ DriveFails(k)
      PROVE  PapersFiled'
  BY <1>1, <1>4 DEF EnsureFolder, RenderAllForFiling, DriveFails
<1>5. ASSUME NEW k \in Works, MakeFolder(k) PROVE PapersFiled'
  <2> DEFINE f == Len(folders) + 1
  <2>1. /\ f \notin DOMAIN folders /\ DOMAIN folders' = DOMAIN folders \cup {f}
        /\ folders'[f].place = "joining"
        /\ \A i \in DOMAIN folders : folders'[i] = folders[i]
    BY <1>5, MakeFacts
  <2> HIDE DEF f
  <2>2. In("archive")' = In("archive")
    BY <2>1 DEF In
  <2>3. onRow' = onRow /\ late' = late
    BY <1>5 DEF MakeFolder
  <2> QED
    BY <1>a, <2>1, <2>2, <2>3
<1>6. ASSUME NEW k \in Works, FileForm(k) PROVE PapersFiled'
  <2>1. PICK x \in work[k].todo :
          /\ work[k].at = "form" /\ UNCHANGED <<onRow, late>>
          /\ \/ folders' = [folders EXCEPT ![work[k].folder].forms[x] = Append(@, work[k].saw[x])]
             \/ UNCHANGED folders
    BY <1>6 DEF FileForm
  <2>2. x \in Referees
    BY DEF ArchiveTypeOK, Work
  <2>3. CASE folders' = [folders EXCEPT ![work[k].folder].forms[x] = Append(@, work[k].saw[x])]
    <3> DEFINE f == work[k].folder
    <3>1. /\ DOMAIN folders' = DOMAIN folders /\ folders'[f].place = folders[f].place
          /\ folders'[f].docs = folders[f].docs
          /\ \A i \in DOMAIN folders \ {f} : folders'[i] = folders[i]
      BY <2>1, <2>2, <2>3, FileFacts
    <3> HIDE DEF f
    <3>2. In("archive")' = In("archive") /\ \A i \in DOMAIN folders : folders'[i].docs = folders[i].docs
      BY <3>1 DEF In
    <3> QED
      BY <1>a, <2>1, <3>1, <3>2
  <2> QED
    BY <1>1, <2>1, <2>3
<1>7. ASSUME NEW k \in Works, PutScan(k) PROVE PapersFiled'
  <2> DEFINE f == work[k].folder
             scan == work[k].scan
  <2>1. /\ f \in DOMAIN folders /\ DOMAIN folders' = DOMAIN folders
        /\ folders'[f].place = folders[f].place
        /\ folders'[f].docs = folders[f].docs \cup scan
        /\ \A i \in DOMAIN folders \ {f} : folders'[i] = folders[i]
    BY <1>7, PutFacts
  <2>2. /\ onRow' = onRow \cup scan
        /\ late' = IF In("archive") # {} /\ f \in In("joining") THEN late \cup scan ELSE late
    BY <1>7 DEF PutScan
  <2>3. f \in In("joining") \/ f \in In("archive")
    <3>1. folders[f] \in Folder
      BY <2>1, FoldersAre DEF ArchiveTypeOK
    <3> QED
      BY <2>1, <3>1 DEF In, Folder
  <2> HIDE DEF f, scan
  <2>4. In("archive")' = In("archive") /\ \A i \in DOMAIN folders : folders[i].docs \subseteq folders'[i].docs
    BY <2>1 DEF In
  <2>5. SUFFICES ASSUME NEW d \in onRow' \ late'
        PROVE  \E i \in DOMAIN folders' :
                 d \in folders'[i].docs /\ (In("archive")' # {} => i \in In("archive")')
    BY DEF PapersFiled
  <2>6. CASE d \in onRow \ late
    BY <2>1, <2>4, <2>6, <1>h
  <2>7. CASE d \notin onRow \ late
    <3>1. d \in scan /\ ~(In("archive") # {} /\ f \in In("joining"))
      BY <2>2, <2>5, <2>7
    <3> QED
      BY <2>1, <2>3, <2>4, <3>1
  <2> QED
    BY <2>6, <2>7
<1>8. ASSUME NEW k \in Works, MoveFolder(k) PROVE PapersFiled'
  <2> DEFINE f == work[k].folder
  <2>1. /\ f \in DOMAIN folders /\ DOMAIN folders' = DOMAIN folders
        /\ folders'[f].place = "archive" /\ folders'[f].docs = folders[f].docs
        /\ \A i \in DOMAIN folders \ {f} : folders'[i] = folders[i]
    BY <1>8, MoveFacts
  <2>2. work[k].at = "form" /\ onRow' = onRow /\ late' = late
    BY <1>8 DEF MoveFolder
  <2>3. f \in In("joining") /\ \A i, j \in In("joining") : i = j
    BY <1>o, <2>2 DEF OneFolder
  <2> HIDE DEF f
  <2>4. In("archive")' = In("archive") \cup {f} /\ \A i \in DOMAIN folders : folders'[i].docs = folders[i].docs
    BY <2>1 DEF In
  <2>5. \A i \in DOMAIN folders : i \in In("joining") \/ i \in In("archive")
    BY FoldersAre DEF ArchiveTypeOK, In, Folder
  <2>6. SUFFICES ASSUME NEW d \in onRow \ late
        PROVE  \E i \in DOMAIN folders' :
                 d \in folders'[i].docs /\ (In("archive")' # {} => i \in In("archive")')
    BY <2>2 DEF PapersFiled
  <2>7. PICK i \in DOMAIN folders : d \in folders[i].docs /\ (In("archive") # {} => i \in In("archive"))
    BY <1>h, <2>6
  <2>8. i \in In("archive")'
    BY <2>3, <2>4, <2>5, <2>7
  <2> QED
    BY <2>1, <2>4, <2>7, <2>8
<1> QED
  BY <1>2, <1>3, <1>4, <1>5, <1>6, <1>7, <1>8 DEF ArchiveNext

(* The forms listed last are about to be filed as they were read, or are. *)
LEMMA FormsFiledStep ==
  ArchiveTypeOK /\ FolderKnown /\ OneArchiving /\ OneFolder /\ FormsFiled /\ [ArchiveNext]_avars
  => FormsFiled'
<1> SUFFICES ASSUME ArchiveTypeOK, FolderKnown, OneArchiving, OneFolder, FormsFiled,
                    [ArchiveNext]_avars, oneByOne', ~twins'
             PROVE  FormsFiled'
  BY DEF FormsFiled
<1>o. oneByOne /\ ~twins
  BY Afterwards
<1>h. /\ \A k \in Works : work[k].at = "form" =>
            \A x \in Owed : IF x \in work[k].todo THEN work[k].saw[x] = refs[x]
                            ELSE FormIn(work[k].folder, x)
      /\ \A i \in Filed \ {0} : \A x \in Owed : FormIn(i, x)
  BY <1>o DEF FormsFiled
<1>d. Filed \ {0} \subseteq DOMAIN folders /\ \A k \in Works : work[k].at = "form" => work[k].folder \in DOMAIN folders
  BY <1>o DEF OneFolder, In, FolderKnown
<1>q. ASSUME \A k \in Works : work'[k].at = "form" =>
               \A x \in Owed' : IF x \in work'[k].todo THEN work'[k].saw[x] = refs'[x]
                                ELSE FormIn(work[k].folder, x)',
             \A i \in Filed' \ {0} : \A x \in Owed' : FormIn(i, x)'
      PROVE  FormsFiled'
  BY <1>q DEF FormsFiled, FormIn
<1>a. ASSUME Filed' \ {0} = Filed \ {0}, Owed' \subseteq Owed, \A x \in Owed' : refs'[x] = refs[x],
             \A k \in Works : work'[k].at = "form" => work'[k] = work[k],
             \A i \in DOMAIN folders, x \in Owed' : FormIn(i, x) => FormIn(i, x)'
      PROVE  FormsFiled'
  <2>1. \A i \in Filed' \ {0} : \A x \in Owed' : FormIn(i, x)'
    BY <1>a, <1>d, <1>h
  <2>2. ASSUME NEW k \in Works, work'[k].at = "form", NEW x \in Owed'
        PROVE  IF x \in work'[k].todo THEN work'[k].saw[x] = refs'[x]
               ELSE FormIn(work[k].folder, x)'
    <3>1. work'[k] = work[k] /\ x \in Owed /\ refs'[x] = refs[x]
      BY <1>a, <2>2
    <3>2. work[k].folder \in DOMAIN folders
      BY <3>1, <2>2, <1>d
    <3>3. IF x \in work[k].todo THEN work[k].saw[x] = refs[x] ELSE FormIn(work[k].folder, x)
      BY <1>h, <3>1, <2>2
    <3> QED
      BY <1>a, <2>2, <3>1, <3>2, <3>3
  <2> QED
    BY <1>q, <2>1, <2>2
<1>s. ASSUME NEW i \in DOMAIN folders, NEW x, folders'[i].forms = folders[i].forms, refs'[x] = refs[x]
      PROVE  FormIn(i, x) => FormIn(i, x)'
  BY <1>s DEF FormIn
<1>n. (\A k \in Works : ~MoveFolder(k)) => Filed' \ {0} = Filed \ {0}
  BY FiledNext
<1>m. ASSUME NEW k \in Works, MoveFolder(k)
      PROVE  /\ work[k].at = "form" /\ work'[k].at = "record"
             /\ \A j \in Works \ {k} : work'[j] = work[j]
  BY <1>m, GotOn
<1>r. UNCHANGED <<refs, since, unfiled>> => Owed' = Owed
  BY DEF Owed
<1>e. ASSUME NEW k \in Works, \A j \in Works \ {k} : work'[j] = work[j], work'[k].at # "form"
      PROVE  \A j \in Works : work'[j].at = "form" => work'[j] = work[j]
  <2>1. \A j \in Works : j = k \/ j \in Works \ {k}
    OBVIOUS
  <2> QED
    BY <1>e, <2>1
<1>v. ASSUME NEW k \in Works, ~MoveFolder(k), work'[k].at # work[k].at
      PROVE  Filed' \ {0} = Filed \ {0}
  <2>1. SUFFICES ASSUME NEW j \in Works, MoveFolder(j) PROVE FALSE
    BY <1>n
  <2>2. j # k /\ \A i \in Works \ {j} : work'[i] = work[i]
    BY <1>m, <1>v, <2>1
  <2> QED
    BY <1>v, <2>2
<1>w. ASSUME NEW k \in Works, work[k].at # "form" PROVE ~MoveFolder(k)
  BY <1>w DEF MoveFolder
<1>1. CASE SaveReference
  <2>1. PICK x \in Referees :
          /\ refs' = [refs EXCEPT ![x] = @ + 1] /\ since' = since \cup {x}
          /\ UNCHANGED <<folders, kept, work, unfiled>>
    BY <1>1 DEF SaveReference
  <2>2. \A y \in Referees \ {x} : refs'[y] = refs[y]
    BY <2>1 DEF ArchiveTypeOK
  <2>3. Owed' \subseteq Owed /\ \A y \in Owed' : refs'[y] = refs[y]
    BY <2>1, <2>2 DEF Owed
  <2>4. Filed' = Filed
    BY <2>1 DEF Filed, Archiving
  <2> QED
    BY <1>a, <1>s, <2>1, <2>3, <2>4
<1>2. CASE RemoveReference
  <2>1. PICK x \in Referees :
          /\ refs' = [refs EXCEPT ![x] = 0] /\ since' = since \cup {x}
          /\ UNCHANGED <<folders, kept, work, unfiled>>
    BY <1>2 DEF RemoveReference
  <2>2. \A y \in Referees \ {x} : refs'[y] = refs[y]
    BY <2>1 DEF ArchiveTypeOK
  <2>3. Owed' \subseteq Owed /\ \A y \in Owed' : refs'[y] = refs[y]
    BY <2>1, <2>2 DEF Owed
  <2>4. Filed' = Filed
    BY <2>1 DEF Filed, Archiving
  <2> QED
    BY <1>a, <1>s, <2>1, <2>3, <2>4
<1>3. CASE RestartDrive
  <2>1. /\ UNCHANGED <<folders, refs, since, unfiled>>
        /\ \A k \in Works : work'[k].at = "none"
    BY <1>3, RestingType DEF RestartDrive
  <2>2. Filed' \ {0} = Filed \ {0}
    BY <1>m, <1>n, <2>1
  <2> QED
    BY <1>a, <1>r, <1>s, <2>1, <2>2
<1>4. ASSUME NEW k \in Works, PublicUploadScan(k) \/ StartArchive(k) PROVE FormsFiled'
  <2>1. /\ \A j \in Works \ {k} : work'[j] = work[j]
        /\ work[k].at = "none" /\ work'[k].at \in {"find", "record"}
    BY <1>4, Begun
  <2>2. UNCHANGED <<folders, refs, since, unfiled>>
    BY <1>4 DEF PublicUploadScan, StartArchive
  <2>3. Filed' \ {0} = Filed \ {0}
    BY <2>1, <1>v, <1>w
  <2> QED
    BY <1>a, <1>e, <1>r, <1>s, <2>1, <2>2, <2>3
<1>5. ASSUME NEW k \in Works, EnsureFolder(k) PROVE FormsFiled'
  <2>1. /\ \A j \in Works \ {k} : work'[j] = work[j]
        /\ work[k].at = "find" /\ work'[k].at \in {"make", "list", "put"}
    BY <1>5, GotOn
  <2>2. UNCHANGED <<folders, refs, since, unfiled>>
    BY <1>5 DEF EnsureFolder
  <2>3. Filed' \ {0} = Filed \ {0}
    BY <2>1, <1>v, <1>w
  <2> QED
    BY <1>a, <1>e, <1>r, <1>s, <2>1, <2>2, <2>3
<1>6. ASSUME NEW k \in Works, MakeFolder(k) PROVE FormsFiled'
  <2>1. /\ \A j \in Works \ {k} : work'[j] = work[j]
        /\ work[k].at = "make" /\ work'[k].at \in {"list", "put"}
    BY <1>6, GotOn
  <2>2. \A i \in DOMAIN folders : folders'[i] = folders[i]
    BY <1>6, MakeFacts
  <2>3. UNCHANGED <<refs, since, unfiled>>
    BY <1>6 DEF MakeFolder
  <2>4. Filed' \ {0} = Filed \ {0}
    BY <2>1, <1>v, <1>w
  <2> QED
    BY <1>a, <1>e, <1>r, <1>s, <2>1, <2>2, <2>3, <2>4
<1>7. ASSUME NEW k \in Works, PutScan(k) PROVE FormsFiled'
  <2>1. /\ \A j \in Works \ {k} : work'[j] = work[j]
        /\ work[k].at = "put" /\ work'[k].at = "none"
    BY <1>7, Rested, RestingType DEF PutScan
  <2>2. \A i \in DOMAIN folders : folders'[i].forms = folders[i].forms
    <3> DEFINE f == work[k].folder
    <3>1. folders'[f].forms = folders[f].forms /\ \A i \in DOMAIN folders \ {f} : folders'[i] = folders[i]
      BY <1>7, PutFacts
    <3> HIDE DEF f
    <3> QED
      BY <3>1
  <2>3. UNCHANGED <<refs, since, unfiled>>
    BY <1>7 DEF PutScan
  <2>4. Filed' \ {0} = Filed \ {0}
    BY <2>1, <1>v, <1>w
  <2> QED
    BY <1>a, <1>e, <1>r, <1>s, <2>1, <2>2, <2>3, <2>4
<1>8. ASSUME NEW k \in Works, RenderAllForFiling(k) PROVE FormsFiled'
  <2>1. /\ \A j \in Works \ {k} : work'[j] = work[j]
        /\ work[k].at = "list" /\ work'[k].at = "form"
        /\ work'[k].saw = refs /\ work'[k].todo = {x \in Referees : refs[x] # 0}
    BY <1>8, GotOn
  <2>2. refs' = refs
    BY <1>8 DEF RenderAllForFiling
  <2>3. Filed' \ {0} = {}
    BY <2>1, <1>v, <1>w, <1>o, NoneFiled
  <2>4. ASSUME NEW j \in Works, work'[j].at = "form" PROVE j = k
    <3>1. SUFFICES ASSUME j # k PROVE FALSE
      OBVIOUS
    <3>2. work[j].at = "form"
      BY <2>1, <2>4, <3>1
    <3> QED
      BY <2>1, <3>1, <3>2, <1>o, NoneFiled
  <2>5. \A x \in Owed' : x \in work'[k].todo /\ work'[k].saw[x] = refs'[x]
    BY <2>1, <2>2 DEF Owed
  <2> QED
    BY <1>q, <2>3, <2>4, <2>5
<1>9. ASSUME NEW k \in Works, FileForm(k) PROVE FormsFiled'
  <2>1. PICK x \in work[k].todo :
          /\ work[k].at = "form" /\ work' = [work EXCEPT ![k].todo = @ \ {x}]
          /\ \/ /\ folders' = [folders EXCEPT ![work[k].folder].forms[x] = Append(@, work[k].saw[x])]
                /\ UNCHANGED unfiled
             \/ unfiled' = unfiled \cup {x} /\ UNCHANGED folders
          /\ UNCHANGED <<refs, since>>
    BY <1>9 DEF FileForm
  <2>2. /\ \A j \in Works \ {k} : work'[j] = work[j]
        /\ work'[k].at = "form" /\ work'[k].folder = work[k].folder
        /\ work'[k].saw = work[k].saw /\ work'[k].todo = work[k].todo \ {x}
    BY <2>1, FormWork
  <2>3. x \in Referees
    BY DEF ArchiveTypeOK, Work
  <2>4. \A j \in Works : ~MoveFolder(j)
    <3>1. SUFFICES ASSUME NEW j \in Works, MoveFolder(j) PROVE FALSE
      OBVIOUS
    <3>2. work[j].at = "form" /\ work'[j].at = "record"
      BY <3>1, <1>m
    <3> QED
      BY <3>2, <2>2
  <2>5. Filed' \ {0} = {}
    BY <2>1, <2>4, <1>n, <1>o, NoneFiled
  <2>6. ASSUME NEW j \in Works, work'[j].at = "form" PROVE j = k
    <3>1. SUFFICES ASSUME j # k PROVE FALSE
      OBVIOUS
    <3>2. work[j].at = "form"
      BY <2>2, <2>6, <3>1
    <3> QED
      BY <2>1, <3>1, <3>2, <1>o, NoneFiled
  <2>7. ASSUME NEW y \in Owed'
        PROVE  IF y \in work'[k].todo THEN work'[k].saw[y] = refs'[y] ELSE FormIn(work[k].folder, y)'
    <3> DEFINE f == work[k].folder
    <3>1. y \in Owed /\ y \in Referees
      BY <2>1 DEF Owed
    <3>2. IF y \in work[k].todo THEN work[k].saw[y] = refs[y] ELSE FormIn(f, y)
      BY <2>1, <3>1, <1>h
    <3>3. CASE y \in work'[k].todo
      BY <2>1, <2>2, <3>2, <3>3
    <3>4. CASE y \notin work'[k].todo /\ y # x
      <4>1. FormIn(f, y)
        BY <2>2, <3>2, <3>4
      <4>2. folders'[f].forms[y] = folders[f].forms[y]
        <5>1. CASE folders' = [folders EXCEPT ![work[k].folder].forms[x] = Append(@, work[k].saw[x])]
          <6>1. \A z \in Referees \ {x} : folders'[f].forms[z] = folders[f].forms[z]
            BY ZenonT(60), <2>1, <2>3, <5>1, FileFacts
          <6> QED
            BY <3>1, <3>4, <6>1
        <5> QED
          BY <2>1, <5>1
      <4>3. work'[k].folder = f /\ refs' = refs
        BY <2>1, <2>2
      <4>4. PICK n \in DOMAIN folders[f].forms[y] : folders[f].forms[y][n] = refs[y]
        BY <4>1 DEF FormIn
      <4>5. n \in DOMAIN folders'[f].forms[y] /\ folders'[f].forms[y][n] = refs'[y]
        BY <4>2, <4>3, <4>4
      <4>6. FormIn(work[k].folder, y)'
        BY <4>3, <4>5 DEF FormIn
      <4> QED
        BY <3>4, <4>6
    <3>5. CASE y = x
      <4>1. x \notin unfiled'
        BY <3>5 DEF Owed
      <4>2. folders' = [folders EXCEPT ![work[k].folder].forms[x] = Append(@, work[k].saw[x])]
        BY <2>1, <4>1
      <4> DEFINE was == folders[f].forms[x]
                 is == folders'[f].forms[x]
      <4>3. /\ is = Append(was, work[k].saw[x])
            /\ was \in Seq(Nat) /\ work[k].saw[x] \in Nat
        BY <2>1, <2>3, <4>2, FileFacts
      <4>4. work[k].saw[x] = refs[x]
        BY <2>1, <3>2, <3>5
      <4> HIDE DEF was
      <4>5. Len(was) + 1 \in DOMAIN is /\ is[Len(was) + 1] = refs[x]
        BY <4>3, <4>4, AppendProperties, LenProperties
      <4>6. FormIn(work[k].folder, x)'
        BY <2>1, <2>2, <4>5 DEF FormIn
      <4> QED
        BY <2>2, <3>5, <4>6
    <3> QED
      BY <3>3, <3>4, <3>5
  <2> QED
    BY <1>q, <2>5, <2>6, <2>7
<1>10. ASSUME NEW k \in Works, MoveFolder(k) PROVE FormsFiled'
  <2>0. PICK f \in DOMAIN folders : f = work[k].folder
    BY <1>10, MoveFacts
  <2>1. /\ \A j \in Works \ {k} : work'[j] = work[j]
        /\ work[k].at = "form" /\ work'[k].at = "record" /\ work'[k].url = f
        /\ work[k].todo = {} /\ (work'[k].archive <=> work[k].archive)
    BY <1>10, <2>0, GotOn
  <2>2. /\ k \in Archiving /\ kept.url = 0
        /\ \A j \in Archiving : j = k
    BY <2>1, <1>o, NoneFiled
  <2>3. UNCHANGED <<refs, since, unfiled, kept>>
    BY <1>10 DEF MoveFolder
  <2>4. folders'[f].forms = folders[f].forms /\ f \in DOMAIN folders
    BY <1>10, <2>0, MoveFacts
  <2>5. \A x \in Owed : FormIn(f, x)
    BY <2>0, <2>1, <1>h
  <2>6. Filed' \subseteq {0, f}
    <3>1. Archiving' = {k}
      BY <2>1, <2>2 DEF Archiving
    <3> QED
      BY <2>1, <2>2, <2>3, <3>1 DEF Filed
  <2>7. ASSUME NEW j \in Works PROVE work'[j].at # "form"
    <3>1. SUFFICES ASSUME j # k, work[j].at = "form" PROVE FALSE
      BY <2>1
    <3> QED
      BY <2>1, <3>1, <1>o, NoneFiled
  <2>8. \A x \in Owed' : FormIn(f, x)'
    BY <1>r, <1>s, <2>3, <2>4, <2>5
  <2> QED
    BY <1>q, <2>6, <2>7, <2>8
<1>11. ASSUME NEW k \in Works, DriveFails(k) \/ RecordArchive(k) PROVE FormsFiled'
  <2>1. /\ \A j \in Works \ {k} : work'[j] = work[j]
        /\ work'[k].at \in {"none", "record"}
    BY <1>11, GaveUp, Rested, RestingType DEF RecordArchive
  <2>2. UNCHANGED <<folders, refs, since, unfiled>>
    BY <1>11 DEF DriveFails, RecordArchive
  <2>3. \A j \in Works : ~MoveFolder(j)
    <3>1. SUFFICES ASSUME NEW j \in Works, MoveFolder(j) PROVE FALSE
      OBVIOUS
    <3>2. /\ work[j].folder \in DOMAIN folders /\ work[j].at = "form"
          /\ folders'[work[j].folder].place = "archive"
          /\ work[j].folder \in In("joining")
      BY <3>1, <1>m, <1>o, MoveFacts DEF OneFolder
    <3> QED
      BY <2>2, <3>2 DEF In
  <2>4. Filed' \ {0} = Filed \ {0}
    BY <2>3, <1>n
  <2> QED
    BY <1>a, <1>e, <1>r, <1>s, <2>1, <2>2, <2>4
<1>12. CASE UNCHANGED avars
  <2>1. UNCHANGED <<folders, refs, since, unfiled, work, kept>>
    BY <1>12 DEF avars
  <2>2. Filed' = Filed
    BY <2>1 DEF Filed, Archiving
  <2> QED
    BY <1>a, <1>r, <1>s, <2>1, <2>2
<1> QED
  BY <1>1, <1>2, <1>3, <1>4, <1>5, <1>6, <1>7, <1>8, <1>9, <1>10, <1>11, <1>12 DEF ArchiveNext

LEMMA ArchiveInitially == ArchiveInit => ArchiveInv
<1> SUFFICES ASSUME ArchiveInit PROVE ArchiveInv
  OBVIOUS
<1>1. /\ folders = << >> /\ onRow = {} /\ refs = [x \in Referees |-> 0]
      /\ kept = [archived |-> FALSE, url |-> 0] /\ work = [k \in Works |-> Resting]
      /\ orders \in Orders /\ late = {} /\ since = {} /\ unfiled = {}
      /\ twins = FALSE /\ oneByOne = TRUE
  BY DEF ArchiveInit
<1>2. folders \in Seq(Folder) /\ Len(folders) = 0 /\ DOMAIN folders = {}
  BY <1>1
<1>3. ArchiveTypeOK
  <2>1. MaxFolders \in Nat /\ orders \in [Ordered -> Nat]
    BY <1>1, OrdersAssumption
  <2>2. kept \in [archived : BOOLEAN, url : 0..MaxFolders] /\ refs \in [Referees -> Nat]
    BY <1>1, <2>1
  <2>3. work \in [Works -> Work]
    BY <1>1, RestingType
  <2>4. Len(folders) <= MaxFolders
    BY <1>2, <2>1
  <2>5. {twins, oneByOne} \subseteq BOOLEAN
    BY <1>1, Zenon
  <2>6. onRow \subseteq Scans /\ late \subseteq Scans /\ since \subseteq Referees /\ unfiled \subseteq Referees
    BY <1>1
  <2> QED
    BY <1>2, <2>1, <2>2, <2>3, <2>4, <2>5, <2>6 DEF ArchiveTypeOK
<1>4. Archiving = {} /\ In("joining") = {} /\ In("archive") = {}
  BY <1>1, <1>2, RestingType DEF Archiving, In
<1>5. Filed \ {0} = {}
  BY <1>1, <1>4 DEF Filed
<1>6. FolderKnown /\ OneArchiving /\ OneFolder
  BY <1>1, <1>4, <1>5, RestingType DEF FolderKnown, OneArchiving, OneFolder
<1>7. PapersFiled /\ FormsFiled
  BY <1>1, <1>5, RestingType DEF PapersFiled, FormsFiled
<1> QED
  BY <1>3, <1>6, <1>7 DEF ArchiveInv

LEMMA ArchiveInvStep == ArchiveInv /\ [ArchiveNext]_avars => ArchiveInv'
BY ArchiveTypeStep, OneArchivingStep, OneFolderStep, PapersFiledStep, FormsFiledStep DEF ArchiveInv

LEMMA ArchiveFollows == ArchiveInv => PapersArchived /\ FormsArchived
<1> SUFFICES ASSUME ArchiveInv, oneByOne, ~twins, kept.url # 0
             PROVE  /\ kept.url \in In("archive") /\ onRow \ late \subseteq ArchiveFiles
                    /\ \A x \in Referees \ (since \cup unfiled) :
                         refs[x] # 0 => \E i \in DOMAIN folders[kept.url].forms[x] :
                                          folders[kept.url].forms[x][i] = refs[x]
  BY DEF PapersArchived, FormsArchived, Orderly
<1>1. kept.url \in Filed \ {0} /\ In("archive") = Filed \ {0}
  BY DEF ArchiveInv, OneFolder, Filed
<1>2. \A i \in Filed \ {0} : i = kept.url
  BY DEF ArchiveInv, OneArchiving, Filed
<1>3. onRow \ late \subseteq ArchiveFiles
  <2>1. SUFFICES ASSUME NEW d \in onRow \ late PROVE d \in ArchiveFiles
    OBVIOUS
  <2>2. PICK i \in DOMAIN folders : d \in folders[i].docs /\ i \in In("archive")
    BY <1>1, <2>1 DEF ArchiveInv, PapersFiled
  <2>3. d \in folders[kept.url].docs
    BY <1>1, <1>2, <2>2
  <2>4. kept.archived
    BY DEF ArchiveInv, FolderKnown
  <2> QED
    BY <2>3, <2>4 DEF ArchiveFiles
<1>4. \A x \in Owed : FormIn(kept.url, x)
  BY <1>1 DEF ArchiveInv, FormsFiled
<1> QED
  BY <1>1, <1>3, <1>4 DEF Owed, FormIn

LEMMA AddressStep ==
  ArchiveInv /\ [ArchiveNext]_avars /\ kept.url # 0 /\ oneByOne' => kept'.url = kept.url
<1> SUFFICES ASSUME ArchiveInv, [ArchiveNext]_avars, kept.url # 0, oneByOne'
             PROVE  kept'.url = kept.url
  OBVIOUS
<1>1. CASE SaveReference \/ RemoveReference \/ RestartDrive \/ UNCHANGED avars
  BY <1>1 DEF SaveReference, RemoveReference, RestartDrive, avars
<1>2. ASSUME NEW k \in Works, PublicUploadScan(k) \/ EnsureFolder(k) \/ MakeFolder(k)
      PROVE  kept' = kept
  BY <1>2 DEF PublicUploadScan, EnsureFolder, MakeFolder
<1>3. ASSUME NEW k \in Works, PutScan(k) \/ StartArchive(k) \/ RenderAllForFiling(k)
      PROVE  kept' = kept
  BY <1>3 DEF PutScan, StartArchive, RenderAllForFiling
<1>4. ASSUME NEW k \in Works, FileForm(k) \/ MoveFolder(k) \/ DriveFails(k)
      PROVE  kept' = kept
  BY <1>4 DEF FileForm, MoveFolder, DriveFails
<1>5. ASSUME NEW k \in Works, RecordArchive(k) PROVE kept'.url = kept.url
  <2>1. work[k].at = "record" /\ kept'.url = work[k].url
    BY <1>5 DEF RecordArchive
  <2>2. k \in Archiving
    BY <2>1 DEF ArchiveInv, FolderKnown, Archiving
  <2>3. oneByOne
    BY Afterwards DEF ArchiveInv
  <2> QED
    BY <2>1, <2>2, <2>3 DEF ArchiveInv, OneArchiving
<1> QED
  BY <1>1, <1>2, <1>3, <1>4, <1>5 DEF ArchiveNext

(* The permanent file of a hire is whole and stays where it is: with one archiving at a
   time and one folder made, every document on record and every reference form that was
   listed and could be filed is in the folder whose address the row keeps, and archiving
   again keeps that address (onboarding.service archive, publicUpload and archiveFiles). *)
THEOREM ArchiveTheorem == ArchiveSpec => ArchiveWhole
<1>1. ArchiveSpec => []ArchiveInv
  BY ArchiveInitially, ArchiveInvStep, PTL DEF ArchiveSpec
<1>2. ArchiveSpec => [](PapersArchived /\ FormsArchived)
  BY <1>1, ArchiveFollows, PTL
<1>3. ArchiveInv /\ [ArchiveNext]_avars
      => [kept.url # 0 /\ oneByOne' => kept'.url = kept.url]_avars
  BY AddressStep
<1>4. ArchiveSpec => [][kept.url # 0 /\ oneByOne' => kept'.url = kept.url]_avars
  BY <1>1, <1>3, PTL DEF ArchiveSpec
<1> QED
  BY <1>2, <1>4, PTL DEF ArchiveWhole, AddressStays
=============================================================================
