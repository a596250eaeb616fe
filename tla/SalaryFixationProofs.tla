------------------------ MODULE SalaryFixationProofs ------------------------
(***************************************************************************)
(* Theorems of SalaryFixation for any number of requests, grades, marks,   *)
(* attempts and edits, with or without crashes.                            *)
(*                                                                         *)
(* `Sound` holds whatever lands out of turn.  Its heart is that whoever    *)
(* validates a mark writes its total too: what a request in flight is      *)
(* about to write stays consistent on its own, so the row cannot change    *)
(* under it in a way that makes the database refuse the save.              *)
(*                                                                         *)
(* `Kept` is what holds as long as every write lands in turn: what the     *)
(* requests in flight have read of the row still stands, and with it HR's  *)
(* figure, the one test to take and the result on record.                  *)
(***************************************************************************)
EXTENDS SalaryFixation, SequenceTheorems, TLAPS

(* What a request in flight can count on. *)
Counted(r) ==
  LET q == req[r] IN
    /\ q.write = "upsert" => Sensible(q.merged.hand) /\ Sensible(q.merged.ai)
    /\ q.write = "marks" => Sensible(q.merged.hand)
    /\ q.write = "attempt" => q.score > 0
    /\ q.write \in {"submit", "result"} => q.attempt \in DOMAIN attempts
    /\ q.write = "result" => q.score <= attempts[q.attempt].max

Sound ==
  /\ TypeOK
  /\ Within(record)
  /\ SaveNotRefused
  /\ \A r \in Requests : Counted(r)

-----------------------------------------------------------------------------
(* Values *)

(* A row is within its totals exactly when both of its tests are sensible. *)
LEMMA WithinTests ==
  ASSUME NEW rec
  PROVE  Within(rec) <=> Sensible(rec.hand) /\ Sensible(rec.ai)
BY DEF Within, Sensible

LEMMA ScaleOptional == Optional(Scale) \subseteq Optional(0..Top)
BY ScaleAssumption DEF Optional

(* Saving a box of a test gives a test. *)
LEMMA BoxType ==
  ASSUME NEW test \in Test
  PROVE  /\ Switchings(test) \subseteq Test
         /\ Totals(test) \subseteq Test
         /\ Typings(test) \subseteq Test
<1>1. Switchings(test) \subseteq Test
  BY DEF Switchings, Test
<1>2. Totals(test) \subseteq Test
  BY DEF Totals, Test
<1>3. Marks(test) \subseteq Test
  BY ScaleOptional DEF Marks, Test
<1>. QED
  BY <1>1, <1>2, <1>3 DEF Typings

(* Switching a test on or off leaves its mark and its total alone. *)
LEMMA SwitchingSensible ==
  ASSUME NEW test \in Test, NEW new \in Switchings(test)
  PROVE  Sensible(new) <=> Sensible(test)
BY DEF Switchings, Test, Sensible

LEMMA BlankType == Blank \in Record
BY DEF Blank, Record, Test, Optional

LEMMA IdleType == Idle \in Request
BY BlankType, BoundsAssumption DEF Idle, Request, Writes

(* Copying the fields a form covers gives a row. *)
LEMMA FormType ==
  ASSUME NEW rec \in Record, NEW form \in Record
  PROVE  /\ Form(rec, form) \in Record
         /\ Form(rec, form).hand = form.hand
         /\ Form(rec, form).ai = form.ai
BY DEF Form, Record

LEMMA MarkedType ==
  ASSUME NEW rec \in Record, NEW form \in Record
  PROVE  /\ Marked(rec, form) \in Record
         /\ Marked(rec, form).hand = form.hand
         /\ Sensible(Marked(rec, form).ai) <=> Sensible(rec.ai)
<1>1. rec.ai \in Test /\ form.ai \in Test
  BY DEF Record
<1>2. [rec.ai EXCEPT !.on = form.ai.on] \in Test
  BY <1>1 DEF Test
<1>3. Marked(rec, form) = [rec EXCEPT !.hand = form.hand, !.ai = [rec.ai EXCEPT !.on = form.ai.on]]
  BY DEF Marked, Record
<1>4. Sensible([rec.ai EXCEPT !.on = form.ai.on]) <=> Sensible(rec.ai)
  BY <1>1 DEF Sensible, Test
<1>. QED
  BY <1>2, <1>3, <1>4 DEF Record

LEMMA ResultType ==
  ASSUME NEW rec \in Record, NEW max \in 1..Top, NEW score \in 0..Top, score <= max
  PROVE  /\ ResultOf(rec, max, score) \in Record
         /\ ResultOf(rec, max, score).hand = rec.hand
         /\ Sensible(ResultOf(rec, max, score).ai)
<1>. DEFINE ai == [rec.ai EXCEPT !.total = {max}, !.mark = {score}]
<1>1. rec.ai \in Test
  BY DEF Record
<1>2. {max} \in Optional(1..Top) /\ {score} \in Optional(0..Top)
  BY DEF Optional
<1>3. ai \in Test
  BY <1>1, <1>2 DEF Test
<1>4. ai.total = {max} /\ ai.mark = {score}
  BY <1>1 DEF Test
<1>5. Sensible(ai)
  BY <1>4 DEF Sensible
<1>6. ResultOf(rec, max, score) = [rec EXCEPT !.ai = ai]
  BY DEF ResultOf, Record
<1>. QED
  BY <1>3, <1>5, <1>6 DEF Record

-----------------------------------------------------------------------------
(* Requests *)

LEMMA RequestSet ==
  ASSUME req \in [Requests -> Request], NEW r \in Requests, NEW q \in Request
  PROVE  [req EXCEPT ![r] = q] \in [Requests -> Request]
OBVIOUS

LEMMA StaleType ==
  ASSUME req \in [Requests -> Request], NEW others
  PROVE  /\ Stale(others) \in [Requests -> Request]
         /\ \A q \in Requests :
              /\ Stale(others)[q].write = req[q].write
              /\ Stale(others)[q].merged = req[q].merged
              /\ Stale(others)[q].attempt = req[q].attempt
              /\ Stale(others)[q].score = req[q].score
<1>1. ASSUME NEW q \in Request
      PROVE  /\ [q EXCEPT !.fresh = FALSE] \in Request
             /\ [q EXCEPT !.fresh = FALSE].write = q.write
             /\ [q EXCEPT !.fresh = FALSE].merged = q.merged
             /\ [q EXCEPT !.fresh = FALSE].attempt = q.attempt
             /\ [q EXCEPT !.fresh = FALSE].score = q.score
  BY DEF Request
<1>2. \A q \in Requests : Stale(others)[q] \in {req[q], [req[q] EXCEPT !.fresh = FALSE]}
  BY DEF Stale
<1>3. Stale(others) = [q \in Requests |-> Stale(others)[q]]
  BY DEF Stale
<1>. QED
  BY <1>1, <1>2, <1>3

(* What a request counts on depends on its own entry and on the attempts. *)
LEMMA CountedFrame ==
  ASSUME NEW r \in Requests, Counted(r),
         req'[r].write = req[r].write, req'[r].merged = req[r].merged,
         req'[r].attempt = req[r].attempt, req'[r].score = req[r].score,
         DOMAIN attempts \subseteq DOMAIN attempts',
         \A i \in DOMAIN attempts : attempts'[i].max = attempts[i].max
  PROVE  Counted(r)'
BY DEF Counted

LEMMA IdleCounted ==
  ASSUME NEW r \in Requests, req'[r] = Idle
  PROVE  Counted(r)'
BY DEF Counted, Idle

(* Asking for something leaves everything but the request alone. *)
LEMMA AskStep ==
  ASSUME Sound, NEW r \in Requests, NEW q \in Request, Ask(r, q),
         edits' \in Nat,
         q.write = "upsert" => Sensible(q.merged.hand) /\ Sensible(q.merged.ai),
         q.write = "marks" => Sensible(q.merged.hand),
         q.write = "attempt" => q.score > 0,
         q.write = "submit" => q.attempt \in DOMAIN attempts,
         q.write # "result"
  PROVE  Sound'
<1>1. req' = [req EXCEPT ![r] = q] /\ req \in [Requests -> Request]
  BY DEF Ask, Sound, TypeOK
<1>2. req' \in [Requests -> Request]
  BY <1>1, RequestSet
<1>3. UNCHANGED <<record, attempts, worth, scores, refused, typed, inTurn>>
  BY DEF Ask
<1>4. TypeOK'
  BY <1>2, <1>3 DEF Sound, TypeOK
<1>5. Counted(r)'
  BY <1>1, <1>3 DEF Counted
<1>6. ASSUME NEW p \in Requests, p # r
      PROVE  Counted(p)'
  <2>1. req'[p] = req[p] /\ Counted(p)
    BY <1>1, <1>6 DEF Sound
  <2>. QED
    BY <2>1, <1>3 DEF Counted
<1>. QED
  BY <1>3, <1>4, <1>5, <1>6 DEF Sound, Within, SaveNotRefused

(* Saving a row that is within its totals succeeds and ends the request. *)
LEMMA SaveStep ==
  ASSUME Sound, NEW r \in Requests, NEW rec \in Record, Within(rec), Save(r, rec),
         UNCHANGED <<attempts, worth, scores, edits>>,
         typed' \in BOOLEAN, inTurn' \in BOOLEAN
  PROVE  Sound'
<1>1. record' = rec /\ refused' = refused /\ req' = [Stale(Requests \ {r}) EXCEPT ![r] = Idle]
  BY DEF Save
<1>. DEFINE stale == Stale(Requests \ {r})
<1>2. /\ stale \in [Requests -> Request]
      /\ \A q \in Requests :
           /\ stale[q].write = req[q].write
           /\ stale[q].merged = req[q].merged
           /\ stale[q].attempt = req[q].attempt
           /\ stale[q].score = req[q].score
  BY StaleType DEF Sound, TypeOK
<1>. HIDE DEF stale
<1>3. req' = [stale EXCEPT ![r] = Idle]
  BY <1>1 DEF stale
<1>4. req' \in [Requests -> Request]
  BY <1>2, <1>3, IdleType
<1>5. TypeOK'
  BY <1>1, <1>4 DEF Sound, TypeOK
<1>6. Within(record)'
  BY <1>1 DEF Within
<1>7. ASSUME NEW q \in Requests
      PROVE  Counted(q)'
  <2>1. CASE q = r
    <3>1. req'[r] = Idle
      BY <1>2, <1>3
    <3>. QED
      BY <2>1, <3>1, IdleCounted
  <2>2. CASE q # r
    <3>1. req'[q] = stale[q]
      BY <1>2, <1>3, <2>2
    <3>2. Counted(q)
      BY DEF Sound
    <3>. QED
      BY <1>2, <3>1, <3>2 DEF Counted
  <2>. QED
    BY <2>1, <2>2
<1>. QED
  BY <1>1, <1>5, <1>6, <1>7 DEF Sound, SaveNotRefused

-----------------------------------------------------------------------------
(* The steps *)

LEMMA EditType ==
  ASSUME Sound, Edit
  PROVE  edits' \in Nat
BY DEF Edit, Sound, TypeOK

LEMMA EditsType ==
  ASSUME NEW rec \in Record, NEW edit \in Edits(rec)
  PROVE  edit \in Record
<1>1. rec.hand \in Test /\ rec.ai \in Test
  BY DEF Record
<1>2. Typings(rec.hand) \subseteq Test /\ Typings(rec.ai) \subseteq Test
  BY <1>1, BoxType
<1>3. \A test \in Test : [rec EXCEPT !.hand = test] \in Record /\ [rec EXCEPT !.ai = test] \in Record
  BY DEF Record
<1>4. \A g \in Optional(Grades) : [rec EXCEPT !.grade = g] \in Record
  BY DEF Record
<1>5. \A f \in Optional({HrFigure}) : [rec EXCEPT !.override = f] \in Record
  BY DEF Record
<1>. QED
  BY <1>2, <1>3, <1>4, <1>5 DEF Edits

LEMMA UpsertStep ==
  ASSUME Sound, NEW r \in Requests, Upsert(r)
  PROVE  Sound'
<1>1. PICK rec \in Edits(record) :
        /\ Sensible(rec.hand) /\ Sensible(rec.ai)
        /\ Ask(r, [Idle EXCEPT !.write = "upsert", !.merged = Form(Blank, rec)])
  BY DEF Upsert
<1>. DEFINE q == [Idle EXCEPT !.write = "upsert", !.merged = Form(Blank, rec)]
<1>2. rec \in Record
  BY <1>1, EditsType DEF Sound, TypeOK
<1>3. /\ Form(Blank, rec) \in Record
      /\ Form(Blank, rec).hand = rec.hand
      /\ Form(Blank, rec).ai = rec.ai
  BY <1>2, BlankType, FormType
<1>4. q \in Request /\ q.write = "upsert" /\ q.merged = Form(Blank, rec)
  BY <1>3, IdleType DEF Request, Writes
<1>5. edits' \in Nat
  BY EditType DEF Upsert
<1>6. Ask(r, q)
  BY <1>1
<1>. HIDE DEF q
<1>. QED
  BY <1>1, <1>3, <1>4, <1>5, <1>6, AskStep

LEMMA CommitUpsertStep ==
  ASSUME Sound, NEW r \in Requests, CommitUpsert(r)
  PROVE  Sound'
<1>. DEFINE rec == Reopened(Form(record, req[r].merged))
<1>1. req[r].merged \in Record /\ record \in Record
  BY DEF Sound, TypeOK, Request
<1>2. Sensible(req[r].merged.hand) /\ Sensible(req[r].merged.ai)
  BY DEF CommitUpsert, At, Sound, Counted
<1>3. /\ Form(record, req[r].merged) \in Record
      /\ Form(record, req[r].merged).hand = req[r].merged.hand
      /\ Form(record, req[r].merged).ai = req[r].merged.ai
  BY <1>1, FormType
<1>4. /\ rec \in Record
      /\ rec.hand = req[r].merged.hand
      /\ rec.ai = req[r].merged.ai
  BY <1>3 DEF Reopened, Record
<1>5. Within(rec)
  BY <1>2, <1>4, WithinTests
<1>6. Save(r, rec)
  BY DEF CommitUpsert
<1>7. typed' \in BOOLEAN /\ inTurn' \in BOOLEAN
  BY DEF CommitUpsert, Stays, Sound, TypeOK
<1>8. UNCHANGED <<attempts, worth, scores, edits>>
  BY DEF CommitUpsert
<1>. HIDE DEF rec
<1>. QED
  BY <1>4, <1>5, <1>6, <1>7, <1>8, SaveStep

LEMMA ProposalType ==
  ASSUME Sound
  PROVE  Proposal(record) \in Optional(Figure)
<1>1. record.override \in Optional({HrFigure}) /\ record.grade \in Optional(Grades)
  BY DEF Sound, TypeOK, Record
<1>2. HrFigure \in Figure
  BY BoundsAssumption DEF HrFigure, Figure
<1>3. record.override \in Optional(Figure)
  BY <1>1, <1>2 DEF Optional
<1>4. {[from |-> g, scores |-> scores] : g \in record.grade} \in Optional(Figure)
  <2>1. CASE record.grade = {}
    BY <2>1 DEF Optional
  <2>2. CASE record.grade # {}
    <3>1. PICK g \in Grades : record.grade = {g}
      BY <1>1, <2>2 DEF Optional
    <3>2. [from |-> g, scores |-> scores] \in Figure
      BY <3>1 DEF Figure, Sound, TypeOK
    <3>3. {[from |-> h, scores |-> scores] : h \in record.grade} = {[from |-> g, scores |-> scores]}
      BY <3>1
    <3>. QED
      BY <3>2, <3>3 DEF Optional
  <2>. QED
    BY <2>1, <2>2
<1>5. {} \in Optional(Figure)
  BY DEF Optional
<1>. QED
  BY <1>3, <1>4, <1>5 DEF Proposal

LEMMA FinalizeStep ==
  ASSUME Sound, NEW r \in Requests, Finalize(r)
  PROVE  Sound'
<1>. DEFINE q == [Idle EXCEPT !.write = "finalize",
                              !.merged = [Blank EXCEPT !.proposed = Proposal(record)]]
<1>1. [Blank EXCEPT !.proposed = Proposal(record)] \in Record
  BY BlankType, ProposalType DEF Record
<1>2. q \in Request /\ q.write = "finalize"
  BY <1>1, IdleType DEF Request, Writes
<1>3. Ask(r, q) /\ edits' \in Nat
  BY DEF Finalize, Sound, TypeOK
<1>. HIDE DEF q
<1>. QED
  BY <1>2, <1>3, AskStep

LEMMA CommitFinalizeStep ==
  ASSUME Sound, NEW r \in Requests, CommitFinalize(r)
  PROVE  Sound'
<1>. DEFINE rec == [record EXCEPT !.proposed = req[r].merged.proposed, !.status = "fixed"]
<1>1. record \in Record /\ req[r].merged \in Record
  BY DEF Sound, TypeOK, Request
<1>2. rec \in Record /\ rec.hand = record.hand /\ rec.ai = record.ai
  BY <1>1 DEF Record
<1>3. Within(rec)
  BY <1>2, WithinTests DEF Sound
<1>4. /\ Save(r, rec)
      /\ typed' \in BOOLEAN /\ inTurn' \in BOOLEAN
      /\ UNCHANGED <<attempts, worth, scores, edits>>
  BY DEF CommitFinalize, Stays, Sound, TypeOK
<1>. HIDE DEF rec
<1>. QED
  BY <1>2, <1>3, <1>4, SaveStep

LEMMA MarkOfferedStep ==
  ASSUME Sound, NEW r \in Requests, MarkOffered(r)
  PROVE  Sound'
<1>. DEFINE q == [Idle EXCEPT !.write = "offer"]
<1>1. q \in Request /\ q.write = "offer"
  BY IdleType DEF Request, Writes
<1>2. Ask(r, q) /\ edits' \in Nat
  BY DEF MarkOffered, Sound, TypeOK
<1>. HIDE DEF q
<1>. QED
  BY <1>1, <1>2, AskStep

LEMMA CommitOfferStep ==
  ASSUME Sound, NEW r \in Requests, CommitOffer(r)
  PROVE  Sound'
<1>. DEFINE rec == [record EXCEPT !.offered = TRUE]
<1>1. rec \in Record /\ rec.hand = record.hand /\ rec.ai = record.ai
  BY DEF Record, Sound, TypeOK
<1>2. Within(rec)
  BY <1>1, WithinTests DEF Sound
<1>3. /\ Save(r, rec)
      /\ typed' \in BOOLEAN /\ inTurn' \in BOOLEAN
      /\ UNCHANGED <<attempts, worth, scores, edits>>
  BY DEF CommitOffer, Sound, TypeOK
<1>. HIDE DEF rec
<1>. QED
  BY <1>1, <1>2, <1>3, SaveStep

LEMMA PresetType ==
  ASSUME NEW rec \in Record, NEW g \in Optional(Grades)
  PROVE  /\ [rec EXCEPT !.grade = g] \in Record
         /\ [rec EXCEPT !.grade = g].hand = rec.hand
         /\ [rec EXCEPT !.grade = g].ai = rec.ai
BY DEF Record

LEMMA GetStep ==
  ASSUME Sound, NEW r \in Requests, Get(r)
  PROVE  Sound'
<1>1. PICK g \in Grades :
        Ask(r, [Idle EXCEPT !.write = "preset", !.merged = [Blank EXCEPT !.grade = {g}]])
  BY DEF Get
<1>. DEFINE q == [Idle EXCEPT !.write = "preset", !.merged = [Blank EXCEPT !.grade = {g}]]
<1>2. [Blank EXCEPT !.grade = {g}] \in Record
  BY BlankType, PresetType DEF Optional
<1>3. q \in Request /\ q.write = "preset"
  BY <1>2, IdleType DEF Request, Writes
<1>4. Ask(r, q) /\ edits' \in Nat
  BY <1>1 DEF Get, Sound, TypeOK
<1>. HIDE DEF q
<1>. QED
  BY <1>3, <1>4, AskStep

LEMMA CommitPresetStep ==
  ASSUME Sound, NEW r \in Requests, CommitPreset(r)
  PROVE  Sound'
<1>. DEFINE rec == [record EXCEPT !.grade = req[r].merged.grade]
<1>1. record \in Record /\ req[r].merged.grade \in Optional(Grades)
  BY DEF Sound, TypeOK, Request, Record
<1>2. rec \in Record /\ rec.hand = record.hand /\ rec.ai = record.ai
  BY <1>1, PresetType
<1>3. Within(rec)
  BY <1>2, WithinTests DEF Sound
<1>4. /\ Save(r, rec)
      /\ typed' \in BOOLEAN /\ inTurn' \in BOOLEAN
      /\ UNCHANGED <<attempts, worth, scores, edits>>
  BY DEF CommitPreset, Sound, TypeOK
<1>. HIDE DEF rec
<1>. QED
  BY <1>2, <1>3, <1>4, SaveStep

LEMMA MarkTestsStep ==
  ASSUME Sound, NEW r \in Requests, MarkTests(r)
  PROVE  Sound'
<1>1. PICK delegate \in BOOLEAN, hand \in Typings(record.hand), ai \in Switchings(record.ai) :
        /\ Sensible(hand)
        /\ Ask(r, [Idle EXCEPT !.write = "marks", !.delegate = delegate,
                               !.merged = [Blank EXCEPT !.hand = hand, !.ai = ai]])
  BY DEF MarkTests
<1>. DEFINE merged == [Blank EXCEPT !.hand = hand, !.ai = ai]
            q == [Idle EXCEPT !.write = "marks", !.delegate = delegate, !.merged = merged]
<1>2. hand \in Test /\ ai \in Test
  BY <1>1, BoxType DEF Sound, TypeOK, Record
<1>3. merged \in Record /\ merged.hand = hand
  BY <1>2, BlankType DEF Record
<1>4. Ask(r, q) /\ edits' \in Nat
  BY <1>1, EditType DEF MarkTests
<1>. HIDE DEF merged
<1>5. q \in Request /\ q.write = "marks" /\ q.merged = merged
  BY <1>3, IdleType DEF Request, Writes
<1>. HIDE DEF q
<1>. QED
  BY <1>1, <1>3, <1>4, <1>5, AskStep

LEMMA CommitMarksStep ==
  ASSUME Sound, NEW r \in Requests, CommitMarks(r)
  PROVE  Sound'
<1>. DEFINE rec == Marked(record, req[r].merged)
<1>1. req[r].merged \in Record /\ record \in Record
  BY DEF Sound, TypeOK, Request
<1>2. Sensible(req[r].merged.hand)
  BY DEF CommitMarks, At, Sound, Counted
<1>3. Sensible(record.ai)
  BY WithinTests DEF Sound
<1>4. rec \in Record /\ rec.hand = req[r].merged.hand /\ (Sensible(rec.ai) <=> Sensible(record.ai))
  BY <1>1, MarkedType
<1>5. Within(rec)
  BY <1>2, <1>3, <1>4, WithinTests
<1>6. /\ Save(r, rec)
      /\ typed' \in BOOLEAN /\ inTurn' \in BOOLEAN
      /\ UNCHANGED <<attempts, worth, scores, edits>>
  BY DEF CommitMarks, Stays, Sound, TypeOK
<1>. HIDE DEF rec
<1>. QED
  BY <1>4, <1>5, <1>6, SaveStep

LEMMA BriefStep ==
  ASSUME Sound, Brief
  PROVE  Sound'
<1>1. PICK hand \in Switchings(record.hand) \cup Totals(record.hand), ai \in Switchings(record.ai) :
        IF Sensible(hand)
          THEN /\ record' = [record EXCEPT !.hand = hand, !.ai = ai]
               /\ req' = Stale(Requests)
          ELSE UNCHANGED <<record, req>>
  BY DEF Brief
<1>2. UNCHANGED <<attempts, worth, scores, refused, typed, inTurn>> /\ edits' \in Nat
  BY EditType DEF Brief
<1>3. record \in Record /\ record.hand \in Test /\ record.ai \in Test
  BY DEF Sound, TypeOK, Record
<1>4. CASE Sensible(hand)
  <2>1. record' = [record EXCEPT !.hand = hand, !.ai = ai] /\ req' = Stale(Requests)
    BY <1>1, <1>4
  <2>2. hand \in Test /\ ai \in Test
    BY <1>3, BoxType
  <2>3. record' \in Record /\ record'.hand = hand /\ record'.ai = ai
    BY <1>3, <2>1, <2>2 DEF Record
  <2>4. Sensible(ai)
    BY <1>3, SwitchingSensible, WithinTests DEF Sound
  <2>5. Within(record)'
    BY <1>4, <2>3, <2>4 DEF Within, Sensible
  <2>6. /\ req' \in [Requests -> Request]
        /\ \A q \in Requests :
             /\ req'[q].write = req[q].write
             /\ req'[q].merged = req[q].merged
             /\ req'[q].attempt = req[q].attempt
             /\ req'[q].score = req[q].score
    BY <2>1, StaleType DEF Sound, TypeOK
  <2>7. \A q \in Requests : Counted(q)'
    BY <1>2, <2>6 DEF Sound, Counted
  <2>8. TypeOK'
    BY <1>2, <2>3, <2>6 DEF Sound, TypeOK
  <2>. QED
    BY <1>2, <2>5, <2>7, <2>8 DEF Sound, SaveNotRefused
<1>5. CASE ~Sensible(hand)
  <2>1. UNCHANGED <<record, req>>
    BY <1>1, <1>5
  <2>. QED
    BY <1>2, <2>1 DEF Sound, TypeOK, SaveNotRefused, Within, Counted
<1>. QED
  BY <1>4, <1>5

(* Steps that touch neither the row, nor the attempts, nor a request. *)
LEMMA ElsewhereStep ==
  ASSUME Sound, UNCHANGED <<record, attempts, req, refused, typed, inTurn>>,
         worth' \in 0..Top, scores' \in 0..MaxScores, edits' \in Nat
  PROVE  Sound'
BY DEF Sound, TypeOK, SaveNotRefused, Within, Counted

LEMMA EvaluateStep == Sound /\ Evaluate => Sound'
<1>. SUFFICES ASSUME Sound, Evaluate PROVE Sound'
  OBVIOUS
<1>1. scores' \in 0..MaxScores
  BY BoundsAssumption DEF Evaluate, Sound, TypeOK
<1>2. UNCHANGED <<record, attempts, worth, req, refused, typed, edits, inTurn>>
  BY DEF Evaluate
<1>. QED
  BY <1>1, <1>2, ElsewhereStep DEF Sound, TypeOK

LEMMA EditBankStep == Sound /\ EditBank => Sound'
<1>. SUFFICES ASSUME Sound, EditBank PROVE Sound'
  OBVIOUS
<1>1. worth' \in 0..Top /\ edits' \in Nat
  BY ScaleAssumption, EditType DEF EditBank
<1>2. UNCHANGED <<record, attempts, scores, req, refused, typed, inTurn>>
  BY DEF EditBank
<1>. QED
  BY <1>1, <1>2, ElsewhereStep DEF Sound, TypeOK

LEMMA AssignTestStep ==
  ASSUME Sound, NEW r \in Requests, AssignTest(r)
  PROVE  Sound'
<1>1. PICK g \in Grades :
        Ask(r, [Idle EXCEPT !.write = "attempt", !.attempt = Len(attempts), !.score = worth,
                            !.merged = [Blank EXCEPT !.grade = {g}]])
  BY DEF AssignTest
<1>. DEFINE merged == [Blank EXCEPT !.grade = {g}]
            q == [Idle EXCEPT !.write = "attempt", !.attempt = Len(attempts), !.score = worth,
                              !.merged = merged]
<1>2. merged \in Record
  BY BlankType, PresetType DEF Optional
<1>3. Ask(r, q) /\ edits' \in Nat
  BY <1>1 DEF AssignTest, Sound, TypeOK
<1>. HIDE DEF merged
<1>4. Len(attempts) \in Nat /\ worth \in 0..Top /\ worth > 0
  BY DEF AssignTest, Sound, TypeOK
<1>5. q \in Request /\ q.write = "attempt" /\ q.score = worth
  BY <1>2, <1>4, IdleType DEF Request, Writes
<1>. HIDE DEF q
<1>. QED
  BY <1>3, <1>4, <1>5, AskStep

LEMMA CommitAttemptStep ==
  ASSUME Sound, NEW r \in Requests, CommitAttempt(r)
  PROVE  Sound'
<1>. DEFINE new == NewAttempt(req[r].score)
            q == [Idle EXCEPT !.write = "preset", !.merged = req[r].merged]
<1>1. /\ attempts' = Append(attempts, new)
      /\ req' = [req EXCEPT ![r] = q]
      /\ UNCHANGED <<record, worth, scores, refused, typed, edits>>
      /\ inTurn' \in BOOLEAN
  BY DEF CommitAttempt, Stays, Sound, TypeOK
<1>2. req[r].score \in 0..Top /\ req[r].score > 0 /\ req[r].merged \in Record
  BY DEF CommitAttempt, At, Sound, TypeOK, Counted, Request
<1>3. new \in Attempt
  BY <1>2, BoundsAssumption DEF NewAttempt, Attempt
<1>4. q \in Request /\ q.write = "preset"
  BY <1>2, IdleType DEF Request, Writes
<1>. HIDE DEF new, q
<1>5. attempts \in Seq(Attempt) /\ req \in [Requests -> Request]
  BY DEF Sound, TypeOK
<1>6. /\ attempts' \in Seq(Attempt)
      /\ DOMAIN attempts \subseteq DOMAIN attempts'
      /\ \A i \in DOMAIN attempts : attempts'[i] = attempts[i]
  BY <1>1, <1>3, <1>5
<1>7. req' \in [Requests -> Request]
  BY <1>1, <1>4, <1>5, RequestSet
<1>8. TypeOK'
  BY <1>1, <1>6, <1>7 DEF Sound, TypeOK
<1>9. ASSUME NEW p \in Requests
      PROVE  Counted(p)'
  <2>1. CASE p = r
    <3>1. req'[p] = q
      BY <1>1, <1>5, <2>1
    <3>. QED
      BY <1>4, <3>1 DEF Counted
  <2>2. CASE p # r
    <3>1. req'[p] = req[p] /\ Counted(p)
      BY <1>1, <1>5, <2>2 DEF Sound
    <3>. QED
      BY <1>6, <3>1, CountedFrame
  <2>. QED
    BY <2>1, <2>2
<1>. QED
  BY <1>1, <1>8, <1>9 DEF Sound, Within, SaveNotRefused

LEMMA SubmitTestStep ==
  ASSUME Sound, NEW r \in Requests, SubmitTest(r)
  PROVE  Sound'
<1>1. PICK i \in Pending, score \in Scale :
        Ask(r, [Idle EXCEPT !.write = "submit", !.attempt = i, !.score = score])
  BY DEF SubmitTest
<1>. DEFINE q == [Idle EXCEPT !.write = "submit", !.attempt = i, !.score = score]
<1>2. i \in DOMAIN attempts /\ i \in Nat /\ score \in 0..Top
  BY ScaleAssumption DEF Pending, Sound, TypeOK
<1>3. q \in Request /\ q.write = "submit" /\ q.attempt = i
  BY <1>2, IdleType DEF Request, Writes
<1>4. Ask(r, q) /\ edits' \in Nat
  BY <1>1 DEF SubmitTest, Sound, TypeOK
<1>. HIDE DEF q
<1>. QED
  BY <1>2, <1>3, <1>4, AskStep

(* Handing in a test leaves what it is out of alone. *)
LEMMA HandInType ==
  ASSUME NEW seq \in Seq(Attempt), NEW i \in DOMAIN seq, NEW score \in 0..Top
  PROVE  LET new == [seq EXCEPT ![i] = [seq[i] EXCEPT !.status = "submitted", !.score = score]]
         IN  /\ new \in Seq(Attempt)
             /\ DOMAIN new = DOMAIN seq
             /\ \A j \in DOMAIN seq : new[j].max = seq[j].max
<1>. DEFINE a == [seq[i] EXCEPT !.status = "submitted", !.score = score]
            new == [seq EXCEPT ![i] = a]
<1>1. i \in 1..Len(seq) /\ seq[i] \in Attempt
  OBVIOUS
<1>2. a \in Attempt /\ a.max = seq[i].max
  BY <1>1 DEF Attempt
<1>. HIDE DEF a
<1>3. new \in Seq(Attempt)
  BY <1>1, <1>2, ExceptSeq
<1>4. \A j \in DOMAIN seq : new[j].max = seq[j].max
  BY <1>2
<1>. QED
  BY <1>3, <1>4 DEF a

LEMMA CommitSubmitStep ==
  ASSUME Sound, NEW r \in Requests, CommitSubmit(r)
  PROVE  Sound'
<1>. DEFINE i == req[r].attempt
<1>1. /\ req[r].write = "submit"
      /\ i \in DOMAIN attempts
      /\ req[r] \in Request
  BY DEF CommitSubmit, At, Sound, Counted, TypeOK
<1>2. /\ UNCHANGED <<record, worth, scores, refused, typed, edits>>
      /\ inTurn' \in BOOLEAN
  BY DEF CommitSubmit, Stays, Sound, TypeOK
<1>3. attempts \in Seq(Attempt) /\ req \in [Requests -> Request]
  BY DEF Sound, TypeOK
<1>4. CASE req[r].score <= attempts[i].max
  <2>1. /\ attempts' = [attempts EXCEPT ![i].status = "submitted", ![i].score = req[r].score]
        /\ req' = [req EXCEPT ![r].write = "result"]
    BY <1>4 DEF CommitSubmit
  <2>2. req[r].score \in 0..Top
    BY <1>1 DEF Request
  <2>. DEFINE new == [attempts EXCEPT ![i] = [attempts[i] EXCEPT !.status = "submitted",
                                                              !.score = req[r].score]]
  <2>3. /\ attempts' \in Seq(Attempt)
        /\ DOMAIN attempts' = DOMAIN attempts
        /\ \A j \in DOMAIN attempts : attempts'[j].max = attempts[j].max
    <3>1. /\ new \in Seq(Attempt)
          /\ DOMAIN new = DOMAIN attempts
          /\ \A j \in DOMAIN attempts : new[j].max = attempts[j].max
      <4>. DEFINE score == req[r].score
      <4>1. i \in DOMAIN attempts /\ score \in 0..Top
        BY <1>1, <2>2
      <4>. HIDE DEF i, score
      <4>2. \A s \in 0..Top :
              LET more == [attempts EXCEPT ![i] = [attempts[i] EXCEPT !.status = "submitted", !.score = s]]
              IN  /\ more \in Seq(Attempt)
                  /\ DOMAIN more = DOMAIN attempts
                  /\ \A j \in DOMAIN attempts : more[j].max = attempts[j].max
        BY ZenonT(60), <1>3, <4>1, HandInType
      <4>. QED
        BY <4>1, <4>2 DEF score
    <3>2. attempts' = new
      BY <2>1
    <3>. HIDE DEF new
    <3>. QED
      BY <3>1, <3>2
  <2>. DEFINE q == [req[r] EXCEPT !.write = "result"]
  <2>4. /\ q \in Request
        /\ q.write = "result" /\ q.attempt = i /\ q.score = req[r].score
    BY <1>1 DEF Request, Writes
  <2>5. req' = [req EXCEPT ![r] = q]
    BY <1>3, <2>1
  <2>. HIDE DEF q
  <2>6. req' \in [Requests -> Request]
    BY <1>3, <2>4, <2>5, RequestSet
  <2>7. TypeOK'
    BY <1>2, <2>3, <2>6 DEF Sound, TypeOK
  <2>8. ASSUME NEW p \in Requests
        PROVE  Counted(p)'
    <3>1. CASE p = r
      <4>1. req'[p] = q
        BY <1>3, <2>5, <3>1
      <4>. QED
        BY <1>1, <1>4, <2>3, <2>4, <4>1 DEF Counted
    <3>2. CASE p # r
      <4>1. req'[p] = req[p] /\ Counted(p)
        BY <1>3, <2>5, <3>2 DEF Sound
      <4>. QED
        BY <2>3, <4>1, CountedFrame
    <3>. QED
      BY <3>1, <3>2
  <2>. QED
    BY <1>2, <2>7, <2>8 DEF Sound, Within, SaveNotRefused
<1>5. CASE ~(req[r].score <= attempts[i].max)
  <2>1. attempts' = attempts /\ req' = [req EXCEPT ![r] = Idle]
    BY <1>5 DEF CommitSubmit
  <2>2. req' \in [Requests -> Request]
    BY <1>3, <2>1, IdleType, RequestSet
  <2>3. TypeOK'
    BY <1>2, <2>1, <2>2 DEF Sound, TypeOK
  <2>4. ASSUME NEW p \in Requests
        PROVE  Counted(p)'
    <3>1. req'[p] = Idle \/ req'[p] = req[p]
      BY <1>3, <2>1
    <3>2. Counted(p)
      BY DEF Sound
    <3>. QED
      BY <2>1, <3>1, <3>2, IdleCounted, CountedFrame
  <2>. QED
    BY <1>2, <2>3, <2>4 DEF Sound, Within, SaveNotRefused
<1>. QED
  BY <1>4, <1>5

LEMMA RecordResultStep ==
  ASSUME Sound, NEW r \in Requests, RecordResult(r)
  PROVE  Sound'
<1>. DEFINE max == attempts[req[r].attempt].max
            score == req[r].score
            rec == ResultOf(record, max, score)
<1>1. record \in Record /\ req[r] \in Request /\ attempts \in Seq(Attempt)
  BY DEF Sound, TypeOK
<1>2. req[r].attempt \in DOMAIN attempts /\ score <= max
  BY DEF RecordResult, At, Sound, Counted
<1>3. max \in 1..Top /\ score \in 0..Top
  <2>1. attempts[req[r].attempt] \in Attempt
    BY <1>1, <1>2
  <2>. QED
    BY <1>1, <2>1 DEF Attempt, Request
<1>4. /\ Save(r, rec)
      /\ typed' \in BOOLEAN /\ inTurn' \in BOOLEAN
      /\ UNCHANGED <<attempts, worth, scores, edits>>
  BY DEF RecordResult, Stays, Sound, TypeOK
<1>. HIDE DEF max, score
<1>5. rec \in Record /\ rec.hand = record.hand /\ Sensible(rec.ai)
  BY <1>1, <1>2, <1>3, ResultType
<1>6. Within(rec)
  BY <1>5, WithinTests DEF Sound
<1>. HIDE DEF rec
<1>. QED
  BY <1>4, <1>5, <1>6, SaveStep

LEMMA FailStep ==
  ASSUME Sound, NEW r \in Requests, Fail(r)
  PROVE  Sound'
<1>1. /\ req' = [req EXCEPT ![r] = Idle]
      /\ UNCHANGED <<record, attempts, worth, scores, refused, typed, edits>>
      /\ inTurn' \in BOOLEAN
  BY DEF Fail, Stays, Sound, TypeOK
<1>2. req \in [Requests -> Request]
  BY DEF Sound, TypeOK
<1>3. req' \in [Requests -> Request]
  BY <1>1, <1>2, IdleType, RequestSet
<1>4. TypeOK'
  BY <1>1, <1>3 DEF Sound, TypeOK
<1>5. ASSUME NEW p \in Requests
      PROVE  Counted(p)'
  <2>1. req'[p] = Idle \/ req'[p] = req[p]
    BY <1>1, <1>2
  <2>2. Counted(p)
    BY DEF Sound
  <2>. QED
    BY <1>1, <2>1, <2>2, IdleCounted, CountedFrame
<1>. QED
  BY <1>1, <1>4, <1>5 DEF Sound, Within, SaveNotRefused

-----------------------------------------------------------------------------
(* The specification *)

LEMMA SoundInit == Init => Sound
<1>. SUFFICES ASSUME Init PROVE Sound
  OBVIOUS
<1>1. attempts \in Seq(Attempt)
  BY DEF Init
<1>2. record \in Record /\ req \in [Requests -> Request]
  BY BlankType, IdleType DEF Init
<1>3. worth \in 0..Top /\ scores \in 0..MaxScores /\ edits \in Nat
  BY BoundsAssumption DEF Init
<1>4. refused \in SUBSET Writes /\ typed \in BOOLEAN /\ inTurn \in BOOLEAN
  BY DEF Init
<1>5. TypeOK
  BY <1>1, <1>2, <1>3, <1>4 DEF TypeOK
<1>6. Within(record) /\ SaveNotRefused
  BY DEF Init, Blank, Within, SaveNotRefused
<1>7. \A r \in Requests : Counted(r)
  BY DEF Init, Idle, Counted
<1>. QED
  BY <1>5, <1>6, <1>7 DEF Sound

LEMMA SoundStep == Sound /\ [Next]_vars => Sound'
<1>. SUFFICES ASSUME Sound, [Next]_vars PROVE Sound'
  OBVIOUS
<1>1. CASE Brief
  BY <1>1, BriefStep
<1>2. CASE Evaluate
  BY <1>2, EvaluateStep
<1>3. CASE EditBank
  BY <1>3, EditBankStep
<1>4. ASSUME NEW r \in Requests, Upsert(r) \/ CommitUpsert(r) \/ Finalize(r) \/ CommitFinalize(r)
      PROVE  Sound'
  BY <1>4, UpsertStep, CommitUpsertStep, FinalizeStep, CommitFinalizeStep
<1>5. ASSUME NEW r \in Requests, MarkOffered(r) \/ CommitOffer(r) \/ Get(r) \/ CommitPreset(r)
      PROVE  Sound'
  BY <1>5, MarkOfferedStep, CommitOfferStep, GetStep, CommitPresetStep
<1>6. ASSUME NEW r \in Requests, MarkTests(r) \/ CommitMarks(r) \/ Fail(r)
      PROVE  Sound'
  BY <1>6, MarkTestsStep, CommitMarksStep, FailStep
<1>7. ASSUME NEW r \in Requests,
             \/ AssignTest(r) \/ CommitAttempt(r)
             \/ SubmitTest(r) \/ CommitSubmit(r) \/ RecordResult(r)
      PROVE  Sound'
  BY <1>7, AssignTestStep, CommitAttemptStep, SubmitTestStep, CommitSubmitStep, RecordResultStep
<1>8. CASE UNCHANGED vars
  BY <1>8 DEF vars, Sound, TypeOK, SaveNotRefused, Within, Counted
<1>. QED
  BY <1>1, <1>2, <1>3, <1>4, <1>5, <1>6, <1>7, <1>8 DEF Next

(* The invariant of the salary record, its tests and the requests in flight. *)
THEOREM SoundTheorem == Spec => []Sound
BY SoundInit, SoundStep, PTL DEF Spec

(* The row, the attempts and what every request in flight holds are always of
   the right type (salary-fixation.service.ts, ai-proficiency.service.ts). *)
THEOREM TypeTheorem == Spec => []TypeOK
<1>1. Sound => TypeOK
  BY DEF Sound
<1>. QED
  BY <1>1, SoundTheorem, PTL

(* No interleaving of form saves, finalizations, offers, presets, hand-entered
   marks and AI results ever makes the database refuse a save that was checked:
   salary_fixations_marks_within_totals never fires on one. *)
THEOREM SaveTheorem == Spec => []SaveNotRefused
<1>1. Sound => SaveNotRefused
  BY DEF Sound
<1>. QED
  BY <1>1, SoundTheorem, PTL
-----------------------------------------------------------------------------
(* What is kept as long as every write lands in turn.  A request that is still
   fresh has read the row as it stands: the figure it is about to finalize is
   HR's if there is one, and a delegate's marks leave a marked test alone.  A
   link is about to be sent only while none is out, and the result about to be
   recorded is that of the test it was handed in for. *)

FigureRead(r) ==
  LET q == req[r] IN
    q.write = "finalize" /\ q.fresh /\ record.override # {} => q.merged.proposed = record.override

HandRead(r) ==
  LET q == req[r] IN
    q.write = "marks" /\ q.delegate /\ q.fresh => ~Locked(record.hand, q.merged.hand)

Assigning(r) ==
  LET q == req[r] IN
    q.write = "attempt" =>
      q.attempt <= Len(attempts) /\ (q.attempt = Len(attempts) => MayAssign)

HandedIn(r) ==
  LET q == req[r] IN
    inTurn /\ q.write = "result" =>
      attempts[q.attempt].status = "submitted" /\ attempts[q.attempt].score = q.score

Reads(r) == FigureRead(r) /\ HandRead(r) /\ Assigning(r) /\ HandedIn(r)

Kept ==
  /\ \A r \in Requests : Reads(r)
  /\ FixedHonoursOverride
  /\ OneLinkOut
  /\ ResultCarried

ResultDue == \E r \in Requests : At(r, "result")

(* Marking the requests that write back leaves the rest of them as it is. *)
LEMMA StaleReads ==
  ASSUME req \in [Requests -> Request], NEW others, NEW q \in Requests
  PROVE  LET new == Stale(others)[q] IN
           /\ new.write = req[q].write /\ new.merged = req[q].merged
           /\ new.attempt = req[q].attempt /\ new.score = req[q].score
           /\ new.delegate = req[q].delegate
           /\ q \in others /\ new.write \in WritesBack => ~new.fresh
<1>. DEFINE old == req[q]
            new == [old EXCEPT !.fresh = FALSE]
<1>1. old \in Request
  OBVIOUS
<1>. HIDE DEF old
<1>2. /\ new.write = old.write /\ new.merged = old.merged
      /\ new.attempt = old.attempt /\ new.score = old.score
      /\ new.delegate = old.delegate /\ ~new.fresh
  BY <1>1 DEF Request
<1>3. Stale(others)[q] = IF q \in others /\ old.write \in WritesBack THEN new ELSE old
  BY DEF Stale, old
<1>. HIDE DEF new
<1>. QED
  BY <1>2, <1>3 DEF old

(* An idle request has read nothing. *)
LEMMA IdleReads ==
  ASSUME NEW r \in Requests, req'[r] = Idle
  PROVE  Reads(r)' /\ ~At(r, "result")'
BY DEF Reads, FigureRead, HandRead, Assigning, HandedIn, Idle, At

(* After a save the others no longer count as having read the row. *)
LEMMA SavedReads ==
  ASSUME Sound, Kept, NEW r \in Requests, NEW rec, Within(rec), Save(r, rec),
         attempts' = attempts, inTurn' => inTurn
  PROVE  /\ record' = rec
         /\ \A q \in Requests : Reads(q)'
         /\ \A q \in Requests : q # r => req'[q].write = req[q].write
<1>. DEFINE stale == Stale(Requests \ {r})
<1>1. record' = rec /\ req' = [stale EXCEPT ![r] = Idle]
  BY DEF Save
<1>2. req \in [Requests -> Request]
  BY DEF Sound, TypeOK
<1>3. stale \in [Requests -> Request]
  BY <1>2, StaleType
<1>4. ASSUME NEW q \in Requests, q # r
      PROVE  /\ stale[q].write = req[q].write /\ stale[q].merged = req[q].merged
             /\ stale[q].attempt = req[q].attempt /\ stale[q].score = req[q].score
             /\ stale[q].write \in WritesBack => ~stale[q].fresh
  BY <1>2, <1>4, StaleReads
<1>. HIDE DEF stale
<1>5. req'[r] = Idle /\ \A q \in Requests : q # r => req'[q] = stale[q]
  BY <1>1, <1>3
<1>6. ASSUME NEW q \in Requests, q # r
      PROVE  Reads(q)'
  <2>1. Assigning(q) /\ HandedIn(q)
    BY DEF Kept, Reads
  <2>2. req'[q] = stale[q]
    BY <1>5, <1>6
  <2>3. FigureRead(q)' /\ HandRead(q)'
    BY <1>4, <1>6, <2>2 DEF FigureRead, HandRead, WritesBack
  <2>4. Assigning(q)'
    BY <1>4, <1>6, <2>1, <2>2 DEF Assigning, MayAssign
  <2>5. HandedIn(q)'
    BY <1>4, <1>6, <2>1, <2>2 DEF HandedIn
  <2>. QED
    BY <2>3, <2>4, <2>5 DEF Reads
<1>7. Reads(r)'
  BY <1>5, IdleReads
<1>. QED
  BY <1>1, <1>4, <1>5, <1>6, <1>7

(* The link that is out and the result on record are untouched by a step that
   leaves the attempts, the AI mark and the results still due alone. *)
LEMMA CarriedFrame ==
  ASSUME OneLinkOut, ResultCarried, attempts' = attempts, inTurn' => inTurn,
         ~typed' => ~typed /\ record'.ai.mark = record.ai.mark,
         ResultDue => ResultDue'
  PROVE  OneLinkOut' /\ ResultCarried'
<1>1. OneLinkOut'
  BY DEF OneLinkOut, Pending
<1>2. ResultCarried'
  <2>. SUFFICES ASSUME inTurn', ~typed', NEW i \in Submitted, \A j \in Submitted : j <= i
                PROVE  record'.ai.mark = {attempts[i].score} \/ ResultDue'
    BY DEF ResultCarried, Submitted, ResultDue
  <2>1. record.ai.mark = {attempts[i].score} \/ ResultDue
    BY DEF ResultCarried, ResultDue
  <2>. QED
    BY <2>1
<1>. QED
  BY <1>1, <1>2

(* A save by a request other than one with a result leaves the results due. *)
LEMMA DueAfter ==
  ASSUME NEW r \in Requests, ~At(r, "result"),
         \A q \in Requests : q # r => req'[q].write = req[q].write
  PROVE  ResultDue => ResultDue'
BY DEF ResultDue, At

(* A save that keeps the figure, HR's own figure and the status keeps HR's figure honoured. *)
LEMMA HonoursFrame ==
  ASSUME FixedHonoursOverride, inTurn' => inTurn, record'.override = record.override,
         record'.proposed = record.proposed, record'.status = record.status
  PROVE  FixedHonoursOverride'
BY DEF FixedHonoursOverride

LEMMA AskKept ==
  ASSUME Sound, Kept, NEW r \in Requests, NEW q \in Request, Ask(r, q),
         q.write = "finalize" => (record.override # {} => q.merged.proposed = record.override),
         q.write = "marks" => (q.delegate => ~Locked(record.hand, q.merged.hand)),
         q.write = "attempt" => q.attempt = Len(attempts) /\ MayAssign,
         q.write # "result"
  PROVE  Kept'
<1>1. /\ req[r].write = "none"
      /\ req' = [req EXCEPT ![r] = q]
      /\ UNCHANGED <<record, attempts, worth, scores, refused, typed, inTurn>>
  BY DEF Ask, At
<1>2. req \in [Requests -> Request] /\ Len(attempts) \in Nat
  BY DEF Sound, TypeOK
<1>3. Reads(r)'
  <2>1. req'[r] = q
    BY <1>1, <1>2
  <2>2. FigureRead(r)' /\ HandRead(r)' /\ HandedIn(r)'
    BY <1>1, <2>1 DEF FigureRead, HandRead, HandedIn
  <2>3. Assigning(r)'
    BY <1>1, <1>2, <2>1 DEF Assigning, MayAssign
  <2>. QED
    BY <2>2, <2>3 DEF Reads
<1>4. ASSUME NEW p \in Requests, p # r
      PROVE  Reads(p)' /\ req'[p].write = req[p].write
  <2>1. req'[p] = req[p] /\ Reads(p)
    BY <1>1, <1>2, <1>4 DEF Kept
  <2>. QED
    BY <1>1, <2>1 DEF Reads, FigureRead, HandRead, Assigning, HandedIn, MayAssign
<1>5. OneLinkOut' /\ ResultCarried'
  <2>1. ResultDue => ResultDue'
    BY <1>1, <1>4, DueAfter DEF At
  <2>. QED
    BY <1>1, <2>1, CarriedFrame DEF Kept
<1>6. FixedHonoursOverride'
  BY <1>1 DEF Kept, FixedHonoursOverride
<1>. QED
  BY <1>3, <1>4, <1>5, <1>6 DEF Kept

LEMMA UpsertKept ==
  ASSUME Sound, Kept, NEW r \in Requests, Upsert(r)
  PROVE  Kept'
<1>1. PICK rec \in Edits(record) :
        Ask(r, [Idle EXCEPT !.write = "upsert", !.merged = Form(Blank, rec)])
  BY DEF Upsert
<1>. DEFINE q == [Idle EXCEPT !.write = "upsert", !.merged = Form(Blank, rec)]
<1>2. Form(Blank, rec) \in Record
  BY <1>1, EditsType, BlankType, FormType DEF Sound, TypeOK
<1>3. q \in Request /\ q.write = "upsert"
  BY <1>2, IdleType DEF Request, Writes
<1>4. Ask(r, q)
  BY <1>1
<1>. HIDE DEF q
<1>. QED
  BY <1>3, <1>4, AskKept

LEMMA CommitUpsertKept ==
  ASSUME Sound, Kept, NEW r \in Requests, CommitUpsert(r)
  PROVE  Kept'
<1>. DEFINE form == Form(record, req[r].merged)
            rec == Reopened(form)
<1>1. req[r].merged \in Record /\ record \in Record
  BY DEF Sound, TypeOK, Request
<1>2. Sensible(req[r].merged.hand) /\ Sensible(req[r].merged.ai)
  BY DEF CommitUpsert, At, Sound, Counted
<1>3. form \in Record /\ form.hand = req[r].merged.hand /\ form.ai = req[r].merged.ai
  BY <1>1, FormType
<1>. HIDE DEF form
<1>4. rec.hand = form.hand /\ rec.ai = form.ai /\ rec.status = "draft"
  BY <1>3 DEF Reopened, Record
<1>5. Within(rec)
  BY <1>2, <1>3, <1>4, WithinTests
<1>6. /\ Save(r, rec) /\ attempts' = attempts /\ (inTurn' => inTurn) /\ ~At(r, "result")
      /\ typed' = (typed \/ record'.ai.mark # record.ai.mark)
  BY DEF CommitUpsert, Stays, At, form
<1>. HIDE DEF rec
<1>7. /\ record' = rec
      /\ \A q \in Requests : Reads(q)'
      /\ \A q \in Requests : q # r => req'[q].write = req[q].write
  BY <1>5, <1>6, SavedReads
<1>8. FixedHonoursOverride'
  BY <1>4, <1>7 DEF FixedHonoursOverride
<1>9. OneLinkOut' /\ ResultCarried'
  BY <1>6, <1>7, DueAfter, CarriedFrame DEF Kept
<1>. QED
  BY <1>7, <1>8, <1>9 DEF Kept

LEMMA FinalizeKept ==
  ASSUME Sound, Kept, NEW r \in Requests, Finalize(r)
  PROVE  Kept'
<1>. DEFINE form == [Blank EXCEPT !.proposed = Proposal(record)]
            q == [Idle EXCEPT !.write = "finalize", !.merged = form]
<1>1. form \in Record /\ form.proposed = Proposal(record)
  BY BlankType, ProposalType DEF Record
<1>2. Ask(r, q)
  BY DEF Finalize
<1>. HIDE DEF form
<1>3. q \in Request /\ q.write = "finalize" /\ q.merged = form
  BY <1>1, IdleType DEF Request, Writes
<1>4. record.override # {} => q.merged.proposed = record.override
  BY <1>1, <1>3 DEF Proposal
<1>. HIDE DEF q
<1>. QED
  BY <1>2, <1>3, <1>4, AskKept

LEMMA CommitFinalizeKept ==
  ASSUME Sound, Kept, NEW r \in Requests, CommitFinalize(r)
  PROVE  Kept'
<1>. DEFINE rec == [record EXCEPT !.proposed = req[r].merged.proposed, !.status = "fixed"]
<1>1. record \in Record
  BY DEF Sound, TypeOK
<1>2. /\ rec.hand = record.hand /\ rec.ai = record.ai /\ rec.override = record.override
      /\ rec.proposed = req[r].merged.proposed
  BY <1>1 DEF Record
<1>3. Within(rec)
  BY <1>2, WithinTests DEF Sound
<1>4. /\ Save(r, rec) /\ attempts' = attempts /\ ~At(r, "result") /\ typed' = typed
      /\ inTurn' => inTurn /\ req[r].fresh
      /\ At(r, "finalize")
  BY DEF CommitFinalize, Stays, At
<1>. HIDE DEF rec
<1>5. /\ record' = rec
      /\ \A q \in Requests : Reads(q)'
      /\ \A q \in Requests : q # r => req'[q].write = req[q].write
  BY <1>3, <1>4, SavedReads
<1>6. FixedHonoursOverride'
  <2>1. FigureRead(r)
    BY DEF Kept, Reads
  <2>. QED
    BY <1>2, <1>4, <1>5, <2>1 DEF FixedHonoursOverride, FigureRead, At
<1>7. OneLinkOut' /\ ResultCarried'
  BY <1>2, <1>4, <1>5, DueAfter, CarriedFrame DEF Kept
<1>. QED
  BY <1>5, <1>6, <1>7 DEF Kept

LEMMA MarkOfferedKept ==
  ASSUME Sound, Kept, NEW r \in Requests, MarkOffered(r)
  PROVE  Kept'
<1>. DEFINE q == [Idle EXCEPT !.write = "offer"]
<1>1. q \in Request /\ q.write = "offer"
  BY IdleType DEF Request, Writes
<1>2. Ask(r, q)
  BY DEF MarkOffered
<1>. HIDE DEF q
<1>. QED
  BY <1>1, <1>2, AskKept

(* A save that leaves the tests' marks, the figures and the status alone. *)
LEMMA SideSaveKept ==
  ASSUME Sound, Kept, NEW r \in Requests, ~At(r, "result"), NEW rec, Within(rec), Save(r, rec),
         attempts' = attempts, typed' = typed, inTurn' => inTurn,
         rec.ai.mark = record.ai.mark, rec.override = record.override,
         rec.proposed = record.proposed, rec.status = record.status
  PROVE  Kept'
<1>1. /\ record' = rec
      /\ \A q \in Requests : Reads(q)'
      /\ \A q \in Requests : q # r => req'[q].write = req[q].write
  BY SavedReads
<1>2. OneLinkOut' /\ ResultCarried'
  BY <1>1, DueAfter, CarriedFrame DEF Kept
<1>3. FixedHonoursOverride'
  BY <1>1, HonoursFrame DEF Kept
<1>. QED
  BY <1>1, <1>2, <1>3 DEF Kept

LEMMA CommitOfferKept ==
  ASSUME Sound, Kept, NEW r \in Requests, CommitOffer(r)
  PROVE  Kept'
<1>. DEFINE rec == [record EXCEPT !.offered = TRUE]
<1>1. /\ rec.hand = record.hand /\ rec.ai = record.ai /\ rec.override = record.override
      /\ rec.proposed = record.proposed /\ rec.status = record.status
  BY DEF Record, Sound, TypeOK
<1>2. Within(rec)
  BY <1>1, WithinTests DEF Sound
<1>3. /\ Save(r, rec) /\ ~At(r, "result")
      /\ UNCHANGED <<attempts, typed, inTurn>>
  BY DEF CommitOffer, At
<1>. HIDE DEF rec
<1>. QED
  BY <1>1, <1>2, <1>3, SideSaveKept

LEMMA GetKept ==
  ASSUME Sound, Kept, NEW r \in Requests, Get(r)
  PROVE  Kept'
<1>1. PICK g \in Grades :
        Ask(r, [Idle EXCEPT !.write = "preset", !.merged = [Blank EXCEPT !.grade = {g}]])
  BY DEF Get
<1>. DEFINE q == [Idle EXCEPT !.write = "preset", !.merged = [Blank EXCEPT !.grade = {g}]]
<1>2. [Blank EXCEPT !.grade = {g}] \in Record
  BY BlankType, PresetType DEF Optional
<1>3. q \in Request /\ q.write = "preset"
  BY <1>2, IdleType DEF Request, Writes
<1>4. Ask(r, q)
  BY <1>1
<1>. HIDE DEF q
<1>. QED
  BY <1>3, <1>4, AskKept

LEMMA CommitPresetKept ==
  ASSUME Sound, Kept, NEW r \in Requests, CommitPreset(r)
  PROVE  Kept'
<1>. DEFINE rec == [record EXCEPT !.grade = req[r].merged.grade]
<1>1. /\ rec.hand = record.hand /\ rec.ai = record.ai /\ rec.override = record.override
      /\ rec.proposed = record.proposed /\ rec.status = record.status
  BY DEF Record, Sound, TypeOK
<1>2. Within(rec)
  BY <1>1, WithinTests DEF Sound
<1>3. /\ Save(r, rec) /\ ~At(r, "result")
      /\ UNCHANGED <<attempts, typed, inTurn>>
  BY DEF CommitPreset, At
<1>. HIDE DEF rec
<1>. QED
  BY <1>1, <1>2, <1>3, SideSaveKept

LEMMA MarkTestsKept ==
  ASSUME Sound, Kept, NEW r \in Requests, MarkTests(r)
  PROVE  Kept'
<1>1. PICK delegate \in BOOLEAN, hand \in Typings(record.hand), ai \in Switchings(record.ai) :
        /\ ~(delegate /\ Locked(record.hand, hand))
        /\ Ask(r, [Idle EXCEPT !.write = "marks", !.delegate = delegate,
                               !.merged = [Blank EXCEPT !.hand = hand, !.ai = ai]])
  BY DEF MarkTests
<1>. DEFINE merged == [Blank EXCEPT !.hand = hand, !.ai = ai]
            q == [Idle EXCEPT !.write = "marks", !.delegate = delegate, !.merged = merged]
<1>2. hand \in Test /\ ai \in Test
  BY <1>1, BoxType DEF Sound, TypeOK, Record
<1>3. merged \in Record /\ merged.hand = hand
  BY <1>2, BlankType DEF Record
<1>4. Ask(r, q)
  BY <1>1
<1>. HIDE DEF merged
<1>5. q \in Request /\ q.write = "marks" /\ q.merged = merged /\ q.delegate = delegate
  BY <1>3, IdleType DEF Request, Writes
<1>6. q.delegate => ~Locked(record.hand, q.merged.hand)
  BY <1>1, <1>3, <1>5
<1>. HIDE DEF q
<1>. QED
  BY <1>4, <1>5, <1>6, AskKept

(* What a save of the marks dialog leaves of the record. *)
LEMMA MarkedKeeps ==
  ASSUME NEW rec \in Record, NEW form \in Record
  PROVE  /\ Marked(rec, form).ai.mark = rec.ai.mark
         /\ Marked(rec, form).override = rec.override
         /\ Marked(rec, form).proposed = rec.proposed
         /\ Marked(rec, form).status = rec.status
BY DEF Marked, Record, Test

LEMMA CommitMarksKept ==
  ASSUME Sound, Kept, NEW r \in Requests, CommitMarks(r)
  PROVE  Kept'
<1>. DEFINE rec == Marked(record, req[r].merged)
<1>1. req[r].merged \in Record /\ record \in Record
  BY DEF Sound, TypeOK, Request
<1>2. Sensible(req[r].merged.hand) /\ Sensible(record.ai)
  BY WithinTests DEF CommitMarks, At, Sound, Counted
<1>3. Within(rec)
  BY <1>1, <1>2, MarkedType, WithinTests
<1>4. /\ rec.ai.mark = record.ai.mark /\ rec.override = record.override
      /\ rec.proposed = record.proposed /\ rec.status = record.status
  BY <1>1, MarkedKeeps
<1>5. /\ Save(r, rec) /\ ~At(r, "result")
      /\ attempts' = attempts /\ typed' = typed /\ (inTurn' => inTurn)
  BY DEF CommitMarks, Stays, At
<1>. HIDE DEF rec
<1>. QED
  BY <1>3, <1>4, <1>5, SideSaveKept

LEMMA BriefKept ==
  ASSUME Sound, Kept, Brief
  PROVE  Kept'
<1>1. PICK hand \in Switchings(record.hand) \cup Totals(record.hand), ai \in Switchings(record.ai) :
        IF Sensible(hand)
          THEN /\ record' = [record EXCEPT !.hand = hand, !.ai = ai]
               /\ req' = Stale(Requests)
          ELSE UNCHANGED <<record, req>>
  BY DEF Brief
<1>2. UNCHANGED <<attempts, typed, inTurn>>
  BY DEF Brief
<1>3. CASE Sensible(hand)
  <2>1. record' = [record EXCEPT !.hand = hand, !.ai = ai] /\ req' = Stale(Requests)
    BY <1>1, <1>3
  <2>2. ai.mark = record.ai.mark
    BY DEF Sound, TypeOK, Record, Test, Switchings
  <2>3. /\ record'.ai = ai /\ record'.override = record.override
        /\ record'.proposed = record.proposed /\ record'.status = record.status
    BY <2>1 DEF Sound, TypeOK, Record
  <2>4. ASSUME NEW q \in Requests
        PROVE  Reads(q)' /\ req'[q].write = req[q].write
    <3>1. /\ req'[q].write = req[q].write /\ req'[q].merged = req[q].merged
          /\ req'[q].attempt = req[q].attempt /\ req'[q].score = req[q].score
          /\ req'[q].write \in WritesBack => ~req'[q].fresh
      BY <2>1, StaleReads DEF Sound, TypeOK
    <3>2. Assigning(q) /\ HandedIn(q)
      BY DEF Kept, Reads
    <3>3. FigureRead(q)' /\ HandRead(q)'
      BY <3>1 DEF FigureRead, HandRead, WritesBack
    <3>4. Assigning(q)' /\ HandedIn(q)'
      BY <1>2, <3>1, <3>2 DEF Assigning, MayAssign, HandedIn
    <3>. QED
      BY <3>1, <3>3, <3>4 DEF Reads
  <2>5. ResultDue => ResultDue'
    BY <2>4 DEF ResultDue, At
  <2>6. OneLinkOut' /\ ResultCarried'
    BY <1>2, <2>2, <2>3, <2>5, CarriedFrame DEF Kept
  <2>7. FixedHonoursOverride'
    BY <1>2, <2>3, HonoursFrame DEF Kept
  <2>. QED
    BY <2>4, <2>6, <2>7 DEF Kept
<1>4. CASE ~Sensible(hand)
  <2>1. UNCHANGED <<record, req>>
    BY <1>1, <1>4
  <2>. QED
    BY <1>2, <2>1 DEF Kept, Reads, FigureRead, HandRead, Assigning, MayAssign, HandedIn,
         FixedHonoursOverride, OneLinkOut, Pending, ResultCarried, Submitted, At
<1>. QED
  BY <1>3, <1>4

(* Evaluations and the question bank are none of it. *)
LEMMA ElsewhereKept ==
  ASSUME Kept, UNCHANGED <<record, attempts, req, typed, inTurn>>
  PROVE  Kept'
BY DEF Kept, Reads, FigureRead, HandRead, Assigning, MayAssign, HandedIn,
       FixedHonoursOverride, OneLinkOut, Pending, ResultCarried, Submitted, At

LEMMA AssignTestKept ==
  ASSUME Sound, Kept, NEW r \in Requests, AssignTest(r)
  PROVE  Kept'
<1>1. PICK g \in Grades :
        Ask(r, [Idle EXCEPT !.write = "attempt", !.attempt = Len(attempts), !.score = worth,
                            !.merged = [Blank EXCEPT !.grade = {g}]])
  BY DEF AssignTest
<1>. DEFINE merged == [Blank EXCEPT !.grade = {g}]
            q == [Idle EXCEPT !.write = "attempt", !.attempt = Len(attempts), !.score = worth,
                              !.merged = merged]
<1>2. merged \in Record
  BY BlankType, PresetType DEF Optional
<1>3. Ask(r, q) /\ MayAssign
  BY <1>1 DEF AssignTest
<1>. HIDE DEF merged
<1>4. Len(attempts) \in Nat /\ worth \in 0..Top
  BY DEF Sound, TypeOK
<1>5. q \in Request /\ q.write = "attempt" /\ q.attempt = Len(attempts)
  BY <1>2, <1>4, IdleType DEF Request, Writes
<1>. HIDE DEF q
<1>. QED
  BY <1>3, <1>5, AskKept

LEMMA CommitAttemptKept ==
  ASSUME Sound, Kept, NEW r \in Requests, CommitAttempt(r)
  PROVE  Kept'
<1>. DEFINE new == NewAttempt(req[r].score)
            q == [Idle EXCEPT !.write = "preset", !.merged = req[r].merged]
            n == Len(attempts)
<1>1. /\ attempts' = Append(attempts, new)
      /\ req' = [req EXCEPT ![r] = q]
      /\ UNCHANGED <<record, typed>>
      /\ inTurn' = (inTurn /\ n = req[r].attempt)
      /\ req[r].write = "attempt"
  BY DEF CommitAttempt, Stays, At
<1>2. q.write = "preset"
  BY DEF Idle
<1>3. attempts \in Seq(Attempt) /\ req \in [Requests -> Request] /\ n \in Nat
  BY DEF Sound, TypeOK
<1>4. new.status = "pending"
  BY DEF NewAttempt
<1>. HIDE DEF new, q
<1>5. /\ Len(attempts') = n + 1
      /\ DOMAIN attempts = 1..n /\ DOMAIN attempts' = 1..n + 1
      /\ attempts'[n + 1] = new
      /\ \A i \in DOMAIN attempts : attempts'[i] = attempts[i]
  BY <1>1, <1>3
<1>6. Reads(r)'
  <2>1. req'[r].write = "preset"
    BY <1>1, <1>2, <1>3
  <2>. QED
    BY <2>1 DEF Reads, FigureRead, HandRead, Assigning, HandedIn
<1>7. ASSUME NEW p \in Requests, p # r
      PROVE  Reads(p)' /\ req'[p] = req[p]
  <2>1. req'[p] = req[p] /\ Reads(p) /\ Counted(p)
    BY <1>1, <1>3, <1>7 DEF Kept, Sound
  <2>2. req[p].attempt \in Nat
    BY <1>3 DEF Request
  <2>3. FigureRead(p)' /\ HandRead(p)'
    BY <1>1, <2>1 DEF Reads, FigureRead, HandRead
  <2>4. Assigning(p)'
    <3>1. req[p].write = "attempt" => req[p].attempt <= n
      BY <2>1 DEF Reads, Assigning
    <3>. QED
      BY <1>3, <1>5, <2>1, <2>2, <3>1 DEF Assigning
  <2>5. HandedIn(p)'
    BY <1>1, <1>5, <2>1 DEF Reads, HandedIn, Counted
  <2>. QED
    BY <2>1, <2>3, <2>4, <2>5 DEF Reads
<1>8. OneLinkOut'
  <2>. SUFFICES ASSUME inTurn' PROVE Pending' \subseteq {n + 1} /\ n + 1 <= MaxAttempts
    BY <1>5 DEF OneLinkOut
  <2>1. inTurn /\ MayAssign
    BY <1>1 DEF Kept, Reads, Assigning
  <2>2. n < MaxAttempts /\ (n # 0 => attempts[n].status # "pending")
    BY <1>3, <2>1 DEF MayAssign
  <2>3. Pending \subseteq {n}
    BY <2>1 DEF Kept, OneLinkOut
  <2>4. Pending = {}
    BY <1>3, <1>5, <2>2, <2>3 DEF Pending
  <2>5. Pending' \subseteq {n + 1}
    BY <1>3, <1>5, <2>4 DEF Pending
  <2>. QED
    BY <1>3, <2>2, <2>5, BoundsAssumption
<1>9. ResultCarried'
  <2>1. Submitted' = Submitted /\ \A i \in Submitted : attempts'[i] = attempts[i]
    BY <1>3, <1>4, <1>5 DEF Submitted
  <2>2. ResultDue => ResultDue'
    BY <1>1, <1>7 DEF ResultDue, At
  <2>3. ResultCarried
    BY DEF Kept
  <2>. QED
    BY <1>1, <2>1, <2>2, <2>3 DEF ResultCarried, ResultDue
<1>10. FixedHonoursOverride'
  BY <1>1 DEF Kept, FixedHonoursOverride
<1>. QED
  BY <1>6, <1>7, <1>8, <1>9, <1>10 DEF Kept

LEMMA SubmitTestKept ==
  ASSUME Sound, Kept, NEW r \in Requests, SubmitTest(r)
  PROVE  Kept'
<1>1. PICK i \in Pending, score \in Scale :
        Ask(r, [Idle EXCEPT !.write = "submit", !.attempt = i, !.score = score])
  BY DEF SubmitTest
<1>. DEFINE q == [Idle EXCEPT !.write = "submit", !.attempt = i, !.score = score]
<1>2. i \in Nat /\ score \in 0..Top
  BY ScaleAssumption DEF Pending, Sound, TypeOK
<1>3. q \in Request /\ q.write = "submit"
  BY <1>2, IdleType DEF Request, Writes
<1>4. Ask(r, q)
  BY <1>1
<1>. HIDE DEF q
<1>. QED
  BY <1>3, <1>4, AskKept

(* Handing in the test `i` is a change of that attempt alone. *)
LEMMA HandInKeeps ==
  ASSUME NEW seq \in Seq(Attempt), NEW i \in DOMAIN seq, NEW score \in 0..Top
  PROVE  LET new == [seq EXCEPT ![i].status = "submitted", ![i].score = score]
         IN  /\ DOMAIN new = DOMAIN seq /\ Len(new) = Len(seq)
             /\ new[i].status = "submitted" /\ new[i].score = score
             /\ \A j \in DOMAIN seq : j # i => new[j] = seq[j]
<1>. DEFINE a == [seq[i] EXCEPT !.status = "submitted", !.score = score]
            new == [seq EXCEPT ![i] = a]
<1>1. i \in 1..Len(seq) /\ seq[i] \in Attempt
  OBVIOUS
<1>2. a \in Attempt /\ a.status = "submitted" /\ a.score = score
  BY <1>1 DEF Attempt
<1>3. [seq EXCEPT ![i].status = "submitted", ![i].score = score] = new
  OBVIOUS
<1>. HIDE DEF a
<1>4. Len(new) = Len(seq)
  BY <1>1, <1>2, ExceptSeq
<1>5. /\ DOMAIN new = DOMAIN seq /\ new[i] = a
      /\ \A j \in DOMAIN seq : j # i => new[j] = seq[j]
  OBVIOUS
<1>. HIDE DEF new
<1>. QED
  BY <1>2, <1>3, <1>4, <1>5

LEMMA CommitSubmitKept ==
  ASSUME Sound, Kept, NEW r \in Requests, CommitSubmit(r)
  PROVE  Kept'
<1>. DEFINE i == req[r].attempt
            score == req[r].score
<1>1. /\ req[r].write = "submit" /\ i \in DOMAIN attempts
      /\ UNCHANGED <<record, typed>>
      /\ inTurn' = (inTurn /\ i \in Pending)
  BY DEF CommitSubmit, At, Stays, Sound, Counted
<1>2. attempts \in Seq(Attempt) /\ req \in [Requests -> Request] /\ Len(attempts) \in Nat
  BY DEF Sound, TypeOK
<1>3. FixedHonoursOverride'
  BY <1>1 DEF Kept, FixedHonoursOverride
<1>4. CASE score <= attempts[i].max
  <2>1. /\ attempts' = [attempts EXCEPT ![i].status = "submitted", ![i].score = score]
        /\ req' = [req EXCEPT ![r].write = "result"]
    BY <1>4 DEF CommitSubmit
  <2>. HIDE DEF i, score
  <2>2. /\ DOMAIN attempts' = DOMAIN attempts /\ Len(attempts') = Len(attempts)
        /\ attempts'[i].status = "submitted" /\ attempts'[i].score = score
        /\ \A j \in DOMAIN attempts : j # i => attempts'[j] = attempts[j]
    <3>1. i \in DOMAIN attempts /\ score \in 0..Top
      <4>1. req[r] \in Request
        BY <1>2
      <4>. QED
        BY <1>1, <4>1 DEF Request, score
    <3>. DEFINE more == [attempts EXCEPT ![i].status = "submitted", ![i].score = score]
    <3>2. /\ DOMAIN more = DOMAIN attempts /\ Len(more) = Len(attempts)
          /\ more[i].status = "submitted" /\ more[i].score = score
          /\ \A j \in DOMAIN attempts : j # i => more[j] = attempts[j]
      <4>1. \A k \in DOMAIN attempts, s \in 0..Top :
              LET mine == [attempts EXCEPT ![k].status = "submitted", ![k].score = s]
              IN  /\ DOMAIN mine = DOMAIN attempts /\ Len(mine) = Len(attempts)
                  /\ mine[k].status = "submitted" /\ mine[k].score = s
                  /\ \A j \in DOMAIN attempts : j # k => mine[j] = attempts[j]
        BY <1>2, HandInKeeps, Zenon
      <4>. QED
        BY <3>1, <4>1, Zenon
    <3>3. attempts' = more
      BY <2>1
    <3>. HIDE DEF more
    <3>. QED
      BY <3>2, <3>3
  <2>3. /\ req'[r].write = "result" /\ req'[r].attempt = i /\ req'[r].score = score
        /\ \A p \in Requests : p # r => req'[p] = req[p]
    <3>1. req[r] \in Request
      BY <1>2
    <3>. QED
      BY <1>2, <2>1, <3>1 DEF Request, i, score
  <2>4. Reads(r)'
    BY <2>2, <2>3 DEF Reads, FigureRead, HandRead, Assigning, HandedIn
  <2>5. ASSUME NEW p \in Requests, p # r
        PROVE  Reads(p)'
    <3>1. req'[p] = req[p] /\ Reads(p) /\ Counted(p)
      BY <2>3, <2>5 DEF Kept, Sound
    <3>2. FigureRead(p)' /\ HandRead(p)'
      BY <1>1, <3>1 DEF Reads, FigureRead, HandRead
    <3>3. MayAssign => MayAssign'
      <4>. SUFFICES ASSUME MayAssign PROVE MayAssign'
        OBVIOUS
      <4>1. Len(attempts') < MaxAttempts
        BY <2>2 DEF MayAssign
      <4>2. ASSUME attempts' # << >>
            PROVE  attempts'[Len(attempts')].status # "pending"
        <5>. DEFINE n == Len(attempts)
        <5>1. n \in DOMAIN attempts /\ attempts # << >>
          BY <1>1, <1>2, <2>2
        <5>2. attempts[n].status # "pending"
          BY <5>1 DEF MayAssign
        <5>. QED
          BY <2>2, <5>1, <5>2
      <4>. QED
        BY <4>1, <4>2 DEF MayAssign
    <3>4. Assigning(p)'
      BY <2>2, <3>1, <3>3 DEF Reads, Assigning
    <3>5. HandedIn(p)'
      <4>. SUFFICES ASSUME inTurn', req[p].write = "result"
                    PROVE  /\ attempts'[req[p].attempt].status = "submitted"
                           /\ attempts'[req[p].attempt].score = req[p].score
        BY <3>1 DEF HandedIn
      <4>1. /\ attempts[req[p].attempt].status = "submitted"
            /\ attempts[req[p].attempt].score = req[p].score
            /\ req[p].attempt \in DOMAIN attempts
            /\ attempts[i].status = "pending"
        BY <1>1, <3>1 DEF Reads, HandedIn, Counted, Pending
      <4>2. req[p].attempt # i
        BY <4>1
      <4>. QED
        BY <2>2, <4>1, <4>2
    <3>. QED
      BY <3>2, <3>4, <3>5 DEF Reads
  <2>6. OneLinkOut'
    <3>1. Pending' \subseteq Pending
      BY <2>2 DEF Pending
    <3>. QED
      BY <1>1, <2>2, <3>1 DEF Kept, OneLinkOut
  <2>7. ResultCarried'
    BY <2>3 DEF ResultCarried, At
  <2>. QED
    BY <1>3, <2>4, <2>5, <2>6, <2>7 DEF Kept
<1>5. CASE ~(score <= attempts[i].max)
  <2>1. attempts' = attempts /\ req' = [req EXCEPT ![r] = Idle]
    BY <1>5 DEF CommitSubmit
  <2>2. ASSUME NEW p \in Requests
        PROVE  Reads(p)'
    <3>1. req'[p] = Idle \/ req'[p] = req[p]
      BY <1>2, <2>1
    <3>2. Reads(p)
      BY DEF Kept
    <3>3. CASE req'[p] = req[p]
      BY <1>1, <2>1, <3>2, <3>3 DEF Reads, FigureRead, HandRead, Assigning, MayAssign, HandedIn
    <3>. QED
      BY <3>1, <3>3, IdleReads
  <2>3. ResultDue => ResultDue'
    BY <1>1, <1>2, <2>1 DEF ResultDue, At
  <2>4. OneLinkOut' /\ ResultCarried'
    BY <1>1, <2>1, <2>3, CarriedFrame DEF Kept
  <2>. QED
    BY <1>3, <2>2, <2>4 DEF Kept
<1>. QED
  BY <1>4, <1>5

(* Putting down a result leaves the figures and the status as they are. *)
LEMMA ResultKeeps ==
  ASSUME NEW rec \in Record, NEW max, NEW score
  PROVE  /\ ResultOf(rec, max, score).ai.mark = {score}
         /\ ResultOf(rec, max, score).hand = rec.hand
         /\ ResultOf(rec, max, score).override = rec.override
         /\ ResultOf(rec, max, score).proposed = rec.proposed
         /\ ResultOf(rec, max, score).status = rec.status
BY DEF ResultOf, Record, Test

LEMMA RecordResultKept ==
  ASSUME Sound, Kept, NEW r \in Requests, RecordResult(r)
  PROVE  Kept'
<1>. DEFINE i == req[r].attempt
            max == attempts[i].max
            score == req[r].score
            rec == ResultOf(record, max, score)
<1>1. /\ record \in Record /\ req[r] \in Request /\ attempts \in Seq(Attempt)
      /\ i \in DOMAIN attempts /\ score <= max
  BY DEF RecordResult, At, Sound, Counted, TypeOK
<1>2. max \in 1..Top /\ score \in 0..Top
  <2>1. attempts[i] \in Attempt
    BY <1>1
  <2>. QED
    BY <1>1, <2>1 DEF Attempt, Request
<1>3. /\ Save(r, rec) /\ attempts' = attempts /\ typed' = FALSE
      /\ inTurn' = (inTurn /\ \A j \in DOMAIN attempts : j > i => j \in Pending)
      /\ req[r].write = "result"
  BY DEF RecordResult, Stays, At
<1>4. inTurn => attempts[i].status = "submitted" /\ attempts[i].score = score
  BY <1>3 DEF Kept, Reads, HandedIn
<1>. HIDE DEF i, max, score
<1>5. Within(rec)
  BY <1>1, <1>2, ResultType, WithinTests DEF Sound
<1>6. /\ rec.ai.mark = {score} /\ rec.override = record.override
      /\ rec.proposed = record.proposed /\ rec.status = record.status
  BY <1>1, ResultKeeps
<1>. HIDE DEF rec
<1>7. record' = rec /\ \A q \in Requests : Reads(q)'
  BY <1>3, <1>5, SavedReads
<1>8. FixedHonoursOverride'
  BY <1>3, <1>6, <1>7, HonoursFrame DEF Kept
<1>9. OneLinkOut'
  BY <1>3 DEF Kept, OneLinkOut, Pending
<1>10. ResultCarried'
  <2>. SUFFICES ASSUME inTurn', NEW k \in Submitted, \A j \in Submitted : j <= k
                PROVE  record'.ai.mark = {attempts[k].score}
    BY <1>3 DEF ResultCarried, Submitted
  <2>1. i \in Submitted
    BY <1>1, <1>3, <1>4 DEF Submitted
  <2>2. k \in DOMAIN attempts /\ attempts[k].status = "submitted"
    BY DEF Submitted
  <2>3. ~(k > i)
    BY <1>3, <2>2 DEF Pending
  <2>4. k \in Nat /\ i \in Nat /\ i <= k
    BY <1>1, <2>1, <2>2
  <2>5. k = i
    BY <2>3, <2>4
  <2>. QED
    BY <1>3, <1>4, <1>6, <1>7, <2>5
<1>. QED
  BY <1>7, <1>8, <1>9, <1>10 DEF Kept

LEMMA FailKept ==
  ASSUME Sound, Kept, NEW r \in Requests, Fail(r)
  PROVE  Kept'
<1>1. /\ req' = [req EXCEPT ![r] = Idle]
      /\ UNCHANGED <<record, attempts, typed>>
      /\ inTurn' = (inTurn /\ ~At(r, "result"))
  BY DEF Fail, Stays
<1>2. req \in [Requests -> Request]
  BY DEF Sound, TypeOK
<1>3. ASSUME NEW p \in Requests
      PROVE  Reads(p)'
  <2>1. req'[p] = Idle \/ req'[p] = req[p]
    BY <1>1, <1>2
  <2>2. Reads(p)
    BY DEF Kept
  <2>3. CASE req'[p] = req[p]
    BY <1>1, <2>2, <2>3 DEF Reads, FigureRead, HandRead, Assigning, MayAssign, HandedIn
  <2>. QED
    BY <2>1, <2>3, IdleReads
<1>4. FixedHonoursOverride' /\ OneLinkOut'
  BY <1>1 DEF Kept, FixedHonoursOverride, OneLinkOut, Pending
<1>5. ResultCarried'
  <2>1. CASE At(r, "result")
    BY <1>1, <2>1 DEF ResultCarried
  <2>2. CASE ~At(r, "result")
    <3>1. \A q \in Requests : q # r => req'[q].write = req[q].write
      BY <1>1, <1>2
    <3>2. ResultDue => ResultDue'
      BY <2>2, <3>1, DueAfter
    <3>. QED
      BY <1>1, <3>2, CarriedFrame DEF Kept
  <2>. QED
    BY <2>1, <2>2
<1>. QED
  BY <1>3, <1>4, <1>5 DEF Kept

LEMMA KeptInit == Init => Kept
<1>. SUFFICES ASSUME Init PROVE Kept
  OBVIOUS
<1>1. \A r \in Requests : Reads(r)
  BY DEF Init, Idle, Reads, FigureRead, HandRead, Assigning, HandedIn
<1>2. FixedHonoursOverride
  BY DEF Init, Blank, FixedHonoursOverride
<1>3. Pending = {} /\ Submitted = {} /\ Len(attempts) = 0
  BY DEF Init, Pending, Submitted
<1>4. OneLinkOut /\ ResultCarried
  BY <1>3, BoundsAssumption DEF OneLinkOut, ResultCarried
<1>. QED
  BY <1>1, <1>2, <1>4 DEF Kept

LEMMA KeptStep == Sound /\ Kept /\ [Next]_vars => Kept'
<1>. SUFFICES ASSUME Sound, Kept, [Next]_vars PROVE Kept'
  OBVIOUS
<1>1. CASE Brief
  BY <1>1, BriefKept
<1>2. CASE Evaluate \/ EditBank \/ UNCHANGED vars
  BY <1>2, ElsewhereKept DEF Evaluate, EditBank, vars
<1>3. ASSUME NEW r \in Requests, Upsert(r) \/ CommitUpsert(r) \/ Finalize(r) \/ CommitFinalize(r)
      PROVE  Kept'
  BY <1>3, UpsertKept, CommitUpsertKept, FinalizeKept, CommitFinalizeKept
<1>4. ASSUME NEW r \in Requests, MarkOffered(r) \/ CommitOffer(r) \/ Get(r) \/ CommitPreset(r)
      PROVE  Kept'
  BY <1>4, MarkOfferedKept, CommitOfferKept, GetKept, CommitPresetKept
<1>5. ASSUME NEW r \in Requests, MarkTests(r) \/ CommitMarks(r) \/ Fail(r)
      PROVE  Kept'
  BY <1>5, MarkTestsKept, CommitMarksKept, FailKept
<1>6. ASSUME NEW r \in Requests,
             \/ AssignTest(r) \/ CommitAttempt(r)
             \/ SubmitTest(r) \/ CommitSubmit(r) \/ RecordResult(r)
      PROVE  Kept'
  BY <1>6, AssignTestKept, CommitAttemptKept, SubmitTestKept, CommitSubmitKept, RecordResultKept
<1>. QED
  BY <1>1, <1>2, <1>3, <1>4, <1>5, <1>6 DEF Next

(* What a step that lands in turn may make of a test a delegate marks. *)
LEMMA DelegateStep ==
  ASSUME Sound, Kept, [Next]_vars, NEW r \in Requests,
         At(r, "marks"), req[r].delegate, ~At(r, "marks")', inTurn', record.hand.mark # {}
  PROVE  record'.hand.mark = record.hand.mark /\ record'.hand.total = record.hand.total
<1>1. req \in [Requests -> Request] /\ record \in Record
  BY DEF Sound, TypeOK
<1>2. CASE record' = record
  BY <1>2
<1>3. CASE CommitMarks(r)
  <2>. DEFINE merged == req[r].merged
              rec == Marked(record, merged)
  <2>1. merged \in Record /\ Sensible(merged.hand) /\ Sensible(record.ai)
    BY <1>1, WithinTests DEF Request, Sound, Counted, At
  <2>2. rec.hand = merged.hand /\ Within(rec)
    BY <1>1, <2>1, MarkedType, WithinTests
  <2>3. Save(r, rec) /\ req[r].fresh
    BY <1>3 DEF CommitMarks, Stays
  <2>4. record' = rec
    BY <2>2, <2>3 DEF Save
  <2>5. ~Locked(record.hand, merged.hand)
    BY <2>3 DEF Kept, Reads, HandRead, At
  <2>. QED
    BY <2>2, <2>4, <2>5 DEF Locked
<1>4. ASSUME NEW p \in Requests, NEW rec, Save(p, rec), p # r
      PROVE  FALSE
  <2>1. req' = [Stale(Requests \ {p}) EXCEPT ![p] = Idle] \/ req' = [req EXCEPT ![p] = Idle]
    BY <1>4 DEF Save
  <2>2. Stale(Requests \ {p}) \in [Requests -> Request] /\ Stale(Requests \ {p})[r].write = req[r].write
    BY <1>1, StaleType
  <2>. QED
    BY <1>1, <1>4, <2>1, <2>2 DEF At
<1>5. CASE Brief
  <2>1. req' = Stale(Requests) \/ req' = req
    BY <1>5 DEF Brief
  <2>. QED
    BY <1>1, <2>1, StaleType DEF At
<1>6. ASSUME NEW p \in Requests,
             \/ CommitUpsert(p) \/ CommitFinalize(p) \/ CommitOffer(p)
             \/ CommitPreset(p) \/ CommitMarks(p) \/ RecordResult(p)
      PROVE  \/ CommitMarks(r)
             \/ \E rec : Save(p, rec) /\ p # r
  BY <1>6 DEF CommitUpsert, CommitFinalize, CommitOffer, CommitPreset, CommitMarks, RecordResult, At
<1>7. ASSUME NEW p \in Requests,
             \/ Upsert(p) \/ Finalize(p) \/ MarkOffered(p) \/ Get(p) \/ MarkTests(p)
             \/ AssignTest(p) \/ CommitAttempt(p) \/ SubmitTest(p) \/ CommitSubmit(p) \/ Fail(p)
      PROVE  record' = record
  BY <1>7 DEF Upsert, Finalize, MarkOffered, Get, MarkTests, AssignTest, CommitAttempt, SubmitTest,
       CommitSubmit, Fail, Ask
<1>8. CASE Evaluate \/ EditBank \/ UNCHANGED vars
  BY <1>8, <1>2 DEF Evaluate, EditBank, vars
<1>. QED
  BY <1>2, <1>3, <1>4, <1>5, <1>6, <1>7, <1>8 DEF Next

THEOREM KeptTheorem == Spec => [](Sound /\ Kept)
BY SoundInit, SoundStep, KeptInit, KeptStep, PTL DEF Spec

(* As long as every write lands in turn, a finalized record proposes HR's own
   figure whenever it has one, however many requests edit, finalize, offer,
   preset, brief and test around it (salary-fixation.service.ts, buildView and finalize). *)
THEOREM HonoursTheorem == Spec => []FixedHonoursOverride
<1>1. Kept => FixedHonoursOverride
  BY DEF Kept
<1>. QED
  BY <1>1, KeptTheorem, PTL

(* As long as every write lands in turn, there is at most one AI test to take and
   never more than are allowed, the record holds the result of the latest one handed
   in, and a delegate's save leaves a marked test as it was marked
   (ai-proficiency.service.ts; salary-fixation.service.ts, lockedMarkConflicts). *)
THEOREM TestsTheorem == Spec => TestsStand
<1>1. Kept => ResultCarried /\ OneLinkOut
  BY DEF Kept
<1>2. Sound /\ Kept /\ [Next]_vars =>
        [\A r \in Requests :
           At(r, "marks") /\ req[r].delegate /\ ~At(r, "marks")' /\ inTurn' /\ record.hand.mark # {}
             => record'.hand.mark = record.hand.mark /\ record'.hand.total = record.hand.total]_vars
  BY DelegateStep
<1>. QED
  BY <1>1, <1>2, KeptTheorem, PTL DEF Spec, TestsStand, DelegateMarksOnce
=============================================================================
