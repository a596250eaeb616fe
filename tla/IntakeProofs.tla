---------------------------- MODULE IntakeProofs ----------------------------
(***************************************************************************)
(* Theorems about what comes in from outside, for any number of requests:   *)
(* the CVs of a requisition and what is read off them (Intake), the         *)
(* advertisement on BDJobs (Publication), the code that proves an           *)
(* applicant's address (EmailCode) and the CVs sent in for a referring      *)
(* employee with the letters that thank (Referrals).  Each part has its     *)
(* inductive invariant, one lemma per handler or kind of step, and its      *)
(* theorem last.                                                            *)
(***************************************************************************)
EXTENDS Intake, Publication, EmailCode, Referrals, FiniteSetTheorems, SequenceTheorems, TLAPS
-----------------------------------------------------------------------------
(* The CVs *)

(* A row's address was typed in only if it has one, and its link opens a file it has. *)
RowFits(row, made) ==
  /\ row.typed => row.email # "none"
  /\ row.opens = "file" => row.cvFile # 0
  /\ row.cvFile <= made

(* The row as it is by now, as far as a request that has read it goes by it. *)
SameAs(row, was) ==
  /\ row.email = was.email /\ row.cvProfile = was.cvProfile
  /\ row.cvFile = was.cvFile

(* A request with a candidate in hand, and one with a file it has uploaded. *)
Candidates == {"email", "application", "upload"}
Bringing(v) == v.row = 0 /\ v.step \in {"upload", "check", "create"}
Holding(v) == v.step \in {"check", "create", "attach"}

(* The steps of a request that is about no row there is. *)
Rowless == {"route", "mark", "write", "check", "create", "list", "import"}

ReqFits(v, table, made) ==
  /\ v.row \in 0..Len(table)
  /\ v.files \subseteq 1..made
  /\ v.step \in Rowless => v.row = 0
  /\ v.step \in {"attach", "remove", "read", "screen"} => v.row # 0
  /\ v.step = "check" => v.was.source # "email"
  /\ Bringing(v) => /\ v.was.source \in Candidates /\ (v.was.typed => v.was.email # "none")
                    /\ v.was.source = "email" => v.was.email = "own" /\ v.todo # {}
  /\ Holding(v) => v.files = {} \/ \E f \in 1..made : v.files = {f}
  /\ v.step = "attach" => v.files # {}
  /\ v.step = "read" => v.was.cvProfile # "bdjobs"
  /\ v.fresh /\ v.row # 0 => SameAs(table[v.row], v.was)

(* What holds as long as nothing overlapped that the code does not keep apart. *)
ScansApart == \A q, r \in Requests : Scanning(q) /\ Scanning(r) => q = r

MailedOwn ==
  /\ \A n \in DOMAIN rows : rows[n].source = "email" => rows[n].email = "own"
  /\ \A r \in Requests : req[r].row # 0 =>
       (rows[req[r].row].source = "email" => req[r].was.email = "own")

OneMailed ==
  /\ \A m, n \in DOMAIN rows : rows[m].source = "email" /\ rows[n].source = "email" => m = n
  /\ \A r \in Requests : Bringing(req[r]) /\ req[r].was.source = "email"
       => \A n \in DOMAIN rows : rows[n].source # "email"

FilesApart ==
  /\ \A m, n \in DOMAIN rows :
       rows[m].live /\ rows[n].live /\ rows[m].cvFile = rows[n].cvFile /\ rows[m].cvFile # 0 => m = n
  /\ \A r \in Requests : Holding(req[r]) =>
       \A n \in DOMAIN rows : rows[n].live => rows[n].cvFile \notin req[r].files
  /\ \A q, r \in Requests : Holding(req[q]) /\ Holding(req[r]) /\ q # r
       => \A f \in req[q].files : f \notin req[r].files

FlagKnown ==
  \A r \in Requests :
    At(r, "create") /\ req[r].was.email = "own" /\ req[r].was.source # "email" /\ registry
      => req[r].was.flagged

IntakeInv ==
  /\ TypeOK
  /\ folder \subseteq 1..uploads
  /\ \A n \in DOMAIN rows : RowFits(rows[n], uploads)
  /\ \A r \in Requests : ReqFits(req[r], rows, uploads)
  /\ inTurn => ScansApart /\ MailedOwn /\ OneMailed /\ FilesApart /\ FlagKnown

LEMMA IntakeTypes ==
  ASSUME TypeOK
  PROVE  /\ rows \in Seq(Candidate) /\ Len(rows) \in Nat /\ DOMAIN rows = 1..Len(rows)
         /\ Len(rows) <= MaxRows /\ \A n \in DOMAIN rows : rows[n] \in Candidate
         /\ uploads \in 0..MaxFiles /\ uploads \in Nat /\ req \in [Requests -> Request]
         /\ \A r \in Requests : req[r] \in Request
         /\ inTurn \in BOOLEAN /\ registry \in BOOLEAN /\ MaxRows \in Nat /\ MaxFiles \in Nat
<1>1. rows \in Seq(Candidate) /\ Len(rows) \in Nat /\ DOMAIN rows = 1..Len(rows)
  BY DEF TypeOK
<1>2. \A n \in DOMAIN rows : rows[n] \in Candidate
  BY <1>1, ElementOfSeq
<1>3. uploads \in Nat
  BY BoundsAssumption DEF TypeOK
<1> QED
  BY <1>1, <1>2, <1>3, BoundsAssumption DEF TypeOK

LEMMA IdleType ==
  /\ Blank \in Candidate /\ Idle \in Request
  /\ Idle.step = "none" /\ Idle.todo = {} /\ Idle.row = 0
  /\ ~Bringing(Idle) /\ ~Holding(Idle)
<1>1. Blank \in Candidate
  BY BoundsAssumption DEF Blank, Candidate, Sources, Emails
<1>2. Idle \in Request
  BY <1>1, BoundsAssumption DEF Idle, Request, Steps
<1> QED
  BY <1>1, <1>2 DEF Idle, Bringing, Holding

LEMMA IdleFits ==
  ASSUME NEW table \in Seq(Candidate), NEW made
  PROVE  ReqFits(Idle, table, made)
<1>1. 0 \in 0..Len(table)
  BY LenProperties
<1> QED
  BY <1>1, IdleType DEF Idle, ReqFits, Rowless

(* What a request remembers goes on fitting: rows are added or changed under it only
   where it has been told. *)
LEMMA ReqFitsOn ==
  ASSUME NEW v, NEW table \in Seq(Candidate), NEW table2 \in Seq(Candidate),
         NEW made \in Nat, NEW made2 \in Nat,
         ReqFits(v, table, made), Len(table) <= Len(table2), made <= made2,
         v.fresh /\ v.row # 0 => SameAs(table2[v.row], v.was)
  PROVE  ReqFits(v, table2, made2)
<1>1. Len(table) \in Nat /\ Len(table2) \in Nat
  BY LenProperties
<1>2. v.row \in 0..Len(table2)
  BY <1>1 DEF ReqFits
<1>3. \A f : f \in 1..made => f \in 1..made2
  OBVIOUS
<1>4. v.files \subseteq 1..made2
  BY <1>3 DEF ReqFits
<1>5. Holding(v) => v.files = {} \/ \E f \in 1..made2 : v.files = {f}
  BY <1>3 DEF ReqFits
<1> QED
  BY <1>2, <1>4, <1>5 DEF ReqFits

(* One request goes on, and no row changes. *)
LEMMA MoveKeeps ==
  ASSUME IntakeInv, NEW r \in Requests, NEW v \in Request,
         req' = [req EXCEPT ![r] = v],
         rows' = rows, registry' = registry, asks' \in Nat, processed' \subseteq Mails,
         uploads' \in 0..MaxFiles, uploads <= uploads', folder' \subseteq 1..uploads',
         ReqFits(v, rows, uploads'),
         inTurn' \in BOOLEAN, inTurn' => inTurn,
         inTurn' => \/ v.todo = {} \/ Scanning(r)
                    \/ \A q \in Requests : ~Scanning(q),
         inTurn => (v.row # 0 => (rows[v.row].source = "email" => v.was.email = "own")),
         inTurn => (Bringing(v) /\ v.was.source = "email"
                      => \A n \in DOMAIN rows : rows[n].source # "email"),
         inTurn => (Holding(v) =>
            /\ \A n \in DOMAIN rows : rows[n].live => rows[n].cvFile \notin v.files
            /\ \A q \in Requests : q # r /\ Holding(req[q]) => \A f \in req[q].files : f \notin v.files),
         inTurn => (v.step = "create" /\ v.was.email = "own" /\ v.was.source # "email" /\ registry
                      => v.was.flagged)
  PROVE  IntakeInv'
<1>1. /\ TypeOK /\ rows \in Seq(Candidate) /\ Len(rows) \in Nat /\ uploads \in Nat
      /\ req \in [Requests -> Request] /\ MaxFiles \in Nat /\ uploads' \in Nat
  BY IntakeTypes DEF IntakeInv
<1>2. \A q \in Requests : req'[q] = IF q = r THEN v ELSE req[q]
  BY <1>1
<1>3. TypeOK'
  BY <1>1 DEF TypeOK
<1>4. \A n \in DOMAIN rows' : RowFits(rows'[n], uploads')
  <2>1. \A n \in DOMAIN rows : rows[n].cvFile \in Nat
    BY IntakeTypes DEF IntakeInv, Candidate
  <2> QED
    BY <1>1, <2>1 DEF IntakeInv, RowFits
<1>5. \A q \in Requests : ReqFits(req'[q], rows', uploads')
  <2>1. \A q \in Requests : ReqFits(req[q], rows, uploads)
    BY DEF IntakeInv
  <2>2. \A q \in Requests : ReqFits(req[q], rows, uploads')
    BY SMTT(60), <1>1, <2>1, ReqFitsOn DEF ReqFits
  <2> QED
    BY <1>2, <2>2
<1>6. ASSUME inTurn' PROVE ScansApart' /\ MailedOwn' /\ OneMailed' /\ FilesApart' /\ FlagKnown'
  <2>1. ScansApart /\ MailedOwn /\ OneMailed /\ FilesApart /\ FlagKnown /\ inTurn
    BY <1>6 DEF IntakeInv
  <2>2. ScansApart'
    BY <1>2, <1>6, <2>1 DEF ScansApart, Scanning
  <2>3. MailedOwn'
    BY <1>2, <2>1 DEF MailedOwn
  <2>4. OneMailed'
    BY <1>2, <2>1 DEF OneMailed
  <2>5. FilesApart'
    BY <1>2, <2>1 DEF FilesApart
  <2>6. FlagKnown'
    BY <1>2, <2>1 DEF FlagKnown, At
  <2> QED
    BY <2>2, <2>3, <2>4, <2>5, <2>6
<1> QED
  BY <1>3, <1>4, <1>5, <1>6 DEF IntakeInv

(* One row is written, and whoever had read it is told or done. *)
LEMMA RowKeeps ==
  ASSUME IntakeInv, NEW n \in DOMAIN rows, NEW c \in Candidate,
         rows' = [rows EXCEPT ![n] = c],
         RowFits(c, uploads), c.source = rows[n].source, c.live => rows[n].live,
         req' \in [Requests -> Request],
         \A q \in Requests : \/ req'[q] = Idle
                             \/ req'[q] = [req[q] EXCEPT !.fresh = FALSE]
                             \/ /\ req'[q] = req[q]
                                /\ req[q].row # n \/ SameAs(c, rows[n]),
         c.cvFile = rows[n].cvFile
           \/ \E r \in Requests : Holding(req[r]) /\ c.cvFile \in req[r].files /\ req'[r] = Idle,
         inTurn' \in BOOLEAN, inTurn' => inTurn,
         inTurn' => (rows[n].source = "email" => c.email = "own"),
         inTurn' => (registry' = registry
                     \/ (registry' /\ \A r \in Requests : ~(At(r, "create") /\ req[r].was.email = "own"))),
         registry' \in BOOLEAN, asks' \in Nat, folder' \subseteq folder,
         uploads' = uploads, processed' = processed
  PROVE  IntakeInv'
<1>1. /\ TypeOK /\ rows \in Seq(Candidate) /\ Len(rows) \in Nat /\ uploads \in Nat
      /\ req \in [Requests -> Request] /\ DOMAIN rows = 1..Len(rows) /\ Len(rows) <= MaxRows
      /\ \A q \in Requests : req[q] \in Request
  BY IntakeTypes DEF IntakeInv
<1>2. /\ rows' \in Seq(Candidate) /\ Len(rows') = Len(rows) /\ DOMAIN rows' = DOMAIN rows
      /\ \A m \in DOMAIN rows : rows'[m] = IF m = n THEN c ELSE rows[m]
  BY <1>1, ExceptSeq
<1>3. TypeOK'
  BY <1>1, <1>2 DEF TypeOK
<1>4. \A m \in DOMAIN rows' : RowFits(rows'[m], uploads')
  BY <1>2 DEF IntakeInv
<1>5. \A q \in Requests :
        \/ req'[q] = Idle
        \/ /\ req'[q].step = req[q].step /\ req'[q].row = req[q].row /\ req'[q].was = req[q].was
           /\ req'[q].todo = req[q].todo /\ req'[q].files = req[q].files
           /\ req'[q].fresh => req[q].fresh /\ (req[q].row # n \/ SameAs(c, rows[n]))
  BY <1>1 DEF Request
<1>6. ASSUME NEW q \in Requests
      PROVE  ReqFits(req'[q], rows', uploads')
  <2>1. CASE req'[q] = Idle
    BY <1>2, <2>1, IdleFits
  <2>2. CASE req'[q] # Idle
    <3>1. ReqFits(req[q], rows, uploads) /\ req[q].row \in 0..Len(rows)
      BY DEF IntakeInv, ReqFits
    <3>2. req'[q].fresh /\ req'[q].row # 0 => SameAs(rows'[req[q].row], req[q].was)
      <4>1. SUFFICES ASSUME req'[q].fresh, req'[q].row # 0
                     PROVE  SameAs(rows'[req[q].row], req[q].was)
        OBVIOUS
      <4>2. /\ req[q].row \in DOMAIN rows /\ SameAs(rows[req[q].row], req[q].was)
            /\ req[q].row # n \/ SameAs(c, rows[n])
        BY <1>1, <1>5, <2>2, <3>1, <4>1 DEF ReqFits
      <4> QED
        BY <1>2, <4>2 DEF SameAs
    <3> QED
      BY <1>2, <1>5, <2>2, <3>1, <3>2 DEF ReqFits, Bringing, Holding
  <2> QED
    BY <2>1, <2>2
<1>7. ASSUME inTurn' PROVE ScansApart' /\ MailedOwn' /\ OneMailed' /\ FilesApart' /\ FlagKnown'
  <2>1. ScansApart /\ MailedOwn /\ OneMailed /\ FilesApart /\ FlagKnown /\ inTurn
    BY <1>7 DEF IntakeInv
  <2>2. \A m \in DOMAIN rows : rows'[m].source = rows[m].source /\ (rows'[m].live => rows[m].live)
    BY <1>2
  <2>3. ScansApart'
    BY <1>5, <2>1, IdleType DEF ScansApart, Scanning
  <2>4. MailedOwn'
    <3>1. \A m \in DOMAIN rows : rows[m].source = "email" => rows'[m].email = "own"
      BY <1>2, <1>7, <2>1 DEF MailedOwn
    <3>2. \A q \in Requests : req'[q].row # 0 =>
            /\ req[q].row # 0 /\ req'[q].row = req[q].row /\ req'[q].was = req[q].was
            /\ req[q].row \in DOMAIN rows
      BY <1>1, <1>5, IdleType DEF IntakeInv, ReqFits
    <3> QED
      BY <1>2, <2>1, <2>2, <3>1, <3>2 DEF MailedOwn
  <2>5. OneMailed'
    BY <1>2, <1>5, <2>1, <2>2, IdleType DEF OneMailed, Bringing
  <2>6. \A q \in Requests : Holding(req'[q]) => Holding(req[q]) /\ req'[q].files = req[q].files /\ req'[q] # Idle
    BY <1>5, IdleType DEF Holding
  <2>7. FilesApart'
    <3>1. \A m \in DOMAIN rows, k \in DOMAIN rows :
            rows'[m].live /\ rows'[k].live /\ rows'[m].cvFile = rows'[k].cvFile /\ rows'[m].cvFile # 0
              => m = k
      <4>1. CASE c.cvFile = rows[n].cvFile
        BY <1>2, <2>1, <2>2, <4>1 DEF FilesApart
      <4>2. CASE \E r \in Requests : Holding(req[r]) /\ c.cvFile \in req[r].files
        BY <1>2, <2>1, <2>2, <4>2 DEF FilesApart
      <4> QED
        BY <4>1, <4>2
    <3>2. ASSUME NEW q \in Requests, Holding(req'[q]), NEW m \in DOMAIN rows, rows'[m].live
          PROVE  rows'[m].cvFile \notin req'[q].files
      <4>1. Holding(req[q]) /\ req'[q].files = req[q].files /\ rows[m].live /\ req'[q] # Idle
        BY <2>2, <2>6, <3>2
      <4>2. CASE rows'[m].cvFile = rows[m].cvFile
        BY <2>1, <4>1, <4>2 DEF FilesApart
      <4>3. CASE m = n /\ c.cvFile # rows[n].cvFile
        <5>1. PICK r \in Requests : Holding(req[r]) /\ c.cvFile \in req[r].files /\ req'[r] = Idle
          BY <4>3
        <5> QED
          BY <1>2, <2>1, <4>1, <4>3, <5>1 DEF FilesApart
      <4> QED
        BY <1>2, <4>2, <4>3
    <3>3. \A p, q \in Requests : Holding(req'[p]) /\ Holding(req'[q]) /\ p # q
            => \A f \in req'[p].files : f \notin req'[q].files
      BY <2>1, <2>6 DEF FilesApart
    <3> QED
      BY <1>2, <3>1, <3>2, <3>3 DEF FilesApart
  <2>8. FlagKnown'
    BY ZenonT(60), <1>5, <1>7, <2>1, IdleType DEF FlagKnown, At
  <2> QED
    BY <2>3, <2>4, <2>5, <2>7, <2>8
<1>8. folder' \subseteq 1..uploads'
  BY DEF IntakeInv
<1> QED
  BY <1>3, <1>4, <1>6, <1>7, <1>8 DEF IntakeInv

(* Rows are added: by nobody's request but r's, which is through with its file. *)
LEMMA AddKeeps ==
  ASSUME IntakeInv, NEW r \in Requests, NEW k \in Nat, NEW new \in [1..k -> Candidate], NEW v \in Request,
         rows' = rows \o new, Len(rows) + k <= MaxRows,
         \A i \in 1..k : RowFits(new[i], uploads),
         req' = [req EXCEPT ![r] = v],
         v = Idle \/ (v.step = "mark" /\ v.row = 0 /\ v.files \subseteq 1..uploads /\ Scanning(r)),
         inTurn' \in BOOLEAN, inTurn' => inTurn,
         inTurn' => \A i \in 1..k : new[i].source = "email" =>
                      /\ k = 1 /\ new[i].email = "own" /\ Bringing(req[r]) /\ req[r].was.source = "email",
         inTurn' => \A i \in 1..k : new[i].cvFile # 0 =>
                      /\ \A j \in 1..k : new[j].cvFile = new[i].cvFile => i = j
                      /\ \A n \in DOMAIN rows : rows[n].live => rows[n].cvFile # new[i].cvFile
                      /\ \A q \in Requests : q # r /\ Holding(req[q]) => new[i].cvFile \notin req[q].files,
         UNCHANGED <<folder, uploads, processed, registry, asks>>
  PROVE  IntakeInv'
<1>1. /\ TypeOK /\ rows \in Seq(Candidate) /\ Len(rows) \in Nat /\ uploads \in Nat
      /\ req \in [Requests -> Request] /\ DOMAIN rows = 1..Len(rows) /\ Len(rows) <= MaxRows
      /\ \A q \in Requests : req[q] \in Request
  BY IntakeTypes DEF IntakeInv
<1>2. new \in Seq(Candidate) /\ Len(new) = k
  <2>1. new \in Seq(Candidate)
    BY SeqDef
  <2> QED
    BY <2>1, LenProperties
<1>3. /\ rows' \in Seq(Candidate) /\ Len(rows') = Len(rows) + k /\ DOMAIN rows' = 1..(Len(rows) + k)
      /\ \A m \in 1..(Len(rows) + k) : rows'[m] = IF m <= Len(rows) THEN rows[m] ELSE new[m - Len(rows)]
  <2>1. rows \o new \in Seq(Candidate) /\ Len(rows \o new) = Len(rows) + k
    BY <1>1, <1>2, ConcatProperties
  <2>2. DOMAIN (rows \o new) = 1..(Len(rows) + k)
    BY <2>1, LenProperties
  <2>3. \A m \in 1..(Len(rows) + k) : (rows \o new)[m] = IF m <= Len(rows) THEN rows[m] ELSE new[m - Len(rows)]
    BY <1>1, <1>2, ConcatProperties
  <2> QED
    BY <2>1, <2>2, <2>3
<1>4. /\ \A m \in DOMAIN rows : m \in DOMAIN rows' /\ rows'[m] = rows[m]
      /\ \A m \in DOMAIN rows' : \/ m \in DOMAIN rows /\ rows'[m] = rows[m]
                                 \/ \E i \in 1..k : m = Len(rows) + i /\ rows'[m] = new[i]
  <2>1. ASSUME NEW m \in DOMAIN rows', m \notin DOMAIN rows
        PROVE  \E i \in 1..k : m = Len(rows) + i /\ rows'[m] = new[i]
    <3>1. m - Len(rows) \in 1..k /\ m = Len(rows) + (m - Len(rows)) /\ rows'[m] = new[m - Len(rows)]
      BY <1>1, <1>3, <2>1
    <3> QED
      BY <3>1
  <2>2. \A m \in DOMAIN rows : m \in DOMAIN rows' /\ rows'[m] = rows[m]
    BY <1>1, <1>3
  <2> QED
    BY <2>1, <2>2
<1>5. TypeOK'
  <2>1. req' \in [Requests -> Request]
    BY <1>1
  <2>2. Len(rows') <= MaxRows
    BY <1>3
  <2> QED
    BY <1>1, <1>3, <2>1, <2>2 DEF TypeOK
<1>6. \A m \in DOMAIN rows' : RowFits(rows'[m], uploads')
  BY <1>4 DEF IntakeInv
<1>7. \A q \in Requests : req'[q] = IF q = r THEN v ELSE req[q]
  BY <1>1
<1>8. v.row = 0 /\ ~Bringing(v) /\ ~Holding(v) /\ v.step \notin {"route", "check", "create"}
  BY IdleType DEF Idle, Bringing, Holding
<1>9. ASSUME NEW q \in Requests
      PROVE  ReqFits(req'[q], rows', uploads')
  <2>1. CASE q = r
    <3>1. CASE v = Idle
      BY <1>3, <1>7, <2>1, <3>1, IdleFits
    <3>2. CASE v.step = "mark" /\ v.row = 0 /\ v.files \subseteq 1..uploads
      BY <1>1, <1>3, <1>7, <1>8, <2>1, <3>2 DEF ReqFits, Bringing, Holding
    <3> QED
      BY <3>1, <3>2
  <2>2. CASE q # r
    <3>1. ReqFits(req[q], rows, uploads) /\ req[q].row \in 0..Len(rows)
      BY DEF IntakeInv, ReqFits
    <3>2. req[q].fresh /\ req[q].row # 0 => SameAs(rows'[req[q].row], req[q].was)
      BY <1>1, <1>4, <3>1 DEF ReqFits
    <3>3. Len(rows) <= Len(rows') /\ uploads <= uploads
      BY <1>1, <1>3
    <3>4. ReqFits(req[q], rows', uploads)
      BY <1>1, <1>3, <3>1, <3>2, <3>3, ReqFitsOn
    <3> QED
      BY <1>7, <2>2, <3>4
  <2> QED
    BY <2>1, <2>2
<1>10. ASSUME inTurn' PROVE ScansApart' /\ MailedOwn' /\ OneMailed' /\ FilesApart' /\ FlagKnown'
  <2>1. ScansApart /\ MailedOwn /\ OneMailed /\ FilesApart /\ FlagKnown /\ inTurn
    BY <1>10 DEF IntakeInv
  <2>2. \A q \in Requests : Scanning(q)' => Scanning(q)
    BY <1>7, IdleType DEF Scanning
  <2>3. ScansApart'
    BY <2>1, <2>2 DEF ScansApart
  <2>4. MailedOwn'
    <3>1. \A m \in DOMAIN rows' : rows'[m].source = "email" => rows'[m].email = "own"
      BY <1>4, <1>10, <2>1 DEF MailedOwn
    <3>2. \A q \in Requests : req'[q].row # 0 => req'[q] = req[q] /\ req[q].row \in DOMAIN rows
      BY <1>1, <1>7, <1>8 DEF IntakeInv, ReqFits
    <3> QED
      BY <1>4, <2>1, <3>1, <3>2 DEF MailedOwn
  <2>5. OneMailed'
    <3>1. \A m, n \in DOMAIN rows' : rows'[m].source = "email" /\ rows'[n].source = "email" => m = n
      <4>1. ASSUME NEW i \in 1..k, new[i].source = "email"
            PROVE  k = 1 /\ \A n \in DOMAIN rows : rows[n].source # "email"
        BY <1>10, <2>1, <4>1 DEF OneMailed
      <4>2. \A i, j \in 1..k : new[i].source = "email" => i = j
        BY <4>1
      <4> QED
        BY <1>4, <2>1, <4>1, <4>2 DEF OneMailed
    <3>2. ASSUME NEW q \in Requests, Bringing(req'[q]), req'[q].was.source = "email",
                 NEW n \in DOMAIN rows', rows'[n].source = "email"
          PROVE  FALSE
      <4>1. q # r /\ req'[q] = req[q]
        BY <1>7, <1>8, <3>2
      <4>2. PICK i \in 1..k : rows'[n] = new[i]
        BY <1>4, <2>1, <3>2, <4>1 DEF OneMailed
      <4>3. Bringing(req[r]) /\ req[r].was.source = "email"
        BY <1>10, <3>2, <4>2
      <4>4. Scanning(q) /\ Scanning(r)
        BY <3>2, <4>1, <4>3 DEF IntakeInv, ReqFits, Scanning
      <4> QED
        BY <2>1, <4>1, <4>4 DEF ScansApart
    <3> QED
      BY <3>1, <3>2 DEF OneMailed
  <2>6. FilesApart'
    <3>1. ASSUME NEW m \in DOMAIN rows', NEW n \in DOMAIN rows',
                 rows'[m].live, rows'[n].live, rows'[m].cvFile = rows'[n].cvFile, rows'[m].cvFile # 0
          PROVE  m = n
      <4>1. CASE m \in DOMAIN rows /\ n \in DOMAIN rows
        BY <1>4, <2>1, <3>1, <4>1 DEF FilesApart
      <4>2. CASE m \notin DOMAIN rows
        <5>1. PICK i \in 1..k : m = Len(rows) + i /\ rows'[m] = new[i]
          BY <1>4, <4>2
        <5>2. n \notin DOMAIN rows
          BY <1>4, <1>10, <3>1, <5>1
        <5>3. PICK j \in 1..k : n = Len(rows) + j /\ rows'[n] = new[j]
          BY <1>4, <5>2
        <5>4. new[i].cvFile # 0 /\ new[j].cvFile = new[i].cvFile
          BY <3>1, <5>1, <5>3
        <5>5. i = j
          BY <1>10, <5>4
        <5> QED
          BY <5>1, <5>3, <5>5
      <4>3. CASE m \in DOMAIN rows /\ n \notin DOMAIN rows
        <5>1. PICK i \in 1..k : n = Len(rows) + i /\ rows'[n] = new[i]
          BY <1>4, <4>3
        <5> QED
          BY <1>4, <1>10, <3>1, <4>3, <5>1
      <4> QED
        BY <4>1, <4>2, <4>3
    <3>2. \A q \in Requests : Holding(req'[q]) => q # r /\ req'[q] = req[q]
      BY <1>7, <1>8
    <3>3. ASSUME NEW q \in Requests, Holding(req'[q]), NEW n \in DOMAIN rows', rows'[n].live
          PROVE  rows'[n].cvFile \notin req'[q].files
      <4>1. CASE n \in DOMAIN rows
        BY <1>4, <2>1, <3>2, <3>3, <4>1 DEF FilesApart
      <4>2. CASE n \notin DOMAIN rows
        <5>1. PICK i \in 1..k : rows'[n] = new[i]
          BY <1>4, <4>2
        <5>2. CASE new[i].cvFile = 0
          <6>1. req'[q].files \subseteq 1..uploads
            BY <3>2, <3>3 DEF IntakeInv, ReqFits
          <6>2. 0 \notin 1..uploads
            BY <1>1
          <6> QED
            BY <5>1, <5>2, <6>1, <6>2
        <5>3. CASE new[i].cvFile # 0
          BY <1>10, <3>2, <3>3, <5>1, <5>3
        <5> QED
          BY <5>2, <5>3
      <4> QED
        BY <4>1, <4>2
    <3>4. \A p, q \in Requests : Holding(req'[p]) /\ Holding(req'[q]) /\ p # q
            => \A f \in req'[p].files : f \notin req'[q].files
      BY <2>1, <3>2 DEF FilesApart
    <3> QED
      BY <3>1, <3>3, <3>4 DEF FilesApart
  <2>7. FlagKnown'
    BY <1>7, <1>8, <2>1 DEF FlagKnown, At
  <2> QED
    BY <2>3, <2>4, <2>5, <2>6, <2>7
<1>11. folder' \subseteq 1..uploads'
  BY DEF IntakeInv
<1> QED
  BY <1>5, <1>6, <1>9, <1>10, <1>11 DEF IntakeInv

-----------------------------------------------------------------------------
(* A request is made *)

(* Somebody asks, and the request has no candidate in hand. *)
LEMMA AskKeeps ==
  ASSUME IntakeInv, NEW r \in Requests, NEW v \in Request, Ask(r, v),
         v.step \notin {"upload", "check", "create", "attach"},
         v.row \in 0..Len(rows), v.row # 0 => v.was = rows[v.row] /\ v.step \notin Rowless,
         v.step \in {"remove", "read", "screen"} => v.row # 0,
         v.step = "read" => v.was.cvProfile # "bdjobs",
         v.files \subseteq 1..uploads,
         inTurn' \in BOOLEAN, inTurn' => inTurn,
         inTurn' => v.todo = {} \/ \A q \in Requests : ~Scanning(q),
         folder' \subseteq folder, UNCHANGED <<rows, uploads, processed, registry>>
  PROVE  IntakeInv'
<1>1. /\ TypeOK /\ asks' \in Nat /\ uploads' \in 0..MaxFiles /\ uploads <= uploads'
      /\ folder' \subseteq 1..uploads' /\ processed' \subseteq Mails /\ uploads \in Nat
  BY IntakeTypes DEF IntakeInv, Ask, TypeOK
<1>2. req' = [req EXCEPT ![r] = v]
  BY DEF Ask
<1>3. ~Bringing(v) /\ ~Holding(v)
  BY DEF Bringing, Holding
<1>4. ReqFits(v, rows, uploads')
  BY <1>3 DEF ReqFits, SameAs
<1>5. inTurn => (v.row # 0 => (rows[v.row].source = "email" => v.was.email = "own"))
  BY IntakeTypes DEF IntakeInv, MailedOwn
<1> QED
  BY <1>1, <1>2, <1>3, <1>4, <1>5, MoveKeeps

(* A candidate, or a file for one, is brought in. *)
LEMMA BringKeeps ==
  ASSUME IntakeInv, NEW r \in Requests, NEW v \in Request, Ask(r, v),
         v.step \in {"upload", "check"}, v.files = {}, v.todo = {},
         \/ v.row = 0 /\ v.was.source \in {"application", "upload"} /\ (v.was.typed => v.was.email # "none")
         \/ v.row \in DOMAIN rows /\ v.was = rows[v.row] /\ v.step = "upload",
         UNCHANGED <<rows, folder, uploads, processed, registry, inTurn>>
  PROVE  IntakeInv'
<1>1. /\ TypeOK /\ asks' \in Nat /\ uploads' \in 0..MaxFiles /\ uploads <= uploads'
      /\ folder' \subseteq 1..uploads' /\ processed' \subseteq Mails /\ uploads \in Nat
      /\ inTurn' \in BOOLEAN /\ DOMAIN rows = 1..Len(rows) /\ Len(rows) \in Nat
  BY IntakeTypes DEF IntakeInv, Ask, TypeOK
<1>2. req' = [req EXCEPT ![r] = v]
  BY DEF Ask
<1>3. v.row \in 0..Len(rows) /\ 0 \notin DOMAIN rows
  BY <1>1
<1>4. ReqFits(v, rows, uploads')
  BY <1>3 DEF ReqFits, SameAs, Bringing, Holding, Candidates, Rowless
<1>5. inTurn => (v.row # 0 => (rows[v.row].source = "email" => v.was.email = "own"))
  BY <1>3 DEF IntakeInv, MailedOwn
<1>6. ~(Bringing(v) /\ v.was.source = "email")
  BY <1>3 DEF Bringing
<1> QED
  BY <1>1, <1>2, <1>4, <1>5, <1>6, MoveKeeps

LEMMA InIngest ==
  ASSUME IntakeInv, NEW r \in Requests, Ingest(r)
  PROVE  IntakeInv'
<1> DEFINE v == [Idle EXCEPT !.step = "route", !.todo = Mails \ processed]
<1>1. v \in Request /\ v.step = "route" /\ v.row = 0 /\ v.files = {}
  BY IdleType DEF Request, Steps, Idle
<1>2. Ask(r, v) /\ UNCHANGED <<rows, folder, uploads, processed, registry>>
  BY DEF Ingest
<1>3. inTurn' \in BOOLEAN /\ (inTurn' => inTurn /\ \A q \in Requests : ~Scanning(q))
  BY IntakeTypes DEF IntakeInv, Ingest, Stays
<1>4. 0 \in 0..Len(rows)
  BY IntakeTypes DEF IntakeInv
<1> HIDE DEF v
<1> QED
  BY <1>1, <1>2, <1>3, <1>4, AskKeeps

(* The requests that look at a row, or at the folder. *)
LEMMA InLook ==
  ASSUME IntakeInv, NEW r \in Requests,
         SyncFromDrive(r) \/ EnsureCvProfile(r) \/ RunScreen(r) \/ ReceiveCandidate(r) \/ Remove(r)
  PROVE  IntakeInv'
<1>1. /\ TypeOK /\ DOMAIN rows = 1..Len(rows) /\ Len(rows) \in Nat /\ Len(rows) <= MaxRows
      /\ \A n \in DOMAIN rows : rows[n] \in Candidate
      /\ inTurn \in BOOLEAN /\ folder \subseteq 1..uploads /\ uploads \in 0..MaxFiles /\ MaxFiles \in Nat
      /\ MaxRows \in Nat
  BY IntakeTypes DEF IntakeInv
<1>2. CASE SyncFromDrive(r)
  <2> DEFINE v == [Idle EXCEPT !.step = "list", !.files = folder]
  <2>1. v \in Request /\ v.step = "list" /\ v.row = 0 /\ v.files = folder /\ v.todo = {}
    BY <1>1, IdleType DEF Request, Steps, Idle, TypeOK
  <2>2. Ask(r, v) /\ UNCHANGED <<rows, folder, uploads, processed, registry, inTurn>>
    BY <1>2 DEF SyncFromDrive
  <2>3. 0 \in 0..Len(rows)
    BY <1>1
  <2> HIDE DEF v
  <2> QED
    BY <1>1, <2>1, <2>2, <2>3, AskKeeps
<1>3. ASSUME NEW n \in DOMAIN rows, NEW step \in {"remove", "read", "screen", "receive"},
             Ask(r, [Idle EXCEPT !.step = step, !.row = n, !.was = rows[n]]),
             step = "read" => rows[n].cvProfile # "bdjobs",
             folder' \subseteq folder, UNCHANGED <<rows, uploads, processed, registry, inTurn>>
      PROVE  IntakeInv'
  <2> DEFINE v == [Idle EXCEPT !.step = step, !.row = n, !.was = rows[n]]
  <2>1. n \in 0..MaxRows /\ n \in 0..Len(rows) /\ n # 0
    BY <1>1
  <2>4. step \notin Rowless
    BY DEF Rowless
  <2>2. /\ v \in Request /\ v.step = step /\ v.row = n /\ v.was = rows[n] /\ v.files = {} /\ v.todo = {}
    BY <1>1, <2>1, IdleType DEF Request, Steps, Idle
  <2>3. Ask(r, v)
    BY <1>3
  <2> HIDE DEF v
  <2> QED
    BY <1>1, <1>3, <2>1, <2>2, <2>3, <2>4, AskKeeps
<1>4. CASE EnsureCvProfile(r)
  BY <1>3, <1>4 DEF EnsureCvProfile
<1>5. CASE RunScreen(r)
  BY <1>3, <1>5 DEF RunScreen
<1>6. CASE Remove(r)
  <2>1. PICK n \in DOMAIN rows, refused \in BOOLEAN :
          /\ Ask(r, [Idle EXCEPT !.step = "remove", !.row = n, !.was = rows[n]])
          /\ folder' = (IF refused THEN folder ELSE folder \ {rows[n].cvFile})
          /\ UNCHANGED <<rows, uploads, processed, registry, inTurn>>
    BY <1>6 DEF Remove
  <2>2. folder' \subseteq folder
    BY <2>1
  <2> QED
    BY <1>3, <2>1, <2>2
<1>7. CASE ReceiveCandidate(r)
  <2>1. PICK n \in IF Application = {} THEN {0} ELSE Application :
          /\ Ask(r, [Idle EXCEPT !.step = "receive", !.row = n, !.was = IF n = 0 THEN Blank ELSE rows[n]])
          /\ UNCHANGED <<rows, folder, uploads, processed, registry, inTurn>>
    BY <1>7 DEF ReceiveCandidate
  <2>2. CASE n = 0
    <3> DEFINE v == [Idle EXCEPT !.step = "receive", !.row = 0, !.was = Blank]
    <3>1. v \in Request /\ v.step = "receive" /\ v.row = 0 /\ v.files = {} /\ v.todo = {}
      BY <1>1, IdleType DEF Request, Steps, Idle
    <3>2. Ask(r, v) /\ 0 \in 0..Len(rows)
      BY <1>1, <2>1, <2>2
    <3> HIDE DEF v
    <3> QED
      BY <1>1, <2>1, <3>1, <3>2, AskKeeps
  <2>3. CASE n # 0
    <3>1. n \in DOMAIN rows
      BY <2>1, <2>3 DEF Application
    <3>2. Ask(r, [Idle EXCEPT !.step = "receive", !.row = n, !.was = rows[n]])
      BY <2>1, <2>3
    <3> QED
      BY <1>3, <2>1, <3>1, <3>2
  <2> QED
    BY <2>2, <2>3
<1> QED
  BY <1>2, <1>4, <1>5, <1>6, <1>7

LEMMA InBring ==
  ASSUME IntakeInv, NEW r \in Requests, PublicApply(r) \/ Create(r) \/ UploadCv(r)
  PROVE  IntakeInv'
<1>1. CASE PublicApply(r)
  <2>1. PICK email \in {"own", "other"} :
          /\ Ask(r, [Idle EXCEPT !.step = "upload",
                                 !.was = [Blank EXCEPT !.source = "application", !.email = email]])
          /\ UNCHANGED <<rows, folder, uploads, processed, registry, inTurn>>
    BY <1>1 DEF PublicApply
  <2> DEFINE c == [Blank EXCEPT !.source = "application", !.email = email]
             v == [Idle EXCEPT !.step = "upload", !.was = c]
  <2>2. c \in Candidate /\ c.source = "application" /\ c.typed = FALSE
    BY IdleType DEF Blank, Candidate, Sources, Emails
  <2> HIDE DEF c
  <2>3. v \in Request /\ v.step = "upload" /\ v.row = 0 /\ v.was = c /\ v.files = {} /\ v.todo = {}
    BY <2>2, IdleType DEF Request, Steps, Idle
  <2>4. Ask(r, v)
    BY <2>1 DEF c
  <2> HIDE DEF v
  <2> QED
    BY <2>1, <2>2, <2>3, <2>4, BringKeeps
<1>2. CASE Create(r)
  <2>1. PICK email \in Emails, file \in BOOLEAN :
          /\ Ask(r, [Idle EXCEPT !.step = IF file THEN "upload" ELSE "check",
                                 !.was = [Blank EXCEPT !.email = email, !.typed = (email # "none")]])
          /\ UNCHANGED <<rows, folder, uploads, processed, registry, inTurn>>
    BY <1>2 DEF Create
  <2> DEFINE c == [Blank EXCEPT !.email = email, !.typed = (email # "none")]
             v == [Idle EXCEPT !.step = IF file THEN "upload" ELSE "check", !.was = c]
  <2>2. c \in Candidate /\ c.source = "upload" /\ (c.typed => c.email # "none")
    BY IdleType DEF Blank, Candidate, Sources, Emails
  <2> HIDE DEF c
  <2>3. v \in Request /\ v.step \in {"upload", "check"} /\ v.row = 0 /\ v.was = c /\ v.files = {} /\ v.todo = {}
    BY <2>2, IdleType DEF Request, Steps, Idle
  <2>4. Ask(r, v)
    BY <2>1 DEF c
  <2> HIDE DEF v
  <2> QED
    BY <2>1, <2>2, <2>3, <2>4, BringKeeps
<1>3. CASE UploadCv(r)
  <2>1. PICK n \in DOMAIN rows :
          /\ Ask(r, [Idle EXCEPT !.step = "upload", !.row = n, !.was = rows[n]])
          /\ UNCHANGED <<rows, folder, uploads, processed, registry, inTurn>>
    BY <1>3 DEF UploadCv
  <2> DEFINE v == [Idle EXCEPT !.step = "upload", !.row = n, !.was = rows[n]]
  <2>2. n \in 0..MaxRows /\ rows[n] \in Candidate
    BY IntakeTypes DEF IntakeInv
  <2>3. v \in Request /\ v.step = "upload" /\ v.row = n /\ v.was = rows[n] /\ v.files = {} /\ v.todo = {}
    BY <2>2, IdleType DEF Request, Steps, Idle
  <2>4. Ask(r, v)
    BY <2>1
  <2> HIDE DEF v
  <2> QED
    BY <2>1, <2>3, <2>4, BringKeeps
<1> QED
  BY <1>1, <1>2, <1>3

-----------------------------------------------------------------------------
(* A request goes on *)

LEMMA NextMailType ==
  ASSUME IntakeInv, NEW r \in Requests
  PROVE  LET v == NextMail(r) IN
         /\ v \in Request /\ v.row = 0 /\ v.files = {} /\ v.step \in {"none", "route"}
         /\ v.todo = {} \/ Scanning(r)
<1>1. req[r] \in Request
  BY IntakeTypes DEF IntakeInv
<1> DEFINE v == [Idle EXCEPT !.step = "route", !.todo = req[r].todo \ req[r].mail]
<1>2. v \in Request /\ v.row = 0 /\ v.files = {} /\ v.step = "route" /\ v.todo = req[r].todo \ req[r].mail
  BY <1>1, IdleType DEF Request, Steps, Idle
<1>3. Idle.files = {}
  BY DEF Idle
<1> HIDE DEF v
<1>4. NextMail(r) = IF req[r].todo \ req[r].mail = {} THEN Idle ELSE v
  BY DEF NextMail, v
<1> QED
  BY <1>2, <1>3, <1>4, IdleType DEF Scanning

(* Going on without a candidate in hand. *)
LEMMA DropKeeps ==
  ASSUME IntakeInv, NEW r \in Requests, NEW v \in Request,
         req' = [req EXCEPT ![r] = v], v.step \in {"none", "route", "mark", "write", "import"},
         v.row = 0, v.files \subseteq 1..uploads, v.todo = {} \/ Scanning(r),
         processed' \subseteq Mails,
         UNCHANGED <<rows, folder, uploads, registry, asks, inTurn>>
  PROVE  IntakeInv'
<1>1. /\ TypeOK /\ asks' \in Nat /\ uploads' \in 0..MaxFiles /\ uploads <= uploads'
      /\ folder' \subseteq 1..uploads' /\ uploads \in Nat /\ inTurn' \in BOOLEAN
      /\ 0 \in 0..Len(rows)
  BY IntakeTypes DEF IntakeInv, TypeOK
<1>2. ~Bringing(v) /\ ~Holding(v)
  BY DEF Bringing, Holding
<1>3. ReqFits(v, rows, uploads')
  BY <1>1, <1>2 DEF ReqFits
<1> QED
  BY <1>1, <1>2, <1>3, MoveKeeps

LEMMA InMatchRequisition ==
  ASSUME IntakeInv, NEW r \in Requests, MatchRequisition(r)
  PROVE  IntakeInv'
<1>1. /\ TypeOK /\ req[r] \in Request /\ uploads \in Nat /\ inTurn \in BOOLEAN
      /\ 0 \in 0..Len(rows) /\ ReqFits(req[r], rows, uploads)
  BY IntakeTypes DEF IntakeInv
<1>2. PICK m \in req[r].todo, found \in BOOLEAN :
        req' = [req EXCEPT ![r].mail = {m},
                           ![r].was = [Blank EXCEPT !.source = "email", !.email = "own"],
                           ![r].step = IF found /\ ~Applied THEN "upload" ELSE "mark"]
  BY DEF MatchRequisition
<1>3. At(r, "route") /\ UNCHANGED <<rows, folder, uploads, processed, registry, asks, inTurn>>
  BY DEF MatchRequisition
<1> DEFINE c == [Blank EXCEPT !.source = "email", !.email = "own"]
           next == IF found /\ ~Applied THEN "upload" ELSE "mark"
           v == [req[r] EXCEPT !.mail = {m}, !.was = c, !.step = next]
<1>4. c \in Candidate /\ c.source = "email" /\ c.email = "own" /\ c.typed = FALSE
  BY IdleType DEF Blank, Candidate, Sources, Emails
<1>5. next \in Steps /\ next \in {"upload", "mark"} /\ (next = "upload" => ~Applied)
  BY DEF Steps
<1> HIDE DEF c, next
<1>6. req' = [req EXCEPT ![r] = v]
  BY <1>1, <1>2 DEF TypeOK, c, next
<1>7. /\ v \in Request /\ v.step = next /\ v.row = req[r].row /\ v.was = c
      /\ v.todo = req[r].todo /\ v.files = req[r].files
  BY <1>1, <1>2, <1>4, <1>5 DEF Request
<1>8. v.row = 0 /\ v.files \subseteq 1..uploads /\ v.todo # {} /\ Scanning(r)
  BY <1>1, <1>2, <1>3, <1>7 DEF ReqFits, At, Scanning, Rowless
<1> HIDE DEF v
<1>9. ReqFits(v, rows, uploads')
  BY <1>1, <1>3, <1>4, <1>5, <1>7, <1>8 DEF ReqFits, Bringing, Holding, Candidates
<1>10. inTurn => (Bringing(v) /\ v.was.source = "email" => \A n \in DOMAIN rows : rows[n].source # "email")
  BY <1>5, <1>7 DEF IntakeInv, Bringing, MailedOwn, Applied, Known
<1>11. ~Holding(v) /\ v.step # "create"
  BY <1>5, <1>7 DEF Holding
<1>12. /\ asks' \in Nat /\ processed' \subseteq Mails /\ uploads' \in 0..MaxFiles /\ uploads <= uploads'
       /\ folder' \subseteq 1..uploads' /\ inTurn' \in BOOLEAN /\ (inTurn' => inTurn)
  BY <1>1, <1>3 DEF TypeOK, IntakeInv
<1> QED
  BY <1>3, <1>6, <1>7, <1>8, <1>9, <1>10, <1>11, <1>12, MoveKeeps

LEMMA InMark ==
  ASSUME IntakeInv, NEW r \in Requests, MarkProcessed(r) \/ SaveProcessedId(r)
  PROVE  IntakeInv'
<1>1. TypeOK /\ req[r] \in Request /\ ReqFits(req[r], rows, uploads)
  BY IntakeTypes DEF IntakeInv
<1>2. CASE SaveProcessedId(r)
  <2>1. processed' \subseteq Mails
    BY <1>1, <1>2 DEF SaveProcessedId, Request
  <2>2. req' = [req EXCEPT ![r] = NextMail(r)] /\ UNCHANGED <<rows, folder, uploads, registry, asks, inTurn>>
    BY <1>2 DEF SaveProcessedId
  <2>3. {} \subseteq 1..uploads
    OBVIOUS
  <2> DEFINE v == NextMail(r)
  <2>4. /\ v \in Request /\ v.row = 0 /\ v.files = {} /\ v.step \in {"none", "route"}
        /\ v.todo = {} \/ Scanning(r)
    BY NextMailType
  <2> HIDE DEF v
  <2>5. req' = [req EXCEPT ![r] = v]
    BY <2>2 DEF v
  <2> QED
    BY <2>1, <2>2, <2>4, <2>5, DropKeeps
<1>3. CASE MarkProcessed(r)
  <2> DEFINE v == [req[r] EXCEPT !.step = "write", !.saw = processed]
  <2>1. req' = [req EXCEPT ![r] = v] /\ UNCHANGED <<rows, folder, uploads, processed, registry, asks, inTurn>>
    BY <1>1, <1>3 DEF MarkProcessed, TypeOK
  <2>2. /\ v \in Request /\ v.step = "write" /\ v.row = req[r].row /\ v.files = req[r].files
        /\ v.todo = req[r].todo
    BY <1>1 DEF Request, Steps, TypeOK
  <2>3. v.row = 0 /\ v.files \subseteq 1..uploads
    BY <1>1, <1>3, <2>2 DEF ReqFits, MarkProcessed, At, Rowless
  <2>4. processed' \subseteq Mails
    BY <1>1, <2>1 DEF TypeOK
  <2> HIDE DEF v
  <2> QED
    BY <2>1, <2>2, <2>3, <2>4, DropKeeps DEF Scanning
<1> QED
  BY <1>2, <1>3

LEMMA InUploadFails ==
  ASSUME IntakeInv, NEW r \in Requests, UploadFails(r)
  PROVE  IntakeInv'
<1> DEFINE v == IF Scanning(r) THEN NextMail(r) ELSE Idle
<1>1. /\ req' = [req EXCEPT ![r] = v]
      /\ UNCHANGED <<rows, folder, uploads, processed, registry, asks, inTurn>>
  BY DEF UploadFails
<1>2. Idle.files = {}
  BY DEF Idle
<1>3. /\ v \in Request /\ v.row = 0 /\ v.files = {} /\ v.step \in {"none", "route"}
      /\ v.todo = {} \/ Scanning(r)
  BY <1>2, IdleType, NextMailType
<1>4. processed' \subseteq Mails
  BY <1>1 DEF IntakeInv, TypeOK
<1> HIDE DEF v
<1> QED
  BY <1>1, <1>3, <1>4, DropKeeps

LEMMA InCompare ==
  ASSUME IntakeInv, NEW r \in Requests, Compare(r)
  PROVE  IntakeInv'
<1>1. TypeOK /\ req[r] \in Request /\ ReqFits(req[r], rows, uploads)
  BY IntakeTypes DEF IntakeInv
<1> DEFINE fresh == req[r].files \ Tracked
           w == [req[r] EXCEPT !.step = "import", !.files = fresh]
           v == IF fresh = {} THEN Idle ELSE w
<1>2. req' = [req EXCEPT ![r] = v] /\ UNCHANGED <<rows, folder, uploads, processed, registry, asks, inTurn>>
  BY <1>1 DEF Compare, TypeOK
<1>3. /\ w \in Request /\ w.step = "import" /\ w.row = req[r].row /\ w.files = fresh
      /\ w.todo = req[r].todo
  BY <1>1 DEF Request, Steps
<1>4. req[r].row = 0 /\ fresh \subseteq 1..uploads /\ Idle.files = {}
  BY <1>1 DEF ReqFits, Compare, At, Idle, Rowless
<1> HIDE DEF w
<1>5. /\ v \in Request /\ v.row = 0 /\ v.files \subseteq 1..uploads /\ v.step \in {"none", "import"}
      /\ v.todo = {} \/ Scanning(r)
  BY <1>3, <1>4, IdleType DEF Scanning
<1>6. processed' \subseteq Mails
  BY <1>1, <1>2 DEF TypeOK
<1> HIDE DEF v
<1> QED
  BY <1>2, <1>5, <1>6, DropKeeps

LEMMA InUploadFile ==
  ASSUME IntakeInv, NEW r \in Requests, UploadFile(r)
  PROVE  IntakeInv'
<1>1. /\ TypeOK /\ req \in [Requests -> Request] /\ req[r] \in Request /\ ReqFits(req[r], rows, uploads)
      /\ uploads \in 0..MaxFiles /\ uploads \in Nat /\ MaxFiles \in Nat /\ folder \subseteq 1..uploads
      /\ DOMAIN rows = 1..Len(rows) /\ Len(rows) \in Nat
      /\ \A n \in DOMAIN rows : rows[n].cvFile \in Nat /\ rows[n].cvFile <= uploads
  BY IntakeTypes DEF IntakeInv, RowFits, Candidate
<1> DEFINE next == AfterUpload(r)
           v == [req[r] EXCEPT !.files = {uploads + 1}, !.step = next]
<1>2. /\ At(r, "upload") /\ uploads < MaxFiles /\ uploads' = uploads + 1
      /\ folder' = folder \cup {uploads + 1} \/ folder' = folder
      /\ UNCHANGED <<rows, processed, registry, asks, inTurn>>
  BY DEF UploadFile
<1>3. req' = [req EXCEPT ![r] = v]
  BY <1>1 DEF UploadFile
<1>4. /\ next \in {"attach", "create", "check"} /\ next \in Steps
      /\ next = "attach" <=> req[r].row # 0
      /\ next = "create" => req[r].was.source = "email"
      /\ next = "check" => req[r].was.source # "email"
  <2>1. CASE req[r].row # 0
    BY <2>1 DEF AfterUpload, Steps
  <2>2. CASE req[r].row = 0 /\ req[r].was.source = "email"
    BY <2>2 DEF AfterUpload, Steps
  <2>3. CASE req[r].row = 0 /\ req[r].was.source # "email"
    BY <2>3 DEF AfterUpload, Steps
  <2> QED
    BY <2>1, <2>2, <2>3
<1>5. uploads' \in 0..MaxFiles /\ uploads <= uploads' /\ uploads + 1 \in 1..MaxFiles
  BY <1>1, <1>2
<1> HIDE DEF next
<1>6. /\ v \in Request /\ v.step = next /\ v.row = req[r].row /\ v.was = req[r].was
      /\ v.todo = req[r].todo /\ v.files = {uploads + 1} /\ v.fresh = req[r].fresh
  BY <1>1, <1>4, <1>5 DEF Request
<1> HIDE DEF v
<1>7. uploads + 1 \in 1..uploads'
  BY <1>1, <1>2
<1>8. Bringing(v) => Bringing(req[r])
  BY <1>2, <1>6 DEF Bringing, At
<1>9. ReqFits(v, rows, uploads')
  <2>1. v.files \subseteq 1..uploads' /\ v.files = {uploads + 1}
    BY <1>6, <1>7
  <2>2. Holding(v) => \E f \in 1..uploads' : v.files = {f}
    BY <1>7, <2>1
  <2> QED
    BY <1>1, <1>4, <1>6, <1>8, <2>1, <2>2 DEF ReqFits, Rowless
<1>10. inTurn => (v.row # 0 => (rows[v.row].source = "email" => v.was.email = "own"))
  BY <1>6 DEF IntakeInv, MailedOwn
<1>11. inTurn => (Bringing(v) /\ v.was.source = "email" => \A n \in DOMAIN rows : rows[n].source # "email")
  BY <1>6, <1>8 DEF IntakeInv, OneMailed
<1>12. \A n \in DOMAIN rows : rows[n].cvFile \notin v.files
  BY <1>1, <1>6
<1>13. ASSUME NEW q \in Requests
       PROVE  \A f \in req[q].files : f \notin v.files
  <2>1. req[q].files \subseteq 1..uploads
    BY DEF IntakeInv, ReqFits
  <2>2. uploads + 1 \notin 1..uploads
    BY <1>1
  <2> QED
    BY <1>6, <2>1, <2>2
<1>14. v.step = "create" => v.was.source = "email"
  BY <1>4, <1>6
<1>15. folder' \subseteq 1..uploads'
  <2>1. \A f \in 1..uploads : f \in 1..uploads'
    BY <1>1, <1>2
  <2> QED
    BY <1>1, <1>2, <1>7, <2>1
<1>16. asks' \in Nat /\ processed' \subseteq Mails /\ inTurn' \in BOOLEAN /\ (inTurn' => inTurn)
  BY <1>1, <1>2 DEF TypeOK
<1>17. inTurn' => v.todo = {} \/ Scanning(r)
  BY <1>6 DEF Scanning
<1> QED
  BY <1>2, <1>3, <1>5, <1>6, <1>9, <1>10, <1>11, <1>12, <1>13, <1>14, <1>15, <1>16, <1>17, MoveKeeps

LEMMA InCheckRegistry ==
  ASSUME IntakeInv, NEW r \in Requests, CheckRegistry(r)
  PROVE  IntakeInv'
<1>1. /\ TypeOK /\ req \in [Requests -> Request] /\ req[r] \in Request /\ ReqFits(req[r], rows, uploads)
      /\ uploads \in Nat /\ registry \in BOOLEAN
  BY IntakeTypes DEF IntakeInv
<1> DEFINE flag == Registered(req[r].was.email)
           c == [req[r].was EXCEPT !.flagged = flag]
           v == [req[r] EXCEPT !.step = "create", !.was = c]
<1>2. At(r, "check") /\ UNCHANGED <<rows, folder, uploads, processed, registry, asks, inTurn>>
  BY DEF CheckRegistry
<1>3. req' = [req EXCEPT ![r] = v]
  BY <1>1 DEF CheckRegistry
<1>4. flag \in BOOLEAN /\ (registry /\ req[r].was.email = "own" => flag)
  BY <1>1 DEF Registered
<1> HIDE DEF flag
<1>5. /\ c \in Candidate /\ c.source = req[r].was.source /\ c.email = req[r].was.email
      /\ c.typed = req[r].was.typed /\ c.flagged = flag
  BY <1>1, <1>4 DEF Request, Candidate
<1> HIDE DEF c
<1>6. /\ v \in Request /\ v.step = "create" /\ v.row = req[r].row /\ v.was = c
      /\ v.todo = req[r].todo /\ v.files = req[r].files
  BY <1>1, <1>5 DEF Request, Steps
<1> HIDE DEF v
<1>7. v.row = 0 /\ v.was.source # "email" /\ Bringing(req[r]) /\ Holding(req[r])
  BY <1>1, <1>2, <1>5, <1>6 DEF ReqFits, At, Bringing, Holding, Rowless
<1>8. ReqFits(v, rows, uploads')
  BY <1>1, <1>2, <1>5, <1>6, <1>7 DEF ReqFits, Bringing, Holding
<1>9. inTurn =>
        /\ \A n \in DOMAIN rows : rows[n].live => rows[n].cvFile \notin v.files
        /\ \A q \in Requests : q # r /\ Holding(req[q]) => \A f \in req[q].files : f \notin v.files
  BY <1>6, <1>7 DEF IntakeInv, FilesApart
<1>10. v.was.email = "own" /\ registry => v.was.flagged
  BY <1>4, <1>5, <1>6
<1>11. /\ asks' \in Nat /\ processed' \subseteq Mails /\ uploads' \in 0..MaxFiles /\ uploads <= uploads'
       /\ folder' \subseteq 1..uploads' /\ inTurn' \in BOOLEAN /\ (inTurn' => inTurn)
  BY <1>1, <1>2 DEF TypeOK, IntakeInv
<1>12. v.todo = {} \/ Scanning(r)
  BY <1>6 DEF Scanning
<1> QED
  BY <1>2, <1>3, <1>6, <1>7, <1>8, <1>9, <1>10, <1>11, <1>12, MoveKeeps

-----------------------------------------------------------------------------
(* A row is written *)

(* A request writes the row it has read and is through. *)
LEMMA WriteKeeps ==
  ASSUME IntakeInv, NEW r \in Requests, NEW n, NEW c \in Candidate,
         n = req[r].row, n # 0, rows' = [rows EXCEPT ![n] = c], Done(r, n),
         c.source = rows[n].source, c.live => rows[n].live,
         inTurn => (rows[n].source = "email" => c.email = "own"),
         c.cvFile = rows[n].cvFile \/ (Holding(req[r]) /\ c.cvFile \in req[r].files),
         RowFits(c, uploads), folder' \subseteq folder,
         UNCHANGED <<uploads, processed, registry, asks, inTurn>>
  PROVE  IntakeInv'
<1>1. /\ TypeOK /\ req \in [Requests -> Request] /\ req[r] \in Request /\ DOMAIN rows = 1..Len(rows)
      /\ Len(rows) \in Nat /\ \A q \in Requests : req[q] \in Request
  BY IntakeTypes DEF IntakeInv
<1>2. n \in DOMAIN rows
  <2>1. req[r].row \in 0..Len(rows)
    BY DEF IntakeInv, ReqFits
  <2> QED
    BY <1>1, <2>1
<1>3. req' = [q \in Requests |-> IF q = r THEN Idle
                                 ELSE IF req[q].row = n THEN [req[q] EXCEPT !.fresh = FALSE] ELSE req[q]]
  BY <1>1 DEF Done, Overtaken
<1>4. \A q \in Requests : [req[q] EXCEPT !.fresh = FALSE] \in Request
  BY <1>1 DEF Request
<1>5. req' \in [Requests -> Request]
  BY <1>1, <1>3, <1>4, IdleType
<1>6. \A q \in Requests : \/ req'[q] = Idle
                          \/ req'[q] = [req[q] EXCEPT !.fresh = FALSE]
                          \/ req'[q] = req[q] /\ req[q].row # n
  BY <1>3
<1>7. req'[r] = Idle
  BY <1>3
<1>8. asks' \in Nat /\ registry' \in BOOLEAN /\ inTurn' \in BOOLEAN
  BY <1>1 DEF TypeOK
<1> QED
  BY ZenonT(60), <1>2, <1>5, <1>6, <1>7, <1>8, RowKeeps

(* The row is left as it is. *)
LEMMA SameRow ==
  ASSUME IntakeInv, NEW n \in DOMAIN rows
  PROVE  rows = [rows EXCEPT ![n] = rows[n]]
BY IntakeTypes DEF IntakeInv

LEMMA RowInHand ==
  ASSUME IntakeInv, NEW r \in Requests, req[r].row # 0
  PROVE  LET n == req[r].row IN
         /\ n \in DOMAIN rows /\ rows[n] \in Candidate /\ RowFits(rows[n], uploads)
         /\ inTurn => (rows[n].source = "email" => rows[n].email = "own" /\ req[r].was.email = "own")
         /\ req[r] \in Request /\ ReqFits(req[r], rows, uploads)
<1>1. req[r].row \in 0..Len(rows) /\ ReqFits(req[r], rows, uploads)
  BY DEF IntakeInv, ReqFits
<1>2. req[r].row \in DOMAIN rows
  BY <1>1, IntakeTypes DEF IntakeInv
<1> QED
  BY <1>1, <1>2, IntakeTypes DEF IntakeInv, MailedOwn

LEMMA FileFits ==
  ASSUME IntakeInv, NEW r \in Requests, Holding(req[r])
  PROVE  /\ req[r].files = {} => File(r) = 0
         /\ req[r].files # {} => File(r) \in req[r].files /\ File(r) # 0
         /\ File(r) \in 0..MaxFiles /\ File(r) <= uploads
<1>1. /\ req[r].files \subseteq 1..uploads
      /\ req[r].files = {} \/ \E f \in 1..uploads : req[r].files = {f}
      /\ uploads \in 0..MaxFiles /\ uploads \in Nat /\ MaxFiles \in Nat
  BY IntakeTypes DEF IntakeInv, ReqFits
<1>2. req[r].files # {} => File(r) \in req[r].files
  BY DEF File
<1>3. req[r].files # {} => File(r) \in 1..uploads
  BY <1>1, <1>2
<1>4. req[r].files = {} => File(r) = 0
  BY DEF File
<1> QED
  BY <1>1, <1>2, <1>3, <1>4

LEMMA InCommitUpload ==
  ASSUME IntakeInv, NEW r \in Requests, CommitUpload(r)
  PROVE  IntakeInv'
<1> DEFINE n == req[r].row
           c == [rows[n] EXCEPT !.cvFile = File(r), !.opens = "file"]
<1>1. At(r, "attach") /\ Done(r, n) /\ UNCHANGED <<folder, uploads, processed, registry, asks, inTurn>>
  BY DEF CommitUpload
<1>2. Holding(req[r]) /\ req[r].row # 0 /\ req[r].files # {}
  BY <1>1 DEF Holding, At, IntakeInv, ReqFits
<1>3. /\ n \in DOMAIN rows /\ rows[n] \in Candidate /\ RowFits(rows[n], uploads)
      /\ inTurn => (rows[n].source = "email" => rows[n].email = "own")
  BY <1>2, RowInHand
<1>4. File(r) \in req[r].files /\ File(r) # 0 /\ File(r) \in 0..MaxFiles /\ File(r) <= uploads
  BY <1>2, FileFits
<1>5. rows' = [rows EXCEPT ![n] = c]
  BY <1>3, IntakeTypes DEF IntakeInv, CommitUpload
<1>6. /\ c \in Candidate /\ c.cvFile = File(r) /\ c.opens = "file" /\ c.source = rows[n].source
      /\ c.live = rows[n].live /\ c.email = rows[n].email /\ c.typed = rows[n].typed
  BY <1>3, <1>4 DEF Candidate
<1> HIDE DEF c
<1>7. RowFits(c, uploads)
  BY <1>3, <1>4, <1>6 DEF RowFits
<1> QED
  BY <1>1, <1>2, <1>3, <1>4, <1>5, <1>6, <1>7, WriteKeeps

LEMMA InCommitRemove ==
  ASSUME IntakeInv, NEW r \in Requests, CommitRemove(r)
  PROVE  IntakeInv'
<1> DEFINE n == req[r].row
           c == [rows[n] EXCEPT !.live = FALSE]
<1>1. At(r, "remove") /\ Done(r, n) /\ UNCHANGED <<folder, uploads, processed, registry, asks, inTurn>>
  BY DEF CommitRemove
<1>2. req[r].row # 0
  BY <1>1 DEF At, IntakeInv, ReqFits
<1>3. /\ n \in DOMAIN rows /\ rows[n] \in Candidate /\ RowFits(rows[n], uploads)
      /\ inTurn => (rows[n].source = "email" => rows[n].email = "own")
  BY <1>2, RowInHand
<1>4. rows' = [rows EXCEPT ![n] = c]
  BY <1>3, IntakeTypes DEF IntakeInv, CommitRemove
<1>5. /\ c \in Candidate /\ c.source = rows[n].source /\ c.live = FALSE /\ c.email = rows[n].email
      /\ c.typed = rows[n].typed /\ c.cvFile = rows[n].cvFile /\ c.opens = rows[n].opens
  BY <1>3 DEF Candidate
<1> HIDE DEF c
<1>6. RowFits(c, uploads)
  BY <1>3, <1>5 DEF RowFits
<1>7. /\ c.source = rows[n].source /\ (c.live => rows[n].live)
      /\ c.cvFile = rows[n].cvFile \/ (Holding(req[r]) /\ c.cvFile \in req[r].files)
  BY <1>5
<1>8. inTurn => (rows[n].source = "email" => c.email = "own")
  BY <1>3, <1>5
<1>9. c \in Candidate /\ folder' \subseteq folder
  BY <1>1, <1>5
<1> QED
  BY <1>1, <1>2, <1>4, <1>6, <1>7, <1>8, <1>9, WriteKeeps

(* But for the address, which is not given as typed in unless it was. *)
SameButEmail(c, row) ==
  /\ c.source = row.source /\ c.live = row.live /\ c.cvFile = row.cvFile
  /\ c.opens = row.opens /\ c.cvProfile = row.cvProfile /\ c.flagged = row.flagged
  /\ c.typed => row.typed /\ c.email = row.email

(* What a reading fills in of the address leaves the rest of the row as it was, and
   what a person has typed in at the time of the reading. *)
LEMMA BackfilledRow ==
  ASSUME NEW was, NEW row \in Candidate, NEW email \in Emails
  PROVE  /\ Backfilled(was, row, email) \in Candidate
         /\ SameButEmail(Backfilled(was, row, email), row)
         /\ was.email # "none" => /\ Backfilled(was, row, email).email = row.email
                                 /\ Backfilled(was, row, email).typed = row.typed
BY DEF Backfilled, Candidate, SameButEmail

(* A reading, or a resend, is written on the row it was made for. *)
LEMMA ReadKeeps ==
  ASSUME IntakeInv, NEW r \in Requests, NEW n, n = req[r].row, n # 0, NEW c \in Candidate,
         NEW email \in Emails, NEW base \in Candidate, NEW b, b = Backfilled(req[r].was, base, email),
         rows' = [rows EXCEPT ![n] = c], Done(r, n),
         base.source = rows[n].source, base.live = rows[n].live, base.cvFile = rows[n].cvFile,
         base.opens = rows[n].opens, base.email = rows[n].email, base.typed = rows[n].typed,
         c.source = b.source, c.live = b.live, c.cvFile = b.cvFile,
         c.email = b.email, c.typed = b.typed, c.opens = b.opens \/ c.opens = "link",
         folder' \subseteq folder,
         UNCHANGED <<uploads, processed, registry, asks, inTurn>>
  PROVE  IntakeInv'
<1>1. /\ n \in DOMAIN rows /\ rows[n] \in Candidate /\ RowFits(rows[n], uploads)
      /\ inTurn => (rows[n].source = "email" => rows[n].email = "own" /\ req[r].was.email = "own")
  BY RowInHand
<1>2. SameButEmail(b, base) /\ (req[r].was.email # "none" => b.email = base.email)
  BY BackfilledRow
<1>3. RowFits(c, uploads)
  BY <1>1, <1>2 DEF RowFits, SameButEmail
<1>4. inTurn => (rows[n].source = "email" => c.email = "own")
  BY <1>1, <1>2
<1>5. c.source = rows[n].source /\ (c.live => rows[n].live) /\ c.cvFile = rows[n].cvFile
  BY <1>2 DEF SameButEmail
<1> QED
  BY <1>3, <1>4, <1>5, WriteKeeps

LEMMA InCommitRead ==
  ASSUME IntakeInv, NEW r \in Requests, CommitRead(r)
  PROVE  IntakeInv'
<1> DEFINE n == req[r].row
           base == [rows[n] EXCEPT !.cvProfile = "read"]
<1>1. PICK email \in Emails, found \in BOOLEAN :
        /\ rows' = IF found THEN [rows EXCEPT ![n] = Backfilled(req[r].was, [@ EXCEPT !.cvProfile = "read"], email)]
                   ELSE rows
        /\ At(r, "read") /\ Done(r, n) /\ UNCHANGED <<folder, uploads, processed, registry, asks, inTurn>>
  BY DEF CommitRead
<1>2. req[r].row # 0
  BY <1>1 DEF At, IntakeInv, ReqFits
<1>3. /\ n \in DOMAIN rows /\ rows[n] \in Candidate /\ RowFits(rows[n], uploads)
      /\ inTurn => (rows[n].source = "email" => rows[n].email = "own")
  BY <1>2, RowInHand
<1>4. CASE found
  <2> DEFINE b == Backfilled(req[r].was, base, email)
  <2>1. /\ base \in Candidate /\ base.source = rows[n].source /\ base.live = rows[n].live
        /\ base.cvFile = rows[n].cvFile /\ base.opens = rows[n].opens /\ base.email = rows[n].email
        /\ base.typed = rows[n].typed
    BY <1>3 DEF Candidate
  <2>2. rows' = [rows EXCEPT ![n] = b]
    BY <1>1, <1>3, <1>4, IntakeTypes DEF IntakeInv
  <2> HIDE DEF base
  <2>3. b \in Candidate
    BY <2>1, BackfilledRow
  <2> QED
    BY <1>1, <1>2, <2>1, <2>2, <2>3, ReadKeeps
<1>5. CASE ~found
  <2>1. rows' = [rows EXCEPT ![n] = rows[n]]
    BY <1>1, <1>3, <1>5, SameRow
  <2> QED
    BY <1>1, <1>2, <1>3, <2>1, WriteKeeps
<1> QED
  BY <1>4, <1>5

LEMMA InCommitScreen ==
  ASSUME IntakeInv, NEW r \in Requests, CommitScreen(r)
  PROVE  IntakeInv'
<1> DEFINE n == req[r].row
<1>1. PICK email \in Emails, shortlisted \in BOOLEAN :
        /\ rows' = [rows EXCEPT ![n] = Backfilled(req[r].was, @, email)]
        /\ folder' = IF shortlisted THEN folder \ {req[r].was.cvFile} ELSE folder
        /\ At(r, "screen") /\ Done(r, n) /\ UNCHANGED <<uploads, processed, registry, asks, inTurn>>
  BY DEF CommitScreen
<1>2. req[r].row # 0 /\ folder' \subseteq folder
  BY <1>1 DEF At, IntakeInv, ReqFits
<1>3. n \in DOMAIN rows /\ rows[n] \in Candidate
  BY <1>2, RowInHand
<1> DEFINE base == rows[n]
           b == Backfilled(req[r].was, base, email)
<1>4. rows' = [rows EXCEPT ![n] = b]
  BY <1>1, <1>3, IntakeTypes DEF IntakeInv
<1>5. b \in Candidate /\ base \in Candidate
  BY <1>3, BackfilledRow
<1> QED
  BY <1>1, <1>2, <1>4, <1>5, ReadKeeps

LEMMA InRefreshExisting ==
  ASSUME IntakeInv, NEW r \in Requests, RefreshExisting(r)
  PROVE  IntakeInv'
<1> DEFINE n == req[r].row
           was == req[r].was
<1>1. PICK same \in BOOLEAN, cv \in BOOLEAN, link \in BOOLEAN, email \in Emails :
        /\ rows' = IF same THEN rows
                   ELSE [rows EXCEPT ![n] = Relinked(was, Backfilled(was, Reprofiled(@, cv), email), link)]
        /\ At(r, "receive") /\ n # 0 /\ Done(r, n)
        /\ UNCHANGED <<folder, uploads, processed, registry, asks, inTurn>>
  BY DEF RefreshExisting
<1>2. req[r].row # 0
  BY <1>1
<1>3. /\ n \in DOMAIN rows /\ rows[n] \in Candidate /\ RowFits(rows[n], uploads)
      /\ inTurn => (rows[n].source = "email" => rows[n].email = "own")
  BY <1>2, RowInHand
<1>4. CASE ~same
  <2> DEFINE base == Reprofiled(rows[n], cv)
             b == Backfilled(was, base, email)
             c == Relinked(was, b, link)
  <2>1. /\ base \in Candidate /\ base.source = rows[n].source /\ base.live = rows[n].live
        /\ base.cvFile = rows[n].cvFile /\ base.opens = rows[n].opens /\ base.email = rows[n].email
        /\ base.typed = rows[n].typed
    BY <1>3 DEF Candidate, Reprofiled
  <2>2. rows' = [rows EXCEPT ![n] = c]
    BY <1>1, <1>4
  <2> HIDE DEF base
  <2>3. b \in Candidate
    BY <2>1, BackfilledRow
  <2>4. /\ c \in Candidate /\ c.source = b.source /\ c.live = b.live /\ c.cvFile = b.cvFile
        /\ c.email = b.email /\ c.typed = b.typed /\ (c.opens = b.opens \/ c.opens = "link")
    <3> HIDE DEF b
    <3> QED
      BY <2>3 DEF Relinked, Candidate
  <2> HIDE DEF c
  <2>5. Done(r, n) /\ folder' \subseteq folder /\ UNCHANGED <<uploads, processed, registry, asks, inTurn>>
    BY <1>1
  <2>6. b = Backfilled(req[r].was, base, email)
    OBVIOUS
  <2> HIDE DEF b
  <2> QED
    BY ZenonT(60), <1>2, <2>1, <2>2, <2>4, <2>5, <2>6, ReadKeeps
<1>5. CASE same
  <2>1. rows' = [rows EXCEPT ![n] = rows[n]]
    BY <1>1, <1>3, <1>5, SameRow
  <2> QED
    BY <1>1, <1>2, <1>3, <2>1, WriteKeeps
<1> QED
  BY <1>4, <1>5

-----------------------------------------------------------------------------
(* A row is changed by a person *)

LEMMA InUpdate ==
  ASSUME IntakeInv, Update
  PROVE  IntakeInv'
<1>1. PICK n \in DOMAIN rows, email \in Emails :
        /\ rows' = [rows EXCEPT ![n].email = email, ![n].typed = (email # "none")]
        /\ req' = Overtaken(n) /\ Stays(rows[n].source # "email") /\ asks' = asks + 1
        /\ UNCHANGED <<folder, uploads, processed, registry>>
  BY DEF Update
<1> DEFINE c == [rows[n] EXCEPT !.email = email, !.typed = (email # "none")]
<1>2. /\ TypeOK /\ rows \in Seq(Candidate) /\ rows[n] \in Candidate /\ RowFits(rows[n], uploads)
      /\ req \in [Requests -> Request] /\ \A q \in Requests : req[q] \in Request
  BY IntakeTypes DEF IntakeInv
<1>3. rows' = [rows EXCEPT ![n] = c]
  BY <1>1, <1>2
<1>4. /\ c \in Candidate /\ c.source = rows[n].source /\ c.live = rows[n].live
      /\ c.cvFile = rows[n].cvFile /\ c.opens = rows[n].opens /\ (c.typed => c.email # "none")
  BY <1>2 DEF Candidate
<1> HIDE DEF c
<1>5. RowFits(c, uploads)
  BY <1>2, <1>4 DEF RowFits
<1>6. req' = [q \in Requests |-> IF n # 0 /\ req[q].row = n THEN [req[q] EXCEPT !.fresh = FALSE] ELSE req[q]]
  BY <1>1 DEF Overtaken
<1>7. n # 0 /\ \A q \in Requests : [req[q] EXCEPT !.fresh = FALSE] \in Request
  <2>1. DOMAIN rows = 1..Len(rows) /\ Len(rows) \in Nat
    BY IntakeTypes DEF IntakeInv
  <2>2. n # 0
    BY <2>1
  <2> QED
    BY <1>2, <2>2 DEF Request
<1>8. /\ req' \in [Requests -> Request]
      /\ \A q \in Requests : \/ req'[q] = [req[q] EXCEPT !.fresh = FALSE]
                             \/ req'[q] = req[q] /\ req[q].row # n
  BY <1>2, <1>6, <1>7
<1>9. inTurn' \in BOOLEAN /\ (inTurn' => inTurn) /\ (inTurn' => rows[n].source # "email")
  <2>1. inTurn' = (inTurn /\ rows[n].source # "email")
    BY <1>1 DEF Stays
  <2> QED
    BY <2>1
<1>10. asks' \in Nat /\ registry' \in BOOLEAN
  BY <1>1, <1>2 DEF TypeOK
<1>11. (c.live => rows[n].live) /\ registry' = registry /\ folder' \subseteq folder
       /\ UNCHANGED <<uploads, processed>>
  BY <1>1, <1>4
<1>12. \A q \in Requests : \/ req'[q] = [req[q] EXCEPT !.fresh = FALSE]
                           \/ req'[q] = req[q] /\ (req[q].row # n \/ SameAs(c, rows[n]))
  BY <1>8
<1> QED
  BY <1>3, <1>4, <1>5, <1>8, <1>9, <1>10, <1>11, <1>12, RowKeeps

LEMMA InFlag ==
  ASSUME IntakeInv, FlagCandidate \/ UnflagCandidate
  PROVE  IntakeInv'
<1>1. PICK n \in DOMAIN rows, flag \in BOOLEAN :
        /\ rows' = [rows EXCEPT ![n].flagged = flag] /\ asks' = asks + 1
        /\ \/ UNCHANGED <<registry, inTurn>>
           \/ /\ registry' = (registry \/ rows[n].email = "own")
              /\ Stays(registry \/ \A r \in Requests : ~(At(r, "create") /\ req[r].was.email = "own"))
        /\ UNCHANGED <<folder, uploads, processed, req>>
  BY DEF FlagCandidate, UnflagCandidate
<1> DEFINE c == [rows[n] EXCEPT !.flagged = flag]
<1>2. /\ TypeOK /\ rows \in Seq(Candidate) /\ rows[n] \in Candidate /\ RowFits(rows[n], uploads)
      /\ req \in [Requests -> Request] /\ registry \in BOOLEAN /\ inTurn \in BOOLEAN
  BY IntakeTypes DEF IntakeInv
<1>3. rows' = [rows EXCEPT ![n] = c]
  BY <1>1, <1>2
<1>4. /\ c \in Candidate /\ c.source = rows[n].source /\ c.live = rows[n].live /\ c.email = rows[n].email
      /\ c.cvFile = rows[n].cvFile /\ c.opens = rows[n].opens /\ c.typed = rows[n].typed
      /\ c.cvProfile = rows[n].cvProfile
  BY <1>2 DEF Candidate
<1> HIDE DEF c
<1>5. RowFits(c, uploads) /\ SameAs(c, rows[n])
  BY <1>2, <1>4 DEF RowFits, SameAs
<1>6. inTurn => (rows[n].source = "email" => c.email = "own")
  BY <1>4 DEF IntakeInv, MailedOwn
<1>7. /\ registry' \in BOOLEAN /\ inTurn' \in BOOLEAN /\ (inTurn' => inTurn)
      /\ inTurn' => (registry' = registry
                     \/ (registry' /\ \A r \in Requests : ~(At(r, "create") /\ req[r].was.email = "own")))
  <2>1. CASE UNCHANGED <<registry, inTurn>>
    BY <1>2, <2>1
  <2>2. CASE /\ registry' = (registry \/ rows[n].email = "own")
             /\ Stays(registry \/ \A r \in Requests : ~(At(r, "create") /\ req[r].was.email = "own"))
    <3>1. CASE registry
      BY <1>2, <2>2, <3>1 DEF Stays
    <3>2. CASE ~registry
      BY <1>2, <2>2, <3>2 DEF Stays
    <3> QED
      BY <3>1, <3>2
  <2> QED
    BY <1>1, <2>1, <2>2
<1>9. asks' \in Nat
  BY <1>1, <1>2 DEF TypeOK
<1>8. req' \in [Requests -> Request] /\ \A q \in Requests : req'[q] = req[q]
  BY <1>1, <1>2
<1> QED
  BY <1>1, <1>3, <1>4, <1>5, <1>6, <1>7, <1>8, <1>9, RowKeeps

-----------------------------------------------------------------------------
(* Rows are made *)

LEMMA AppendOne ==
  ASSUME NEW table \in Seq(Candidate), NEW c \in Candidate
  PROVE  /\ [i \in 1..1 |-> c] \in [1..1 -> Candidate]
         /\ Append(table, c) = table \o [i \in 1..1 |-> c]
<1>1. [i \in 1..1 |-> c] = <<c>>
  OBVIOUS
<1> QED
  BY <1>1, AppendIsConcat

LEMMA InCommitCreate ==
  ASSUME IntakeInv, NEW r \in Requests, CommitCreate(r)
  PROVE  IntakeInv'
<1> DEFINE c == [req[r].was EXCEPT !.cvFile = File(r), !.opens = IF File(r) = 0 THEN "none" ELSE "file"]
           w == [req[r] EXCEPT !.step = "mark"]
           v == IF Scanning(r) THEN w ELSE Idle
           new == [i \in 1..1 |-> c]
<1>1. /\ At(r, "create") /\ Len(rows) < MaxRows /\ rows' = Append(rows, c)
      /\ UNCHANGED <<folder, uploads, processed, registry, asks, inTurn>>
  BY DEF CommitCreate, Added
<1>2. /\ TypeOK /\ rows \in Seq(Candidate) /\ Len(rows) \in Nat /\ req \in [Requests -> Request] /\ req[r] \in Request
      /\ ReqFits(req[r], rows, uploads) /\ inTurn \in BOOLEAN /\ MaxRows \in Nat
  BY IntakeTypes DEF IntakeInv
<1>3. req' = [req EXCEPT ![r] = v]
  BY <1>2 DEF CommitCreate
<1>4. Bringing(req[r]) /\ Holding(req[r]) /\ req[r].row = 0
  BY <1>1, <1>2 DEF ReqFits, Rowless, At, Bringing, Holding
<1>5. /\ File(r) \in 0..MaxFiles /\ File(r) <= uploads /\ (File(r) # 0 => File(r) \in req[r].files)
  BY <1>4, FileFits
<1>6. /\ c \in Candidate /\ c.cvFile = File(r) /\ (c.opens = "file" => File(r) # 0)
      /\ c.source = req[r].was.source /\ c.email = req[r].was.email /\ c.typed = req[r].was.typed
  BY <1>2, <1>5 DEF Request, Candidate
<1> HIDE DEF c
<1>7. RowFits(c, uploads)
  BY <1>2, <1>4, <1>5, <1>6 DEF ReqFits, RowFits
<1>8. /\ w \in Request /\ w.step = "mark" /\ w.row = 0 /\ w.files \subseteq 1..uploads
  BY <1>2, <1>4 DEF Request, Steps, ReqFits
<1> HIDE DEF w
<1>9. v \in Request /\ (v = Idle \/ (v.step = "mark" /\ v.row = 0 /\ v.files \subseteq 1..uploads /\ Scanning(r)))
  BY <1>8, IdleType
<1> HIDE DEF v
<1>10. new \in [1..1 -> Candidate] /\ rows' = rows \o new
  BY <1>1, <1>2, <1>6, AppendOne
<1>11. /\ \A i \in 1..1 : RowFits(new[i], uploads)
       /\ \A i \in 1..1 : new[i].source = "email" =>
            /\ 1 = 1 /\ new[i].email = "own" /\ Bringing(req[r]) /\ req[r].was.source = "email"
  BY <1>2, <1>4, <1>6, <1>7 DEF ReqFits
<1>12. inTurn => \A i \in 1..1 : new[i].cvFile # 0 =>
                      /\ \A j \in 1..1 : new[j].cvFile = new[i].cvFile => i = j
                      /\ \A n \in DOMAIN rows : rows[n].live => rows[n].cvFile # new[i].cvFile
                      /\ \A q \in Requests : q # r /\ Holding(req[q]) => new[i].cvFile \notin req[q].files
  <2>1. ASSUME inTurn, File(r) # 0
        PROVE  /\ \A n \in DOMAIN rows : rows[n].live => rows[n].cvFile # File(r)
               /\ \A q \in Requests : q # r /\ Holding(req[q]) => File(r) \notin req[q].files
    BY <1>4, <1>5, <2>1 DEF IntakeInv, FilesApart
  <2> QED
    BY <1>6, <2>1
<1> HIDE DEF new
<1>13. Len(rows) + 1 <= MaxRows /\ 1 \in Nat
  BY <1>1, <1>2
<1> QED
  BY <1>1, <1>2, <1>3, <1>9, <1>10, <1>11, <1>12, <1>13, AddKeeps

LEMMA InCommitCreateBdjobs ==
  ASSUME IntakeInv, NEW r \in Requests, CommitCreateBdjobs(r)
  PROVE  IntakeInv'
<1>1. PICK email \in Emails, cv \in BOOLEAN, link \in BOOLEAN :
        /\ IF Application # {} THEN UNCHANGED rows
           ELSE Added([Blank EXCEPT !.source = "bdjobs", !.email = email,
                                    !.cvProfile = IF cv THEN "bdjobs" ELSE "none",
                                    !.opens = IF link THEN "link" ELSE "none"])
        /\ Done(r, 0)
        /\ UNCHANGED <<folder, uploads, processed, registry, asks, inTurn>>
  BY DEF CommitCreateBdjobs
<1>2. /\ TypeOK /\ rows \in Seq(Candidate) /\ Len(rows) \in Nat /\ req \in [Requests -> Request]
      /\ inTurn \in BOOLEAN /\ MaxRows \in Nat /\ uploads \in Nat
  BY IntakeTypes DEF IntakeInv
<1>3. req' = [req EXCEPT ![r] = Idle]
  <2>1. Overtaken(0) = req
    BY <1>2 DEF Overtaken
  <2> QED
    BY <1>1, <2>1 DEF Done
<1>4. CASE Application # {}
  <2>1. UNCHANGED rows /\ processed' \subseteq Mails /\ Idle.files = {}
    BY <1>1, <1>2, <1>4 DEF TypeOK, Idle
  <2> QED
    BY <1>1, <1>3, <2>1, IdleType, DropKeeps
<1>5. CASE Application = {}
  <2> DEFINE c == [Blank EXCEPT !.source = "bdjobs", !.email = email,
                                !.cvProfile = IF cv THEN "bdjobs" ELSE "none",
                                !.opens = IF link THEN "link" ELSE "none"]
             new == [i \in 1..1 |-> c]
  <2>1. Len(rows) < MaxRows /\ rows' = Append(rows, c)
    BY <1>1, <1>5 DEF Added
  <2>2. /\ c \in Candidate /\ c.source = "bdjobs" /\ c.cvFile = 0 /\ c.typed = FALSE /\ c.opens # "file"
    BY IdleType DEF Blank, Candidate, Sources
  <2> HIDE DEF c
  <2>3. RowFits(c, uploads)
    BY <1>2, <2>2 DEF RowFits
  <2>4. new \in [1..1 -> Candidate] /\ rows' = rows \o new
    BY <1>2, <2>1, <2>2, AppendOne
  <2>5. \A i \in 1..1 : RowFits(new[i], uploads) /\ new[i].source # "email" /\ new[i].cvFile = 0
    BY <2>2, <2>3
  <2> HIDE DEF new
  <2>6. Len(rows) + 1 <= MaxRows /\ 1 \in Nat
    BY <1>2, <2>1
  <2> QED
    BY <1>1, <1>2, <1>3, <2>4, <2>5, <2>6, IdleType, AddKeeps
<1> QED
  BY <1>4, <1>5

(* There is such an order. *)
LEMMA InOrderType ==
  ASSUME NEW files, IsFiniteSet(files)
  PROVE  /\ Cardinality(files) \in Nat
         /\ InOrder(files) \in [1..Cardinality(files) -> files]
         /\ \A i, j \in 1..Cardinality(files) : InOrder(files)[i] = InOrder(files)[j] => i = j
<1>1. Cardinality(files) \in Nat /\ ExistsBijection(1..Cardinality(files), files)
  BY FS_CardinalityType
<1>2. \E s \in [1..Cardinality(files) -> files] : \A i, j \in 1..Cardinality(files) : s[i] = s[j] => i = j
  BY <1>1 DEF ExistsBijection, Bijection, Injection, IsInjective
<1> QED
  BY <1>1, <1>2 DEF InOrder

LEMMA ImportedType ==
  ASSUME IntakeInv, NEW files, files \subseteq 1..uploads
  PROVE  LET k == Cardinality(files) IN
         /\ k \in Nat /\ Imported(files) \in [1..k -> Candidate] /\ Imported(files) \in Seq(Candidate)
         /\ Len(Imported(files)) = k
         /\ \A i \in 1..k : /\ RowFits(Imported(files)[i], uploads) /\ Imported(files)[i].source = "drive"
                           /\ Imported(files)[i].cvFile \in files
         /\ \A i, j \in 1..k : Imported(files)[i].cvFile = Imported(files)[j].cvFile => i = j
<1> DEFINE k == Cardinality(files)
           order == InOrder(files)
           new == Imported(files)
<1>1. uploads \in Nat /\ uploads \in 0..MaxFiles /\ MaxFiles \in Nat
  BY IntakeTypes DEF IntakeInv
<1>2. IsFiniteSet(files)
  <2>1. IsFiniteSet(1..uploads)
    BY <1>1, FS_Interval
  <2> QED
    BY <2>1, FS_Subset
<1>3. k \in Nat /\ order \in [1..k -> files] /\ \A i, j \in 1..k : order[i] = order[j] => i = j
  BY <1>2, InOrderType
<1>4. new = [i \in 1..k |-> [Blank EXCEPT !.source = "drive", !.cvFile = order[i], !.opens = "file"]]
  BY DEF Imported
<1> HIDE DEF order, k, new
<1>5. ASSUME NEW i \in 1..k
      PROVE  /\ new[i] \in Candidate /\ RowFits(new[i], uploads)
             /\ new[i].source = "drive" /\ new[i].cvFile = order[i] /\ order[i] \in files
  <2>1. order[i] \in files /\ order[i] \in 1..uploads
    BY <1>3
  <2>2. order[i] \in 0..MaxFiles /\ order[i] <= uploads /\ order[i] # 0
    BY <1>1, <2>1
  <2> DEFINE c == [Blank EXCEPT !.source = "drive", !.cvFile = order[i], !.opens = "file"]
  <2>3. /\ c \in Candidate /\ c.source = "drive" /\ c.cvFile = order[i] /\ c.typed = FALSE
    BY <2>2, IdleType DEF Blank, Candidate, Sources
  <2> HIDE DEF c
  <2>4. new[i] = c
    BY <1>4 DEF c
  <2> QED
    BY <2>1, <2>2, <2>3, <2>4 DEF RowFits
<1>6. new \in [1..k -> Candidate]
  BY <1>4, <1>5
<1>7. new \in Seq(Candidate) /\ Len(new) = k
  <2>1. new \in Seq(Candidate)
    BY <1>3, <1>6, SeqDef
  <2> QED
    BY <1>3, <1>6, <2>1, LenProperties
<1> QED
  BY <1>3, <1>5, <1>6, <1>7 DEF k, new

LEMMA InCommitImport ==
  ASSUME IntakeInv, NEW r \in Requests, CommitImport(r)
  PROVE  IntakeInv'
<1> DEFINE files == req[r].files
           k == Cardinality(files)
           new == Imported(files)
<1>1. /\ At(r, "import") /\ Len(rows) + k <= MaxRows /\ rows' = rows \o new
      /\ req' = [req EXCEPT ![r] = Idle] /\ Stays(~InHand(files) /\ files \cap Tracked = {})
      /\ UNCHANGED <<folder, uploads, processed, registry, asks>>
  BY DEF CommitImport
<1>2. files \subseteq 1..uploads /\ inTurn \in BOOLEAN
  BY IntakeTypes DEF IntakeInv, ReqFits
<1> HIDE DEF files
<1>3. /\ k \in Nat /\ new \in [1..k -> Candidate]
      /\ \A i \in 1..k : RowFits(new[i], uploads) /\ new[i].source = "drive" /\ new[i].cvFile \in files
      /\ \A i, j \in 1..k : new[i].cvFile = new[j].cvFile => i = j
  BY <1>2, ImportedType
<1> HIDE DEF k, new
<1>4. inTurn' \in BOOLEAN /\ (inTurn' => inTurn /\ ~InHand(files) /\ files \cap Tracked = {})
  BY <1>1, <1>2 DEF Stays
<1>5. ASSUME inTurn', NEW i \in 1..k
      PROVE  /\ \A j \in 1..k : new[j].cvFile = new[i].cvFile => i = j
             /\ \A n \in DOMAIN rows : rows[n].live => rows[n].cvFile # new[i].cvFile
             /\ \A q \in Requests : q # r /\ Holding(req[q]) => new[i].cvFile \notin req[q].files
  <2>1. \A n \in DOMAIN rows : rows[n].live => rows[n].cvFile # new[i].cvFile
    BY <1>3, <1>4, <1>5 DEF Tracked
  <2>2. \A q \in Requests : Holding(req[q]) => new[i].cvFile \notin req[q].files
    BY <1>3, <1>4, <1>5 DEF InHand, Holding
  <2> QED
    BY <1>3, <2>1, <2>2
<1>6. \A i \in 1..k : RowFits(new[i], uploads) /\ new[i].source # "email"
  BY <1>3
<1> QED
  BY <1>1, <1>3, <1>4, <1>5, <1>6, IdleType, AddKeeps

LEMMA InRestart ==
  ASSUME IntakeInv, Restart
  PROVE  IntakeInv'
<1>1. /\ UNCHANGED <<rows, folder, uploads, processed, registry, asks, inTurn>>
      /\ req' = [r \in Requests |-> Idle]
  BY DEF Restart
<1>2. TypeOK'
  BY <1>1, IdleType DEF IntakeInv, TypeOK
<1>3. \A r \in Requests : ReqFits(req'[r], rows', uploads')
  BY <1>1, IntakeTypes, IdleFits DEF IntakeInv
<1>4. inTurn' => ScansApart' /\ MailedOwn' /\ OneMailed' /\ FilesApart' /\ FlagKnown'
  BY <1>1, IdleType DEF IntakeInv, ScansApart, Scanning, MailedOwn, OneMailed, FilesApart, FlagKnown, At
<1> QED
  BY <1>1, <1>2, <1>3, <1>4 DEF IntakeInv

LEMMA IntakeStart == Init => IntakeInv
<1> SUFFICES ASSUME Init PROVE IntakeInv
  OBVIOUS
<1>1. /\ rows = << >> /\ Len(rows) = 0 /\ DOMAIN rows = {} /\ rows \in Seq(Candidate)
      /\ uploads = 0 /\ uploads \in 0..MaxFiles /\ Len(rows) <= MaxRows
  BY BoundsAssumption DEF Init
<1>2. \A r \in Requests : req[r] = Idle
  BY DEF Init
<1>3. TypeOK
  BY <1>1, IdleType DEF Init, TypeOK
<1>4. \A r \in Requests : ReqFits(req[r], rows, uploads)
  BY <1>1, <1>2, IdleFits
<1>5. ScansApart /\ MailedOwn /\ OneMailed /\ FilesApart /\ FlagKnown
  BY <1>1, <1>2, IdleType DEF ScansApart, Scanning, MailedOwn, OneMailed, FilesApart, FlagKnown, At
<1> QED
  BY <1>1, <1>3, <1>4, <1>5 DEF IntakeInv, Init

LEMMA IntakeStep == IntakeInv /\ [Next]_vars => IntakeInv'
<1> SUFFICES ASSUME IntakeInv, [Next]_vars PROVE IntakeInv'
  OBVIOUS
<1>1. CASE UNCHANGED vars
  BY <1>1 DEF vars, IntakeInv, TypeOK, ScansApart, MailedOwn, OneMailed, FilesApart, FlagKnown, Scanning, At
<1>2. CASE Update \/ FlagCandidate \/ UnflagCandidate \/ Restart
  BY <1>2, InUpdate, InFlag, InRestart
<1>3. ASSUME NEW r \in Requests,
             \/ Ingest(r) \/ MatchRequisition(r) \/ MarkProcessed(r) \/ SaveProcessedId(r)
             \/ PublicApply(r) \/ Create(r) \/ UploadCv(r) \/ UploadFile(r) \/ UploadFails(r)
             \/ CheckRegistry(r) \/ SyncFromDrive(r) \/ Compare(r) \/ Remove(r)
             \/ EnsureCvProfile(r) \/ RunScreen(r) \/ ReceiveCandidate(r)
      PROVE  IntakeInv'
  BY <1>3, InIngest, InMatchRequisition, InMark, InBring, InUploadFile, InUploadFails, InCheckRegistry,
     InLook, InCompare
<1>4. ASSUME NEW r \in Requests,
             \/ CommitCreate(r) \/ CommitUpload(r) \/ CommitRemove(r) \/ CommitImport(r) \/ CommitRead(r)
             \/ CommitScreen(r) \/ CommitCreateBdjobs(r) \/ RefreshExisting(r)
      PROVE  IntakeInv'
  BY <1>4, InCommitCreate, InCommitUpload, InCommitRemove, InCommitImport, InCommitRead, InCommitScreen,
     InCommitCreateBdjobs, InRefreshExisting
<1> QED
  BY <1>1, <1>2, <1>3, <1>4 DEF Next

(* The invariant holds of every run, for any number of requests, mails and rows. *)
THEOREM IntakeTypeTheorem == Spec => []IntakeInv
BY IntakeStart, IntakeStep, PTL DEF Spec

LEMMA OneEach == IntakeInv => OneCandidateEach
<1> SUFFICES ASSUME IntakeInv, inTurn PROVE OneCandidateEach
  BY DEF OneCandidateEach, MailOnce, FileOnce
<1>1. FileOnce
  BY DEF FileOnce, IntakeInv, FilesApart
<1> DEFINE S == {n \in DOMAIN rows : rows[n].source = "email"}
<1>2. \A m, n \in S : m = n
  BY DEF IntakeInv, OneMailed
<1>3. Cardinality(S) <= 1
  <2>1. CASE S = {}
    BY <2>1, FS_EmptySet
  <2>2. CASE S # {}
    <3>1. PICK m \in S : TRUE
      BY <2>2
    <3>2. S = {m}
      BY <1>2, <3>1
    <3> HIDE DEF S
    <3>3. Cardinality({m}) = 1
      BY FS_Singleton
    <3> QED
      BY <3>2, <3>3
  <2> QED
    BY <2>1, <2>2
<1> QED
  BY <1>1, <1>3 DEF OneCandidateEach, MailOnce

-----------------------------------------------------------------------------
(* Who writes *)

LEMMA OthersGoOn ==
  ASSUME IntakeInv, NEW q \in Requests, NEW r \in Requests, q # r, NEW n, Done(q, n)
  PROVE  req'[r].step = req[r].step
<1>1. req \in [Requests -> Request] /\ req[r] \in Request
  BY IntakeTypes DEF IntakeInv
<1>2. req'[r] = IF n # 0 /\ req[r].row = n THEN [req[r] EXCEPT !.fresh = FALSE] ELSE req[r]
  BY <1>1 DEF Done, Overtaken
<1> QED
  BY <1>1, <1>2 DEF Request

RowWrite(q) == CommitUpload(q) \/ CommitRemove(q) \/ CommitRead(q) \/ CommitScreen(q) \/ RefreshExisting(q)

LEMMA RowWriteIsDone ==
  ASSUME NEW q \in Requests, RowWrite(q)
  PROVE  Done(q, req[q].row)
BY DEF RowWrite, CommitUpload, CommitRemove, CommitRead, CommitScreen, RefreshExisting

(* Only the request that ends by it writes the row it had read. *)
LEMMA OwnWrite ==
  ASSUME IntakeInv, Next, NEW r \in Requests, NEW n \in DOMAIN rows, Writes(r, n)
  PROVE  rows'[n] = rows[n] \/ RowWrite(r)
<1>1. /\ rows \in Seq(Candidate) /\ Len(rows) \in Nat /\ DOMAIN rows = 1..Len(rows)
      /\ req \in [Requests -> Request] /\ req[r] \in Request
  BY IntakeTypes DEF IntakeInv
<1>2. req'[r].step # req[r].step
  BY DEF Writes, At
<1>3. CASE Restart
  BY <1>3 DEF Restart
<1>4. CASE Update
  <2>1. PICK m \in DOMAIN rows : req' = Overtaken(m)
    BY <1>4 DEF Update
  <2>2. req'[r].step = req[r].step
    BY <1>1, <2>1 DEF Overtaken, Request
  <2> QED
    BY <1>2, <2>2
<1>5. CASE FlagCandidate \/ UnflagCandidate
  BY <1>2, <1>5 DEF FlagCandidate, UnflagCandidate
<1>6. ASSUME NEW q \in Requests,
             \/ Ingest(q) \/ MatchRequisition(q) \/ MarkProcessed(q) \/ SaveProcessedId(q)
             \/ PublicApply(q) \/ Create(q) \/ UploadCv(q) \/ UploadFile(q) \/ UploadFails(q)
             \/ CheckRegistry(q) \/ SyncFromDrive(q) \/ Compare(q) \/ Remove(q)
             \/ EnsureCvProfile(q) \/ RunScreen(q) \/ ReceiveCandidate(q)
      PROVE  rows' = rows
  BY <1>6 DEF Ingest, MatchRequisition, MarkProcessed, SaveProcessedId, PublicApply, Create, UploadCv,
       UploadFile, UploadFails, CheckRegistry, SyncFromDrive, Compare, Remove, EnsureCvProfile, RunScreen,
       ReceiveCandidate
<1>7. ASSUME NEW q \in Requests, CommitCreate(q) \/ CommitCreateBdjobs(q) \/ CommitImport(q)
      PROVE  rows'[n] = rows[n]
  <2>1. \A c \in Candidate : Append(rows, c)[n] = rows[n]
    BY <1>1, AppendProperties
  <2>2. \A t \in Seq(Candidate) : (rows \o t)[n] = rows[n]
    BY <1>1, ConcatProperties
  <2>3. CASE CommitCreate(q)
    BY <1>1, <2>3 DEF CommitCreate, Added
  <2>4. CASE CommitCreateBdjobs(q)
    BY <1>1, <2>4 DEF CommitCreateBdjobs, Added
  <2>5. CASE CommitImport(q)
    <3>1. req[q].files \subseteq 1..uploads
      BY DEF IntakeInv, ReqFits
    <3> QED
      BY <2>2, <2>5, <3>1, ImportedType DEF CommitImport
  <2> QED
    BY <1>7, <2>3, <2>4, <2>5
<1>8. ASSUME NEW q \in Requests, RowWrite(q), q # r
      PROVE  FALSE
  BY <1>2, <1>8, OthersGoOn, RowWriteIsDone
<1> QED
  BY <1>3, <1>4, <1>5, <1>6, <1>7, <1>8 DEF Next, RowWrite

(* What stands of a row against the request that writes it. *)
LEMMA WriteStands ==
  ASSUME IntakeInv, NEW r \in Requests, NEW n \in DOMAIN rows, RowWrite(r), Writes(r, n)
  PROVE  /\ rows[n].typed => rows'[n].email = rows[n].email
         /\ rows[n].cvProfile = "bdjobs" => rows'[n].cvProfile = "bdjobs"
         /\ rows[n].opens = "file" => rows'[n].opens = "file"
<1> DEFINE was == req[r].was
<1>1. /\ rows \in Seq(Candidate) /\ rows[n] \in Candidate /\ RowFits(rows[n], uploads) /\ n # 0
      /\ ReqFits(req[r], rows, uploads)
  <2>1. DOMAIN rows = 1..Len(rows) /\ Len(rows) \in Nat
    BY IntakeTypes DEF IntakeInv
  <2> QED
    BY <2>1, IntakeTypes DEF IntakeInv
<1>2. req[r].row = n /\ SameAs(rows[n], was)
  BY <1>1 DEF Writes, ReqFits
<1>3. /\ rows[n].typed => was.email # "none"
      /\ rows[n].opens = "file" => was.cvFile # 0
      /\ rows[n].cvProfile = was.cvProfile
  BY <1>1, <1>2 DEF RowFits, SameAs
<1> HIDE DEF was
<1>4. CASE CommitUpload(r)
  <2>1. rows'[n] = [rows[n] EXCEPT !.cvFile = File(r), !.opens = "file"]
    BY <1>1, <1>2, <1>4 DEF CommitUpload
  <2> QED
    BY <1>1, <2>1 DEF Candidate
<1>5. CASE CommitRemove(r)
  <2>1. rows'[n] = [rows[n] EXCEPT !.live = FALSE]
    BY <1>1, <1>2, <1>5 DEF CommitRemove
  <2> QED
    BY <1>1, <2>1 DEF Candidate
<1>6. CASE CommitRead(r)
  <2>1. PICK email \in Emails, found \in BOOLEAN :
          rows' = IF found THEN [rows EXCEPT ![n] = Backfilled(was, [@ EXCEPT !.cvProfile = "read"], email)]
                  ELSE rows
    BY <1>2, <1>6 DEF CommitRead, was
  <2>2. rows[n].cvProfile # "bdjobs"
    BY <1>1, <1>3, <1>6 DEF CommitRead, At, ReqFits, was
  <2> DEFINE base == [rows[n] EXCEPT !.cvProfile = "read"]
             b == Backfilled(was, base, email)
  <2>3. base \in Candidate /\ base.email = rows[n].email /\ base.opens = rows[n].opens
    BY <1>1 DEF Candidate
  <2>4. rows'[n] = rows[n] \/ rows'[n] = b
    BY <1>1, <2>1
  <2> HIDE DEF base
  <2>5. SameButEmail(b, base) /\ (was.email # "none" => b.email = base.email)
    BY <2>3, BackfilledRow
  <2> QED
    BY <1>3, <2>2, <2>3, <2>4, <2>5 DEF SameButEmail
<1>7. CASE CommitScreen(r)
  <2>1. PICK email \in Emails : rows' = [rows EXCEPT ![n] = Backfilled(was, @, email)]
    BY <1>2, <1>7 DEF CommitScreen, was
  <2> DEFINE b == Backfilled(was, rows[n], email)
  <2>2. rows'[n] = b
    BY <1>1, <2>1
  <2>3. SameButEmail(b, rows[n]) /\ (was.email # "none" => b.email = rows[n].email)
    BY <1>1, BackfilledRow
  <2> QED
    BY <1>3, <2>2, <2>3 DEF SameButEmail
<1>8. CASE RefreshExisting(r)
  <2>1. PICK same \in BOOLEAN, cv \in BOOLEAN, link \in BOOLEAN, email \in Emails :
          rows' = IF same THEN rows
                  ELSE [rows EXCEPT ![n] = Relinked(was, Backfilled(was, Reprofiled(@, cv), email), link)]
    BY <1>2, <1>8 DEF RefreshExisting, was
  <2> DEFINE base == Reprofiled(rows[n], cv)
             b == Backfilled(was, base, email)
             c == Relinked(was, b, link)
  <2>2. rows'[n] = rows[n] \/ rows'[n] = c
    BY <1>1, <2>1
  <2>3. /\ base \in Candidate /\ base.email = rows[n].email /\ base.opens = rows[n].opens
        /\ rows[n].cvProfile = "bdjobs" => base.cvProfile = "bdjobs"
    BY <1>1 DEF Candidate, Reprofiled
  <2> HIDE DEF base
  <2>4. b \in Candidate /\ SameButEmail(b, base) /\ (was.email # "none" => b.email = base.email)
    BY <2>3, BackfilledRow
  <2> HIDE DEF b
  <2>5. /\ c.email = b.email /\ c.cvProfile = b.cvProfile /\ (was.cvFile # 0 => c.opens = b.opens)
    BY <2>4 DEF Relinked, Candidate
  <2> HIDE DEF c
  <2> QED
    BY <1>3, <2>2, <2>3, <2>4, <2>5 DEF SameButEmail
<1> QED
  BY <1>4, <1>5, <1>6, <1>7, <1>8 DEF RowWrite

(* A row that is added, and who adds it. *)
LEMMA NewRows ==
  ASSUME IntakeInv, Next, NEW n \in DOMAIN rows', n > Len(rows), registry, inTurn,
         rows'[n].source \in {"application", "upload"}, rows'[n].email = "own"
  PROVE  rows'[n].flagged
<1>1. /\ rows \in Seq(Candidate) /\ Len(rows) \in Nat /\ DOMAIN rows = 1..Len(rows)
      /\ req \in [Requests -> Request] /\ \A q \in Requests : req[q] \in Request
      /\ \A q \in Requests : ReqFits(req[q], rows, uploads)
  BY IntakeTypes DEF IntakeInv
<1>2. n \notin DOMAIN rows
  BY <1>1
<1>3. \A t \in Seq(Candidate) : Len(t) = Len(rows) => DOMAIN t = DOMAIN rows
  BY <1>1
<1>4. CASE DOMAIN rows' = DOMAIN rows
  BY <1>2, <1>4
<1>5. CASE Restart \/ Update \/ FlagCandidate \/ UnflagCandidate
  <2>1. DOMAIN rows' = DOMAIN rows
    BY <1>1, <1>5 DEF Restart, Update, FlagCandidate, UnflagCandidate
  <2> QED
    BY <1>4, <2>1
<1>6. ASSUME NEW q \in Requests,
             \/ Ingest(q) \/ MatchRequisition(q) \/ MarkProcessed(q) \/ SaveProcessedId(q)
             \/ PublicApply(q) \/ Create(q) \/ UploadCv(q) \/ UploadFile(q) \/ UploadFails(q)
             \/ CheckRegistry(q) \/ SyncFromDrive(q) \/ Compare(q) \/ Remove(q)
             \/ EnsureCvProfile(q) \/ RunScreen(q) \/ ReceiveCandidate(q)
      PROVE  rows' = rows
  BY <1>6 DEF Ingest, MatchRequisition, MarkProcessed, SaveProcessedId, PublicApply, Create, UploadCv,
       UploadFile, UploadFails, CheckRegistry, SyncFromDrive, Compare, Remove, EnsureCvProfile, RunScreen,
       ReceiveCandidate
<1>7. ASSUME NEW q \in Requests, RowWrite(q)
      PROVE  DOMAIN rows' = DOMAIN rows
  BY <1>1, <1>7 DEF RowWrite, CommitUpload, CommitRemove, CommitRead, CommitScreen, RefreshExisting
<1>8. ASSUME NEW q \in Requests, CommitCreate(q)
      PROVE  rows'[n].flagged
  <2> DEFINE c == [req[q].was EXCEPT !.cvFile = File(q), !.opens = IF File(q) = 0 THEN "none" ELSE "file"]
  <2>1. At(q, "create") /\ rows' = Append(rows, c)
    BY <1>8 DEF CommitCreate, Added
  <2>2. Holding(req[q]) /\ req[q].was \in Candidate
    BY <1>1, <2>1 DEF At, Holding, Request
  <2>3. File(q) \in 0..MaxFiles
    BY <2>2, FileFits
  <2>4. /\ c \in Candidate /\ c.source = req[q].was.source /\ c.email = req[q].was.email
        /\ c.flagged = req[q].was.flagged
    BY <2>2, <2>3 DEF Candidate
  <2> HIDE DEF c
  <2>5. rows'[n] = c
    <3>1. /\ Len(Append(rows, c)) = Len(rows) + 1 /\ Append(rows, c) \in Seq(Candidate)
          /\ Append(rows, c)[Len(rows) + 1] = c
      BY <1>1, <2>4, AppendProperties
    <3>2. n = Len(rows) + 1
      BY <1>1, <2>1, <3>1
    <3> QED
      BY <2>1, <3>1, <3>2
  <2> QED
    BY <2>1, <2>4, <2>5 DEF IntakeInv, FlagKnown
<1>9. ASSUME NEW q \in Requests, NEW t \in Seq(Candidate), rows' = rows \o t,
             \A i \in DOMAIN t : t[i].source \in {"bdjobs", "drive"}
      PROVE  FALSE
  <2>1. /\ rows \o t \in Seq(Candidate) /\ Len(rows \o t) = Len(rows) + Len(t) /\ Len(t) \in Nat
        /\ \A m \in 1..(Len(rows) + Len(t)) :
             (rows \o t)[m] = IF m <= Len(rows) THEN rows[m] ELSE t[m - Len(rows)]
    BY <1>1, ConcatProperties, LenProperties
  <2>2. n \in 1..(Len(rows) + Len(t)) /\ n - Len(rows) \in DOMAIN t
    BY <1>1, <1>9, <2>1
  <2>3. rows'[n] = t[n - Len(rows)]
    BY <1>1, <1>9, <2>1, <2>2
  <2> QED
    BY <1>9, <2>2, <2>3
<1>10. ASSUME NEW q \in Requests, CommitCreateBdjobs(q)
       PROVE  FALSE
  <2>1. PICK email \in Emails, cv \in BOOLEAN, link \in BOOLEAN :
          IF Application # {} THEN UNCHANGED rows
          ELSE Added([Blank EXCEPT !.source = "bdjobs", !.email = email,
                                   !.cvProfile = IF cv THEN "bdjobs" ELSE "none",
                                   !.opens = IF link THEN "link" ELSE "none"])
    BY <1>10 DEF CommitCreateBdjobs
  <2> DEFINE c == [Blank EXCEPT !.source = "bdjobs", !.email = email,
                                !.cvProfile = IF cv THEN "bdjobs" ELSE "none",
                                !.opens = IF link THEN "link" ELSE "none"]
             t == [i \in 1..1 |-> c]
  <2>2. c \in Candidate /\ c.source = "bdjobs"
    BY IdleType DEF Blank, Candidate, Sources
  <2>3. rows' = rows \/ rows' = Append(rows, c)
    BY <2>1 DEF Added
  <2> HIDE DEF c
  <2>4. t \in [1..1 -> Candidate] /\ Append(rows, c) = rows \o t
    BY <1>1, <2>2, AppendOne
  <2>5. t \in Seq(Candidate) /\ \A i \in DOMAIN t : t[i].source \in {"bdjobs", "drive"}
    BY <2>2, <2>4, SeqDef
  <2> HIDE DEF t
  <2> QED
    BY <1>2, <1>9, <2>3, <2>4, <2>5
<1>11. ASSUME NEW q \in Requests, CommitImport(q)
       PROVE  FALSE
  <2> DEFINE t == Imported(req[q].files)
  <2>1. rows' = rows \o t
    BY <1>11 DEF CommitImport
  <2>2. req[q].files \subseteq 1..uploads
    BY <1>1 DEF ReqFits
  <2>3. t \in Seq(Candidate) /\ \A i \in DOMAIN t : t[i].source \in {"bdjobs", "drive"}
    BY <2>2, ImportedType
  <2> HIDE DEF t
  <2> QED
    BY <1>9, <1>11, <2>1, <2>3
<1> QED
  BY <1>4, <1>5, <1>6, <1>7, <1>8, <1>10, <1>11 DEF Next, RowWrite

(* What a step may not do. *)
LEMMA GivenStep ==
  ASSUME IntakeInv, [Next]_vars
  PROVE  /\ \A r \in Requests, n \in DOMAIN rows :
              Writes(r, n) => /\ rows[n].typed => rows'[n].email = rows[n].email
                              /\ rows[n].cvProfile = "bdjobs" => rows'[n].cvProfile = "bdjobs"
                              /\ rows[n].opens = "file" => rows'[n].opens = "file"
         /\ \A n \in DOMAIN rows' :
              n > Len(rows) /\ registry /\ inTurn /\ rows'[n].source \in {"application", "upload"}
                /\ rows'[n].email = "own" => rows'[n].flagged
<1>1. CASE Next
  <2>1. ASSUME NEW r \in Requests, NEW n \in DOMAIN rows, Writes(r, n)
        PROVE  /\ rows[n].typed => rows'[n].email = rows[n].email
               /\ rows[n].cvProfile = "bdjobs" => rows'[n].cvProfile = "bdjobs"
               /\ rows[n].opens = "file" => rows'[n].opens = "file"
    BY <1>1, <2>1, OwnWrite, WriteStands
  <2> QED
    BY <1>1, <2>1, NewRows
<1>2. CASE UNCHANGED vars
  <2>1. rows' = rows /\ req' = req /\ DOMAIN rows = 1..Len(rows) /\ Len(rows) \in Nat
    BY <1>2, IntakeTypes DEF vars, IntakeInv
  <2> QED
    BY <2>1
<1> QED
  BY <1>1, <1>2

(* Whatever comes in, in whatever order and again, makes one candidate each, and what
   was given stands: for any number of requests, mails, rows and files. *)
THEOREM IntakeTheorem == Spec => IntakeStands
<1>1. IntakeInv => OneCandidateEach
  BY OneEach
<1>2. IntakeInv /\ [Next]_vars =>
        [\A r \in Requests, n \in DOMAIN rows :
           Writes(r, n) /\ rows[n].typed => rows'[n].email = rows[n].email]_vars
  BY GivenStep
<1>3. IntakeInv /\ [Next]_vars =>
        [\A r \in Requests, n \in DOMAIN rows :
           Writes(r, n) => /\ rows[n].cvProfile = "bdjobs" => rows'[n].cvProfile = "bdjobs"
                           /\ rows[n].opens = "file" => rows'[n].opens = "file"]_vars
  BY GivenStep
<1>4. IntakeInv /\ [Next]_vars =>
        [\A n \in DOMAIN rows' :
           n > Len(rows) /\ registry /\ inTurn /\ rows'[n].source \in {"application", "upload"}
             /\ rows'[n].email = "own" => rows'[n].flagged]_vars
  BY GivenStep
<1> QED
  BY <1>1, <1>2, <1>3, <1>4, IntakeStart, IntakeStep, PTL
     DEF Spec, IntakeStands, GivenStands, AddressStands, CvStands, FlaggedAgain

-----------------------------------------------------------------------------
(* The advertisement *)

Posting == [step : {"none", "settings", "send", "answer", "write"},
            saw : BdJobsPost, settings : BdJobsSettings, read : BdJobsSettings,
            deadline : 1..MaxDays, answer : {"none", "created", "duplicate", "refused"},
            job : Nat, tested : BOOLEAN]

ServerType == server \in [token : Tokens, company : BOOLEAN, dev : BOOLEAN]

(* What a request in flight remembers agrees with what BDJobs has listed: an answer it
   was given is true, and settings it is about to write keep the token of those it read
   and stand up to the test. *)
PostingFits(v, ads) ==
  /\ v.step = "answer" /\ v.answer = "created" => \E l \in ads : l.job = v.job
  /\ v.step = "answer" /\ v.answer = "duplicate" => ads # {}
  /\ v.step = "write" => /\ Get(v.read).token # NoToken => v.settings.token # NoToken
                         /\ v.tested => Understood(Get(v.settings))

PublicationInv ==
  /\ PublicationTypeOK
  /\ ServerType
  /\ PostedIsListed
  /\ DeadlineLive
  /\ \A p \in Posters : PostingFits(posting[p], listed)

LEMMA ShippedType ==
  /\ Shipped \in BdJobsSettings /\ NoPosting \in Posting
  /\ Stale \in Tokens /\ Genuine \in Tokens /\ NoToken \in Tokens /\ Genuine # NoToken
<1>1. 1 \in 1..MaxDays /\ MaxDays - 1 \in 1..MaxDays
  BY PostingAssumption
<1>2. Shipped \in BdJobsSettings
  BY <1>1 DEF Shipped, BdJobsSettings, ShippedDays, Tokens
<1>3. NoPosting.saw \in BdJobsPost
  BY DEF NoPosting, BdJobsPost
<1>4. NoPosting \in Posting
  BY <1>1, <1>2 DEF NoPosting, Posting, BdJobsPost
<1> QED
  BY <1>2, <1>4, PostingAssumption DEF Tokens, NoToken

LEMMA GetType ==
  ASSUME ServerType, NEW s \in BdJobsSettings
  PROVE  /\ Get(s) \in BdJobsSettings
         /\ Get(s).token = IF s.token = NoToken THEN server.token ELSE s.token
         /\ Get(s).company = (s.company \/ server.company)
         /\ Get(s).sound = s.sound /\ Get(s).days = s.days
  BY DEF Get, ServerType, BdJobsSettings

LEMMA PublicationInitKeeps == PublicationInit => PublicationInv
<1> SUFFICES ASSUME PublicationInit PROVE PublicationInv
  OBVIOUS
<1>1. PublicationTypeOK /\ ServerType
  BY ShippedType DEF PublicationInit, PublicationTypeOK, ServerType, Posting, NoPosting, BdJobsPost
<1> QED
  BY <1>1 DEF PublicationInit, PublicationInv, PostedIsListed, DeadlineLive, PostingFits, NoPosting

(* Listings are not lost. *)
LEMMA PostingFitsOn ==
  ASSUME NEW v \in Posting, NEW ads, NEW ads2, PostingFits(v, ads), ads \subseteq ads2
  PROVE  PostingFits(v, ads2)
  BY DEF PostingFits

(* One request moves: what it remembers fits, and so does everybody else's. *)
LEMMA OnePostingMoves ==
  ASSUME PublicationInv, NEW p \in Posters, NEW v \in Posting,
         posting' = [posting EXCEPT ![p] = v], server' = server,
         PostingFits(v, listed'), listed \subseteq listed'
  PROVE  /\ posting' \in [Posters -> Posting] /\ ServerType'
         /\ (\A q \in Posters : PostingFits(posting[q], listed))'
<1>1. posting \in [Posters -> Posting]
  BY DEF PublicationInv, PublicationTypeOK, Posting
<1>2. posting' \in [Posters -> Posting]
  BY <1>1
<1>3. ASSUME NEW q \in Posters
      PROVE  PostingFits(posting'[q], listed')
  <2>1. posting'[q] = IF q = p THEN v ELSE posting[q]
    BY <1>1
  <2>2. PostingFits(posting[q], listed')
    BY <1>1, PostingFitsOn DEF PublicationInv
  <2> QED
    BY <2>1, <2>2
<1>4. ASSUME NEW q \in Posters
      PROVE  PostingFits(posting[q], listed)'
  BY <1>3, <1>4 DEF PostingFits, Get, Understood
<1> QED
  BY <1>2, <1>4 DEF ServerType, PublicationInv

(* A request is over. *)
LEMMA NoPostingFits == ASSUME NEW ads PROVE PostingFits(NoPosting, ads)
  BY DEF PostingFits, NoPosting

LEMMA SaveAndPostKeeps ==
  ASSUME PublicationInv, NEW p \in Posters, SaveAndPost(p)
  PROVE  PublicationInv'
<1> DEFINE v == [NoPosting EXCEPT !.step = "settings", !.saw = advert']
<1>1. advert \in BdJobsPost /\ posts' \in Nat /\ posting \in [Posters -> Posting]
  BY DEF PublicationInv, PublicationTypeOK, SaveAndPost, Posted, Posting
<1>2. /\ advert' \in BdJobsPost /\ advert'.job = advert.job
      /\ advert'.status = "posted" => advert.status = "posted"
  BY <1>1 DEF SaveAndPost, BdJobsPost
<1>3. v \in Posting /\ PostingFits(v, listed')
  BY <1>2, ShippedType DEF Posting, PostingFits
<1>4. posting' = [posting EXCEPT ![p] = v] /\ UNCHANGED <<listed, config, server, taken>>
  BY DEF SaveAndPost
<1>5. /\ posting' \in [Posters -> Posting] /\ ServerType'
      /\ (\A q \in Posters : PostingFits(posting[q], listed))'
  BY <1>3, <1>4, OnePostingMoves
<1> QED
  BY <1>1, <1>2, <1>4, <1>5
     DEF PublicationInv, PublicationTypeOK, PostedIsListed, DeadlineLive, Posting

LEMMA DeadlineType ==
  ASSUME NEW closing \in Closings, NEW s \in BdJobsSettings
  PROVE  Deadline(closing, s) \in 1..MaxDays
  BY PostingAssumption DEF Deadline, BdJobsSettings

LEMMA BuildPayloadKeeps ==
  ASSUME PublicationInv, NEW p \in Posters, BuildPayload(p)
  PROVE  PublicationInv'
<1>1. /\ posting \in [Posters -> Posting] /\ Get(config) \in BdJobsSettings
      /\ UNCHANGED <<advert, listed, config, server, posts, taken>>
  BY GetType DEF PublicationInv, PublicationTypeOK, Posting, BuildPayload
<1>2. PICK v \in Posting : posting' = [posting EXCEPT ![p] = v] /\ v.step \in {"none", "send"}
  <2>1. CASE StaysHome(posting[p].saw, Get(config))
    BY <2>1, ShippedType DEF BuildPayload, Over, NoPosting
  <2>2. CASE ~StaysHome(posting[p].saw, Get(config))
    <3>1. PICK closing \in Closings :
            posting' = [posting EXCEPT ![p].step = "send", ![p].settings = Get(config),
                                       ![p].deadline = Deadline(closing, Get(config))]
      BY <2>2 DEF BuildPayload
    <3> DEFINE v == [posting[p] EXCEPT !.step = "send", !.settings = Get(config),
                                       !.deadline = Deadline(closing, Get(config))]
    <3>2. Deadline(closing, Get(config)) \in 1..MaxDays
      BY <1>1, DeadlineType
    <3>3. v \in Posting /\ v.step = "send"
      BY <1>1, <3>2 DEF Posting
    <3>4. posting' = [posting EXCEPT ![p] = v]
      BY <1>1, <3>1 DEF Posting
    <3> QED
      BY <3>3, <3>4
  <2> QED
    BY <2>1, <2>2
<1>3. PostingFits(v, listed')
  BY <1>2 DEF PostingFits
<1>4. /\ posting' \in [Posters -> Posting] /\ ServerType'
      /\ (\A q \in Posters : PostingFits(posting[q], listed))'
  BY <1>1, <1>2, <1>3, OnePostingMoves
<1> QED
  BY <1>1, <1>4 DEF PublicationInv, PublicationTypeOK, PostedIsListed, DeadlineLive, Posting

(* BDJobs lists what it is sent, once. *)
LEMMA ReceiveKeeps ==
  ASSUME PublicationInv, NEW p \in Posters, Receive(p)
  PROVE  PublicationInv'
<1>1. /\ posting \in [Posters -> Posting] /\ posts \in Nat /\ listed \subseteq Listing
      /\ UNCHANGED <<advert, config, server, posts, taken>>
  BY DEF PublicationInv, PublicationTypeOK, Posting, Receive
<1>2. PICK answer \in {"created", "duplicate", "refused"} :
        /\ answer = "created" => listed = {}
        /\ answer = "duplicate" => listed # {}
        /\ listed' = IF answer = "created"
                       THEN {[job |-> posts, form |-> posting[p].saw.form,
                              deadline |-> posting[p].deadline]}
                       ELSE listed
        /\ posting' = [posting EXCEPT ![p].step = "answer", ![p].answer = answer,
                                      ![p].job = IF answer = "created" THEN posts ELSE 0]
  BY DEF Receive
<1> DEFINE job == IF answer = "created" THEN posts ELSE 0
           v == [posting[p] EXCEPT !.step = "answer", !.answer = answer, !.job = job]
<1>3. job \in Nat
  BY <1>1
<1>4. /\ v \in Posting /\ v.step = "answer" /\ v.answer = answer /\ v.job = job
      /\ posting' = [posting EXCEPT ![p] = v]
  BY <1>1, <1>2, <1>3 DEF Posting
<1>5. listed' \subseteq Listing /\ listed \subseteq listed'
      /\ \A l \in listed' : l.deadline \in 1..MaxDays
  <2>1. /\ posting[p].saw.form \in Nat /\ posting[p].deadline \in 1..MaxDays
        /\ posting[p].deadline \in Nat
    BY <1>1, PostingAssumption DEF Posting, BdJobsPost
  <2> QED
    BY <1>1, <1>2, <2>1 DEF PublicationInv, DeadlineLive, Listing
<1>6. PostingFits(v, listed')
  BY <1>2, <1>4 DEF PostingFits
<1>7. /\ posting' \in [Posters -> Posting] /\ ServerType'
      /\ (\A q \in Posters : PostingFits(posting[q], listed))'
  BY <1>1, <1>4, <1>5, <1>6, OnePostingMoves
<1>8. PostedIsListed'
  BY <1>1, <1>2 DEF PublicationInv, PostedIsListed
<1> QED
  BY <1>1, <1>5, <1>7, <1>8 DEF PublicationInv, PublicationTypeOK, DeadlineLive, Posting

(* The row says posted only on an answer that says so. *)
LEMMA AnswerKeeps ==
  ASSUME PublicationInv, NEW p \in Posters, CommitAnswer(p) \/ Unreachable(p)
  PROVE  PublicationInv'
<1>1. /\ posting \in [Posters -> Posting] /\ advert \in BdJobsPost
      /\ posting' = [posting EXCEPT ![p] = NoPosting]
      /\ UNCHANGED <<listed, config, server, posts, taken>>
  BY DEF PublicationInv, PublicationTypeOK, Posting, CommitAnswer, Unreachable, Over
<1>2. advert' \in BdJobsPost /\ PostedIsListed'
  <2>1. CASE CommitAnswer(p)
    <3>1. posting[p].job \in Nat /\ PostingFits(posting[p], listed) /\ posting[p].step = "answer"
      BY <1>1, <2>1 DEF PublicationInv, CommitAnswer, Doing, Posting
    <3> QED
      BY <1>1, <2>1, <3>1
         DEF CommitAnswer, Answered, BdJobsPost, PostingFits, PublicationInv, PostedIsListed
  <2>2. CASE Unreachable(p)
    BY <1>1, <2>2 DEF Unreachable, Answered, BdJobsPost, PublicationInv, PostedIsListed
  <2> QED
    BY <2>1, <2>2
<1>3. /\ posting' \in [Posters -> Posting] /\ ServerType'
      /\ (\A q \in Posters : PostingFits(posting[q], listed))'
  BY <1>1, ShippedType, NoPostingFits, OnePostingMoves
<1> QED
  BY <1>1, <1>2, <1>3 DEF PublicationInv, PublicationTypeOK, DeadlineLive, Posting

LEMMA WriteLaterKeeps ==
  ASSUME PublicationInv, NEW p \in Posters, NEW s \in BdJobsSettings, NEW tested \in BOOLEAN,
         WriteLater(p, s, tested),
         Get(config).token # NoToken => s.token # NoToken,
         tested => Understood(Get(s))
  PROVE  PublicationInv'
<1> DEFINE v == [NoPosting EXCEPT !.step = "write", !.settings = s, !.read = config,
                                  !.tested = tested]
<1>1. /\ posting \in [Posters -> Posting] /\ config \in BdJobsSettings /\ posts' \in Nat
      /\ UNCHANGED <<advert, listed, config, server, taken>>
      /\ posting' = [posting EXCEPT ![p] = v]
  BY DEF PublicationInv, PublicationTypeOK, Posting, WriteLater, Posted
<1>2. /\ v \in Posting /\ v.step = "write" /\ v.settings = s /\ v.read = config
      /\ v.tested = tested
  BY <1>1, ShippedType DEF Posting
<1>3. PostingFits(v, listed')
  BY <1>2 DEF PostingFits
<1>4. /\ posting' \in [Posters -> Posting] /\ ServerType'
      /\ (\A q \in Posters : PostingFits(posting[q], listed))'
  BY <1>1, <1>2, <1>3, OnePostingMoves
<1> QED
  BY <1>1, <1>4 DEF PublicationInv, PublicationTypeOK, PostedIsListed, DeadlineLive, Posting

(* A blank token keeps the current one, and what the test accepts is what is stored,
   a blanked company aside. *)
LEMMA MergedFits ==
  ASSUME PublicationInv, NEW typed \in TypedIns
  PROVE  LET s == Merged(Get(config), typed)
             tested == TestConnection(Get(config), typed) /\ typed.company # "blank"
         IN /\ s \in BdJobsSettings /\ tested \in BOOLEAN
            /\ Get(config).token # NoToken => s.token # NoToken
            /\ tested => Understood(Get(s))
<1> DEFINE c == Get(config)
           s == Merged(c, typed)
<1>1. ServerType /\ c \in BdJobsSettings
  BY GetType DEF PublicationInv, PublicationTypeOK
<1>2. /\ typed.enabled \in BOOLEAN /\ typed.token \in Tokens
      /\ typed.company \in {"keep", "given", "blank"} /\ typed.url \in {"keep", "right", "wrong"}
      /\ typed.days \in 1..MaxDays
  BY PostingAssumption DEF Tokens, NoToken
<1>3. /\ c.company \in BOOLEAN /\ c.sound \in BOOLEAN /\ c.token \in Tokens
  BY <1>1 DEF BdJobsSettings
<1>4. Or(typed.token, c.token) \in Tokens
  BY <1>2, <1>3 DEF Or
<1>5. MergedAsTyped(c, typed) \in BdJobsSettings
  BY <1>2, <1>3 DEF MergedAsTyped, BdJobsSettings
<1>6. /\ s \in BdJobsSettings /\ s.token = Or(typed.token, c.token)
      /\ s.company = MergedAsTyped(c, typed).company
      /\ s.sound = MergedAsTyped(c, typed).sound
  BY <1>4, <1>5 DEF Merged, BdJobsSettings
<1>7. c.token # NoToken => s.token # NoToken
  BY <1>6 DEF Or
<1>8. ASSUME TestConnection(c, typed), typed.company # "blank"
      PROVE  Understood(Get(s))
  <2>1. /\ Or(typed.token, c.token) = Genuine
        /\ typed.company = "given" \/ c.company
        /\ IF typed.url = "keep" THEN c.sound ELSE typed.url = "right"
    BY <1>8 DEF TestConnection, Understood
  <2>2. s.token = Genuine /\ s.company /\ s.sound
    BY <1>2, <1>6, <1>8, <2>1 DEF MergedAsTyped
  <2> QED
    BY <1>1, <1>6, <2>2, GetType, ShippedType DEF Understood
<1>9. (TestConnection(c, typed) /\ typed.company # "blank") \in BOOLEAN
  BY DEF TestConnection, Understood
<1> QED
  BY <1>6, <1>7, <1>8, <1>9

LEMMA SettingsKeep ==
  ASSUME PublicationInv, NEW p \in Posters, SetBdJobs(p) \/ RestoreDefaults(p)
  PROVE  PublicationInv'
<1>1. CASE SetBdJobs(p)
  <2>1. PICK typed \in TypedIns :
          WriteLater(p, Merged(Get(config), typed),
                     TestConnection(Get(config), typed) /\ typed.company # "blank")
    BY <1>1 DEF SetBdJobs
  <2> QED
    BY <2>1, MergedFits, WriteLaterKeeps
<1>2. CASE RestoreDefaults(p)
  <2> DEFINE c == Get(config)
             s == [Shipped EXCEPT !.enabled = c.enabled, !.token = c.token, !.company = c.company]
  <2>1. c \in BdJobsSettings
    BY GetType DEF PublicationInv, PublicationTypeOK
  <2>2. s \in BdJobsSettings /\ s.token = c.token
    BY <2>1, ShippedType DEF BdJobsSettings
  <2>3. WriteLater(p, s, FALSE)
    BY <1>2 DEF RestoreDefaults
  <2> QED
    BY <2>2, <2>3, WriteLaterKeeps
<1> QED
  BY <1>1, <1>2

LEMMA CommitBdJobsKeeps ==
  ASSUME PublicationInv, NEW p \in Posters, CommitBdJobs(p)
  PROVE  PublicationInv'
<1>1. /\ posting \in [Posters -> Posting] /\ config' \in BdJobsSettings /\ taken' \in BOOLEAN
      /\ posting' = [posting EXCEPT ![p] = NoPosting]
      /\ UNCHANGED <<advert, listed, server, posts>>
  BY DEF PublicationInv, PublicationTypeOK, Posting, CommitBdJobs, Over
<1>2. /\ posting' \in [Posters -> Posting] /\ ServerType'
      /\ (\A q \in Posters : PostingFits(posting[q], listed))'
  BY <1>1, ShippedType, NoPostingFits, OnePostingMoves
<1> QED
  BY <1>1, <1>2 DEF PublicationInv, PublicationTypeOK, PostedIsListed, DeadlineLive, Posting

LEMMA RestartPostingKeeps ==
  ASSUME PublicationInv, RestartPosting
  PROVE  PublicationInv'
<1>1. posting' = [p \in Posters |-> NoPosting]
      /\ UNCHANGED <<advert, listed, config, server, posts, taken>>
  BY DEF RestartPosting
<1>2. posting' \in [Posters -> Posting] /\ \A q \in Posters : posting'[q] = NoPosting
  BY <1>1, ShippedType
<1>3. (\A q \in Posters : PostingFits(posting[q], listed))'
  BY <1>2 DEF PostingFits, NoPosting
<1> QED
  BY <1>1, <1>2, <1>3
     DEF PublicationInv, PublicationTypeOK, ServerType, PostedIsListed, DeadlineLive, Posting

LEMMA PublicationStep ==
  ASSUME PublicationInv, [PublicationNext]_pvars
  PROVE  PublicationInv'
<1>1. CASE UNCHANGED pvars
  <2>1. UNCHANGED <<advert, listed, config, server, posting, posts, taken>>
    BY <1>1 DEF pvars
  <2> QED
    BY <2>1 DEF PublicationInv, PublicationTypeOK, ServerType, PostedIsListed, DeadlineLive,
                PostingFits, Understood, Get
<1>2. CASE PublicationNext
  BY <1>2, SaveAndPostKeeps, BuildPayloadKeeps, ReceiveKeeps, AnswerKeeps, SettingsKeep,
     CommitBdJobsKeeps, RestartPostingKeeps DEF PublicationNext
<1> QED
  BY <1>1, <1>2

LEMMA PublicationInvHolds == PublicationSpec => []PublicationInv
  BY PublicationInitKeeps, PublicationStep, PTL DEF PublicationSpec

(* Only a settings write changes the settings. *)
LEMMA SettingsWritten ==
  ASSUME [PublicationNext]_pvars, config' # config
  PROVE  \E p \in Posters : CommitBdJobs(p)
  BY DEF PublicationNext, pvars, SaveAndPost, BuildPayload, Receive, CommitAnswer, Unreachable,
         SetBdJobs, RestoreDefaults, WriteLater, RestartPosting

LEMMA CredentialsStep ==
  ASSUME PublicationInv, [PublicationNext]_pvars, Get(config).token # NoToken, taken'
  PROVE  Get(config').token # NoToken
<1>1. CASE config' = config
  BY <1>1
<1>2. CASE config' # config
  <2>1. PICK p \in Posters : CommitBdJobs(p)
    BY <1>2, SettingsWritten
  <2>2. posting[p].read = config /\ config' = posting[p].settings /\ posting[p].step = "write"
    BY <2>1 DEF CommitBdJobs, Doing
  <2>3. config' \in BdJobsSettings /\ config'.token # NoToken
    BY <2>2 DEF PublicationInv, PublicationTypeOK, PostingFits
  <2> QED
    BY <2>3, GetType DEF PublicationInv
<1> QED
  BY <1>1, <1>2

(* However many are posting and saving at once: a row that says posted has its listing, on
   a deadline BDJobs takes; and as long as settings are written in turn a token is never
   blanked and what the test accepted works once saved (saveAndPost, set). *)
THEOREM PublicationTheorem == PublicationSpec => PublicationStands
<1>1. PublicationInv => PostedIsListed /\ DeadlineLive
  BY DEF PublicationInv
<1>2. PublicationInv /\ [PublicationNext]_pvars
        => [Get(config).token # NoToken /\ taken' => Get(config').token # NoToken]_pvars
  BY CredentialsStep
<1>3. PublicationInv /\ [PublicationNext]_pvars
        => [\A p \in Posters :
              /\ Doing(p, "write") /\ ~Doing(p, "write")' /\ config' = posting[p].settings
              /\ posting[p].tested /\ taken'
              => Understood(Get(config'))]_pvars
  BY DEF PublicationInv, PostingFits, Doing
<1>4. PublicationSpec => [][PublicationNext]_pvars
  BY PTL DEF PublicationSpec
<1>5. PublicationSpec => [](PostedIsListed /\ DeadlineLive)
  BY <1>1, PublicationInvHolds, PTL
<1>6. PublicationSpec => CredentialsKept
  BY <1>2, <1>4, PublicationInvHolds, PTL DEF CredentialsKept
<1>7. PublicationSpec => TestTold
  BY <1>3, <1>4, PublicationInvHolds, PTL DEF TestTold
<1> QED
  BY <1>5, <1>6, <1>7 DEF PublicationStands

-----------------------------------------------------------------------------
(* The e-mailed code *)

PageType == [step : {"none", "send", "mail", "undo", "wrong", "cancel", "right"},
             saw : CodeState, put : CodeState, at : 0..MaxClock]

Proof == [code : Nat, until : Nat]
Mail == [code : Nat, start : Nat, failed : BOOLEAN]

CodesTyped ==
  /\ EmailCodeTypeOK
  /\ proofs \in Seq(Proof)
  /\ mailed \subseteq Mail
  /\ guesses \in [1..MaxCalls -> Nat]
  /\ calls <= MaxCalls

(* A row about to be written by a send: the next of its window, or the first of one
   that starts after the window that was read. *)
SendFits(v) ==
  /\ v.put.tries = 0 /\ v.put.count <= MaxSends
  /\ \/ v.put.start = v.saw.start /\ v.put.count = v.saw.count + 1
     \/ v.put.start = v.at + 1 /\ v.put.count = 1 /\ v.saw.start <= v.at

(* What a request in flight remembers is of the past, and was usable when it was read. *)
PageFits(v, mails, made, now) ==
  /\ v.saw.code <= made /\ v.at <= now
  /\ v.step \in {"send", "mail", "undo"} =>
       v.put.code \in 1..made /\ v.put.count # 0 /\ v.put.start # 0 /\ v.put.start <= now + 1
  /\ v.step = "send" => SendFits(v)
  /\ v.step \in {"send", "mail"} => \A m \in mails : m.code # v.put.code
  /\ v.step = "undo" => \A m \in mails : m.code = v.put.code => m.failed
  /\ v.step = "wrong" => v.saw.code # 0 /\ v.saw.tries < MaxGuesses
  /\ v.step = "right" => v.saw.code # 0 /\ \E m \in mails : m.code = v.saw.code

PagesFit == \A p \in Pages : PageFits(page[p], mailed, calls, clock)

InSend(p) == page[p].step \in {"send", "mail", "undo"}

(* No two requests are sending the same code. *)
CodesApart ==
  \A p, q \in Pages : InSend(p) /\ InSend(q) /\ page[p].put.code = page[q].put.code => p = q

(* Codes are numbered by the requests that were made, and a proof comes of a mail. *)
CodesPast ==
  /\ coded.code <= calls /\ coded.start <= clock + 1
  /\ \A m \in mailed : m.code \in 1..calls /\ m.start # 0
  /\ \A c \in 1..MaxCalls : c > calls => guesses[c] = 0
  /\ \A i \in DOMAIN proofs : \E m \in mailed : m.code = proofs[i].code

InMail(p) == page[p].step \in {"mail", "undo"}
MailOf(p) == [code |-> page[p].put.code, start |-> page[p].put.start, failed |-> FALSE]

(* The codes of a window that have been counted in the row: those that arrived, and those
   whose mail is under way or still to be uncounted. *)
SentIn(start) ==
  {m \in mailed : m.start = start /\ ~m.failed}
    \cup {MailOf(p) : p \in {q \in Pages : InMail(q) /\ page[q].put.start = start}}

(* No request will start this window again. *)
WindowOver(start) ==
  \/ start <= coded.start
  \/ start <= clock /\ \A p \in Pages : On(p, "send") => start <= page[p].at

(* A code in force or about to be has proved nothing yet, and its guesses are counted. *)
CodesCalm ==
  /\ coded.code # 0 => /\ \A i \in DOMAIN proofs : proofs[i].code # coded.code
                       /\ guesses[coded.code] = coded.tries
  /\ \A p \in Pages : On(p, "send") =>
       /\ page[p].put.code # coded.code
       /\ \A i \in DOMAIN proofs : proofs[i].code # page[p].put.code
       /\ guesses[page[p].put.code] = 0

MailsCalm ==
  /\ \A s \in Nat : IsFiniteSet(SentIn(s)) /\ Cardinality(SentIn(s)) <= MaxSends
  /\ Cardinality(SentIn(coded.start)) <= coded.count
  /\ \A m \in mailed : WindowOver(m.start)
  /\ \A p \in Pages : InMail(p) => WindowOver(page[p].put.start)

EmailCodeInv ==
  /\ CodesTyped
  /\ PagesFit
  /\ CodesApart
  /\ CodesPast
  /\ ApplicantProved
  /\ CodeProvesOnce
  /\ GuessesBounded
  /\ calm => CodesCalm /\ MailsCalm

LEMMA CodesTypes ==
  ASSUME CodesTyped
  PROVE  /\ coded \in CodeState /\ page \in [Pages -> PageType]
         /\ coded.code \in Nat /\ coded.until \in Nat /\ coded.tries \in Nat
         /\ coded.sent \in Nat /\ coded.start \in Nat /\ coded.count \in Nat
         /\ clock \in 0..MaxClock /\ clock \in Nat /\ calls \in Nat /\ calm \in BOOLEAN
         /\ \A p \in Pages :
              /\ page[p].put \in CodeState /\ page[p].saw \in CodeState
              /\ page[p].put.code \in Nat /\ page[p].put.start \in Nat /\ page[p].put.count \in Nat
              /\ page[p].saw.code \in Nat /\ page[p].saw.tries \in Nat
              /\ page[p].saw.start \in Nat /\ page[p].saw.count \in Nat
              /\ page[p].at \in 0..MaxClock /\ page[p].at \in Nat
<1>1. /\ coded \in CodeState /\ page \in [Pages -> PageType] /\ clock \in 0..MaxClock
      /\ calls \in Nat /\ calm \in BOOLEAN
  BY DEF CodesTyped, EmailCodeTypeOK, PageType
<1>2. \A p \in Pages : page[p] \in PageType
  BY <1>1
<1> QED
  BY <1>1, <1>2, CodeAssumption DEF CodeState, PageType

LEMMA NoCallType ==
  /\ NoCode \in CodeState /\ NoCall \in PageType
  /\ NoCall.step = "none"
  /\ \A mails, made, now : made \in Nat /\ now \in Nat => PageFits(NoCall, mails, made, now)
<1>1. NoCode \in CodeState /\ NoCode.code = 0
  BY DEF NoCode, CodeState
<1>2. NoCall \in PageType /\ NoCall.step = "none" /\ NoCall.saw = NoCode /\ NoCall.at = 0
  BY <1>1, CodeAssumption DEF NoCall, PageType
<1> QED
  BY <1>1, <1>2 DEF PageFits

(* One request moves, and no mail arrives for a code that another is sending. *)
LEMMA OnePageMoves ==
  ASSUME CodesTyped, PagesFit, NEW p \in Pages, NEW v \in PageType,
         page' = [page EXCEPT ![p] = v], PageFits(v, mailed', calls', clock'),
         calls' \in Nat, calls <= calls', clock' = clock, mailed \subseteq mailed',
         \A m \in mailed' : m \in mailed \/ \A q \in Pages : InSend(q) /\ q # p => m.code # page[q].put.code
  PROVE  page' \in [Pages -> PageType] /\ PagesFit'
<1>1. page \in [Pages -> PageType] /\ calls \in Nat /\ clock \in Nat
  BY CodesTypes
<1>2. page' \in [Pages -> PageType]
  BY <1>1
<1>3. ASSUME NEW q \in Pages
      PROVE  PageFits(page'[q], mailed', calls', clock')
  <2>1. CASE q = p
    BY <1>1, <2>1
  <2>2. CASE q # p
    <3>1. page'[q] = page[q] /\ PageFits(page[q], mailed, calls, clock)
      BY <1>1, <2>2 DEF PagesFit
    <3>2. /\ page[q].saw.code \in Nat /\ page[q].put.code \in Nat /\ page[q].at \in Nat
          /\ page[q].put.start \in Nat
      BY CodesTypes
    <3>3. page[q].saw.code <= calls'
          /\ (page[q].put.code \in 1..calls => page[q].put.code \in 1..calls')
      BY <1>1, <3>1, <3>2 DEF PageFits
    <3>4. page[q].step \in {"send", "mail"} => \A m \in mailed' : m.code # page[q].put.code
      BY <2>2, <3>1 DEF PageFits, InSend
    <3>5. page[q].step = "undo" => \A m \in mailed' : m.code = page[q].put.code => m.failed
      BY <2>2, <3>1 DEF PageFits, InSend
    <3> QED
      BY <3>1, <3>3, <3>4, <3>5 DEF PageFits
  <2> QED
    BY <2>1, <2>2
<1> QED
  BY <1>2, <1>3 DEF PagesFit

LEMMA ApartGoesOn ==
  ASSUME CodesTyped, CodesApart, NEW p \in Pages, NEW v \in PageType,
         page' = [page EXCEPT ![p] = v],
         v.step \in {"send", "mail", "undo"} =>
            \/ InSend(p) /\ v.put.code = page[p].put.code
            \/ \A q \in Pages : InSend(q) => page[q].put.code # v.put.code
  PROVE  CodesApart'
<1>1. page \in [Pages -> PageType]
  BY CodesTypes
<1>2. \A q \in Pages : page'[q] = IF q = p THEN v ELSE page[q]
  BY <1>1
<1>3. SUFFICES ASSUME NEW a \in Pages, NEW b \in Pages, InSend(a)', InSend(b)',
                      page'[a].put.code = page'[b].put.code
               PROVE  a = b
  BY DEF CodesApart
<1>4. (a # p => InSend(a)) /\ (b # p => InSend(b))
      /\ (a = p \/ b = p => v.step \in {"send", "mail", "undo"})
  BY <1>2, <1>3 DEF InSend
<1> QED
  BY <1>2, <1>3, <1>4 DEF CodesApart

(* A request that is not mailing, before or after, leaves what the windows hold. *)
LEMMA MailsStay ==
  ASSUME CodesTyped, MailsCalm, NEW p \in Pages, NEW v \in PageType,
         page' = [page EXCEPT ![p] = v], ~InMail(p), v.step \notin {"mail", "undo"},
         mailed' = mailed, clock' = clock, coded'.start = coded.start, coded'.count = coded.count,
         v.step = "send" => v.at = clock
  PROVE  MailsCalm'
<1>1. page \in [Pages -> PageType] /\ clock \in Nat
  BY CodesTypes
<1>2. \A q \in Pages : page'[q] = IF q = p THEN v ELSE page[q]
  BY <1>1
<1>3. \A q \in Pages : InMail(q)' = InMail(q)
  BY <1>2 DEF InMail
<1>4. \A q \in Pages : InMail(q) => MailOf(q)' = MailOf(q) /\ page'[q].put.start = page[q].put.start
  BY <1>2 DEF MailOf, InMail
<1>5. ASSUME NEW s PROVE SentIn(s)' = SentIn(s)
  BY <1>3, <1>4 DEF SentIn
<1>6. ASSUME NEW s, WindowOver(s) PROVE WindowOver(s)'
  BY <1>1, <1>2, <1>6 DEF WindowOver, On
<1>7. \A s \in Nat : IsFiniteSet(SentIn(s)') /\ Cardinality(SentIn(s)') <= MaxSends
  BY <1>5 DEF MailsCalm
<1>8. SentIn(coded.start)' = SentIn(coded.start)
  BY <1>3, <1>4 DEF SentIn
<1>9. Cardinality(SentIn(coded.start)') <= coded'.count
  BY <1>8 DEF MailsCalm
<1>10. (\A m \in mailed : WindowOver(m.start))'
  BY <1>6 DEF MailsCalm
<1>11. (\A q \in Pages : InMail(q) => WindowOver(page[q].put.start))'
  BY <1>3, <1>4, <1>6 DEF MailsCalm
<1> QED
  BY <1>7, <1>9, <1>10, <1>11 DEF MailsCalm

(* A row to send is the next of its window or the first of a new one. *)
LEMMA NewCodeFits ==
  ASSUME NEW row \in CodeState, NEW code \in Nat, code # 0, clock \in Nat, ~Limited(row)
  PROVE  /\ NewCode(row, code) \in CodeState
         /\ NewCode(row, code).code = code /\ NewCode(row, code).tries = 0
         /\ NewCode(row, code).start # 0 /\ NewCode(row, code).start \in {row.start, clock + 1}
         /\ NewCode(row, code).count # 0 /\ NewCode(row, code).count <= MaxSends
         /\ \/ NewCode(row, code).start = row.start /\ NewCode(row, code).count = row.count + 1
            \/ /\ NewCode(row, code).start = clock + 1 /\ NewCode(row, code).count = 1
               /\ row.start <= clock
<1>1. /\ row.start \in Nat /\ row.count \in Nat /\ clock + Ttl \in Nat /\ clock + 1 \in Nat
      /\ row.count + 1 \in Nat
  BY CodeAssumption DEF CodeState
<1>2. /\ Counts(row) \in CodeState
      /\ Counts(row).start = IF InWindow(row) THEN row.start ELSE clock + 1
      /\ Counts(row).count = IF InWindow(row) THEN row.count + 1 ELSE 1
  BY <1>1 DEF Counts, CodeState
<1>3. /\ NewCode(row, code) \in CodeState
      /\ NewCode(row, code).code = code /\ NewCode(row, code).tries = 0
      /\ NewCode(row, code).start = Counts(row).start
      /\ NewCode(row, code).count = Counts(row).count
  BY <1>1, <1>2 DEF NewCode, CodeState
<1>4. CASE InWindow(row)
  BY <1>1, <1>2, <1>3, <1>4, CodeAssumption DEF InWindow, Limited
<1>5. CASE ~InWindow(row)
  <2>1. row.start <= clock
    BY <1>1, <1>5, CodeAssumption DEF InWindow
  <2> QED
    BY <1>1, <1>2, <1>3, <1>5, <2>1, CodeAssumption
<1> QED
  BY <1>4, <1>5

LEMMA SendCodeKeeps ==
  ASSUME EmailCodeInv, NEW p \in Pages, SendCode(p)
  PROVE  EmailCodeInv'
<1> DEFINE v == [step |-> "send", saw |-> coded, put |-> NewCode(coded, calls'), at |-> clock]
<1>1. /\ CodesTyped /\ PagesFit /\ CodesApart /\ CodesPast /\ ~Limited(coded) /\ page[p].step = "none"
      /\ calls' = calls + 1 /\ calls' <= MaxCalls /\ page' = [page EXCEPT ![p] = v]
      /\ UNCHANGED <<coded, clock, proofs, mailed, guesses, applied, calm>>
  BY CodesTypes, CodeAssumption DEF EmailCodeInv, SendCode, Call, Reads, On
<1>2. /\ coded \in CodeState /\ clock \in 0..MaxClock /\ clock \in Nat /\ calls \in Nat
      /\ calls' \in Nat /\ calls' # 0 /\ calls <= calls' /\ coded.code \in Nat /\ coded.start \in Nat
      /\ coded.code <= calls /\ page \in [Pages -> PageType] /\ mailed \subseteq Mail
      /\ calls' \in 1..MaxCalls
  <2>1. /\ coded \in CodeState /\ clock \in 0..MaxClock /\ clock \in Nat /\ calls \in Nat
        /\ coded.code \in Nat /\ coded.start \in Nat /\ page \in [Pages -> PageType]
    BY <1>1, CodesTypes
  <2>2. calls' \in Nat /\ calls' # 0 /\ calls <= calls' /\ calls' \in 1..MaxCalls
    BY <1>1, <2>1, CodeAssumption
  <2> QED
    BY <1>1, <2>1, <2>2 DEF CodesPast, CodesTyped
<1>3. /\ v \in PageType /\ v.put.code = calls' /\ SendFits(v) /\ v.put.count # 0 /\ v.put.start # 0
      /\ v.put.start <= clock + 1
  <2>1. coded.start <= clock + 1
    BY <1>1 DEF CodesPast
  <2> QED
    BY <1>1, <1>2, <2>1, NewCodeFits DEF PageType, SendFits
<1>4. \A m \in mailed : m.code \in Nat /\ m.code # calls'
  BY <1>1, <1>2 DEF CodesPast, Mail
<1>5. PageFits(v, mailed', calls', clock')
  BY <1>1, <1>2, <1>3, <1>4 DEF PageFits
<1>6. page' \in [Pages -> PageType] /\ PagesFit'
  BY <1>1, <1>2, <1>3, <1>5, OnePageMoves
<1>7. CodesTyped'
  BY <1>1, <1>2, <1>6 DEF CodesTyped, EmailCodeTypeOK, PageType
<1>8. \A q \in Pages : InSend(q) => page[q].put.code # calls'
  BY <1>1, <1>2, CodesTypes DEF PagesFit, PageFits, InSend
<1>9. CodesApart'
  BY <1>1, <1>3, <1>8, ApartGoesOn
<1>10. CodesPast'
  BY <1>1, <1>2, CodesTypes DEF CodesPast, CodesTyped, Mail
<1>11. ApplicantProved' /\ CodeProvesOnce' /\ GuessesBounded'
  BY <1>1 DEF EmailCodeInv, ApplicantProved, CodeProvesOnce, GuessesBounded
<1>12. ASSUME calm' PROVE CodesCalm' /\ MailsCalm'
  <2>1. CodesCalm /\ MailsCalm
    BY <1>1, <1>12 DEF EmailCodeInv
  <2>2. MailsCalm'
    BY <1>1, <1>3, <2>1, MailsStay DEF InMail
  <2>3. \A i \in DOMAIN proofs : proofs[i].code # calls'
    BY <1>1, <1>4 DEF CodesPast
  <2>4. guesses[calls'] = 0
    BY <1>1, <1>2 DEF CodesPast
  <2>5. \A q \in Pages : page'[q] = IF q = p THEN v ELSE page[q]
    BY <1>1, <1>2
  <2>6. CodesCalm'
    BY <1>1, <1>2, <1>3, <2>1, <2>3, <2>4, <2>5 DEF CodesCalm, On
  <2> QED
    BY <2>2, <2>6
<1> QED
  BY <1>6, <1>7, <1>9, <1>10, <1>11, <1>12 DEF EmailCodeInv

(* The guesses read the row and leave it. *)
LEMMA VerifyKeeps ==
  ASSUME EmailCodeInv, NEW p \in Pages, VerifyWrong(p) \/ VerifyRight(p)
  PROVE  EmailCodeInv'
<1>1. PICK step \in {"wrong", "right"} :
        /\ page' = [page EXCEPT ![p] = [step |-> step, saw |-> coded, put |-> coded, at |-> clock]]
        /\ step = "right" => \E m \in mailed : m.code = coded.code
  BY DEF VerifyWrong, VerifyRight, Reads
<1> DEFINE v == [step |-> step, saw |-> coded, put |-> coded, at |-> clock]
<1>2. /\ CodesTyped /\ PagesFit /\ CodesApart /\ CodesPast /\ page[p].step = "none"
      /\ Takes(coded) /\ calls' = calls + 1 /\ calls' <= MaxCalls
      /\ UNCHANGED <<coded, clock, proofs, mailed, guesses, applied, calm>>
  BY CodesTypes, CodeAssumption DEF EmailCodeInv, VerifyWrong, VerifyRight, Call, On
<1>3. /\ coded \in CodeState /\ clock \in 0..MaxClock /\ clock \in Nat /\ calls \in Nat
      /\ calls' \in Nat /\ calls <= calls' /\ coded.code \in Nat /\ coded.code <= calls
      /\ coded.tries \in Nat /\ page \in [Pages -> PageType] /\ mailed \subseteq Mail
  BY <1>2, CodesTypes DEF CodesPast, CodesTyped
<1>4. v \in PageType /\ v.step = step /\ v.saw = coded /\ v.at = clock
  BY <1>3 DEF PageType
<1>5. PageFits(v, mailed', calls', clock')
  BY <1>1, <1>2, <1>3, <1>4 DEF PageFits, Takes, Usable
<1>6. page' \in [Pages -> PageType] /\ PagesFit'
  BY <1>1, <1>2, <1>3, <1>4, <1>5, OnePageMoves
<1>7. CodesTyped'
  BY <1>2, <1>3, <1>6 DEF CodesTyped, EmailCodeTypeOK, PageType
<1>8. CodesApart'
  BY <1>1, <1>2, <1>4, ApartGoesOn
<1>9. CodesPast'
  BY <1>2, <1>3 DEF CodesPast, CodesTyped, Mail
<1>10. ApplicantProved' /\ CodeProvesOnce' /\ GuessesBounded'
  BY <1>2 DEF EmailCodeInv, ApplicantProved, CodeProvesOnce, GuessesBounded
<1>11. ASSUME calm' PROVE CodesCalm' /\ MailsCalm'
  <2>1. CodesCalm /\ MailsCalm
    BY <1>2, <1>11 DEF EmailCodeInv
  <2>2. MailsCalm'
    BY <1>1, <1>2, <1>4, <2>1, MailsStay DEF InMail
  <2>3. \A q \in Pages : page'[q] = IF q = p THEN v ELSE page[q]
    BY <1>1, <1>3
  <2>4. CodesCalm'
    BY <1>2, <2>1, <2>3 DEF CodesCalm, On
  <2> QED
    BY <2>2, <2>4
<1> QED
  BY <1>6, <1>7, <1>8, <1>9, <1>10, <1>11 DEF EmailCodeInv

(* A wrong guess is counted; it may be the one that cancels the code. *)
LEMMA CountGuessKeeps ==
  ASSUME EmailCodeInv, NEW p \in Pages, CountGuess(p)
  PROVE  EmailCodeInv'
<1> DEFINE c == page[p].saw.code
<1>1. /\ CodesTyped /\ PagesFit /\ CodesApart /\ CodesPast /\ page[p].step = "wrong"
      /\ coded' = [coded EXCEPT !.tries = @ + 1] /\ guesses' = [guesses EXCEPT ![c] = @ + 1]
      /\ UNCHANGED <<clock, proofs, mailed, applied, calls>>
      /\ calm' = (calm /\ \A f \in {"code", "tries", "start", "count"} : page[p].saw[f] = coded[f])
  BY DEF EmailCodeInv, CountGuess, On, StillCalm
<1>2. /\ coded \in CodeState /\ clock \in 0..MaxClock /\ clock \in Nat /\ calls \in Nat
      /\ calls <= MaxCalls /\ coded.tries \in Nat /\ page \in [Pages -> PageType]
      /\ c \in Nat /\ calm \in BOOLEAN /\ guesses \in [1..MaxCalls -> Nat] /\ MaxCalls \in Nat
  BY <1>1, CodesTypes, CodeAssumption DEF CodesTyped
<1>3. c # 0 /\ c <= calls /\ page[p].saw.tries < MaxGuesses
  BY <1>1 DEF PagesFit, PageFits
<1>4. c \in 1..MaxCalls
  BY <1>2, <1>3
<1>5. PICK v \in PageType : page' = [page EXCEPT ![p] = v] /\ v.step \in {"cancel", "none"}
                            /\ PageFits(v, mailed, calls, clock)
  <2>1. CASE coded'.tries >= MaxGuesses
    <3> DEFINE v == [page[p] EXCEPT !.step = "cancel"]
    <3>1. page' = [page EXCEPT ![p] = v]
      BY <1>1, <1>2, <2>1 DEF CountGuess, Proceeds, PageType
    <3>2. /\ v \in PageType /\ v.step = "cancel" /\ v.saw = page[p].saw /\ v.at = page[p].at
      BY <1>2 DEF PageType
    <3>3. PageFits(v, mailed, calls, clock)
      BY <1>1, <3>2 DEF PagesFit, PageFits
    <3> QED
      BY <3>1, <3>2, <3>3
  <2>2. CASE ~(coded'.tries >= MaxGuesses)
    <3>1. page' = [page EXCEPT ![p] = NoCall]
      BY <1>1, <2>2 DEF CountGuess, Returns
    <3> QED
      BY <1>2, <3>1, NoCallType
  <2> QED
    BY <2>1, <2>2
<1>6. /\ coded' \in CodeState /\ coded'.code = coded.code /\ coded'.tries = coded.tries + 1
      /\ coded'.start = coded.start /\ coded'.count = coded.count
      /\ coded.tries + 1 \in Nat
  BY SMTT(60), <1>1, <1>2 DEF CodeState
<1>7. guesses' \in [1..MaxCalls -> Nat] /\ guesses'[c] = guesses[c] + 1
      /\ \A d \in 1..MaxCalls : d # c => guesses'[d] = guesses[d]
  <2>1. guesses[c] \in Nat /\ guesses[c] + 1 \in Nat
    BY <1>2, <1>4
  <2> QED
    BY <1>1, <1>2, <1>4, <2>1
<1>8. page' \in [Pages -> PageType] /\ PagesFit'
  <2>1. PageFits(v, mailed', calls', clock') /\ calls' \in Nat /\ calls <= calls'
    BY <1>1, <1>2, <1>5
  <2> QED
    BY <1>1, <1>5, <2>1, OnePageMoves
<1>9. CodesTyped'
  BY <1>1, <1>2, <1>6, <1>7, <1>8 DEF CodesTyped, EmailCodeTypeOK, PageType
<1>10. CodesApart'
  BY <1>1, <1>5, ApartGoesOn
<1>11. CodesPast'
  BY <1>1, <1>2, <1>3, <1>6, <1>7 DEF CodesPast
<1>12. ApplicantProved' /\ CodeProvesOnce'
  BY <1>1, <1>2 DEF EmailCodeInv, ApplicantProved, CodeProvesOnce
<1>13. ASSUME calm' PROVE CodesCalm' /\ MailsCalm' /\ (\A d \in 1..MaxCalls : guesses'[d] <= MaxGuesses)
  <2>1. CodesCalm /\ MailsCalm /\ GuessesBounded /\ calm
    BY <1>1, <1>2, <1>13 DEF EmailCodeInv
  <2>2. c = coded.code /\ page[p].saw.tries = coded.tries
    BY <1>1, <1>13
  <2>3. MailsCalm'
    BY <1>1, <1>5, <1>6, <2>1, MailsStay DEF InMail
  <2>4. guesses[c] = coded.tries
    BY <1>3, <2>1, <2>2 DEF CodesCalm
  <2>5. \A q \in Pages : page'[q] = IF q = p THEN v ELSE page[q]
    BY <1>2, <1>5
  <2>6. \A q \in Pages : On(q, "send")' => On(q, "send") /\ page'[q] = page[q] /\ page[q].put.code # c
                            /\ page[q].put.code \in 1..calls
    BY <1>5, <2>1, <2>2, <2>5, <1>1 DEF CodesCalm, On, PagesFit, PageFits
  <2>7. \A q \in Pages : On(q, "send")' => page[q].put.code \in 1..MaxCalls
    BY <1>2, <2>6
  <2>8. CodesCalm'
    BY <1>1, <1>6, <1>7, <2>1, <2>2, <2>4, <2>6, <2>7 DEF CodesCalm
  <2>9. \A d \in 1..MaxCalls : guesses'[d] <= MaxGuesses
    <3>1. guesses'[c] = coded.tries + 1 /\ coded.tries < MaxGuesses
      BY <1>3, <1>7, <2>2, <2>4
    <3>2. coded.tries + 1 <= MaxGuesses
      BY <1>2, <3>1, CodeAssumption
    <3> QED
      BY <1>7, <2>1, <3>1, <3>2 DEF GuessesBounded
  <2> QED
    BY <2>3, <2>8, <2>9
<1> QED
  BY <1>8, <1>9, <1>10, <1>11, <1>12, <1>13 DEF EmailCodeInv, GuessesBounded

(* A code is given up: it is no longer in force, and its request is over. *)
LEMMA CodeGone ==
  ASSUME NEW row \in CodeState
  PROVE  /\ Uncoded(row) \in CodeState /\ Uncoded(row).code = 0
         /\ Uncoded(row).start = row.start /\ Uncoded(row).count = row.count
         /\ SpentCode(row) \in CodeState /\ SpentCode(row).code = 0
         /\ SpentCode(row).start = row.start /\ SpentCode(row).count = row.count
<1>1. /\ Uncoded(row) \in CodeState /\ Uncoded(row).code = 0
      /\ Uncoded(row).start = row.start /\ Uncoded(row).count = row.count
  BY DEF Uncoded, CodeState
<1> QED
  BY <1>1 DEF SpentCode, CodeState

LEMMA CancelGuessedKeeps ==
  ASSUME EmailCodeInv, NEW p \in Pages, CancelGuessed(p)
  PROVE  EmailCodeInv'
<1>1. /\ CodesTyped /\ PagesFit /\ CodesApart /\ CodesPast /\ page[p].step = "cancel"
      /\ coded' = Uncoded(coded) /\ page' = [page EXCEPT ![p] = NoCall]
      /\ UNCHANGED <<clock, proofs, mailed, guesses, applied, calls>>
      /\ calm' = (calm /\ page[p].saw.code = coded.code)
  BY DEF EmailCodeInv, CancelGuessed, On, Returns
<1>2. /\ coded \in CodeState /\ clock \in Nat /\ calls \in Nat /\ calm \in BOOLEAN
      /\ page \in [Pages -> PageType]
  BY <1>1, CodesTypes
<1>3. /\ coded' \in CodeState /\ coded'.code = 0
      /\ coded'.start = coded.start /\ coded'.count = coded.count
  BY <1>1, <1>2, CodeGone
<1>4. NoCall \in PageType /\ NoCall.step = "none" /\ PageFits(NoCall, mailed', calls', clock')
      /\ calls' \in Nat /\ calls <= calls'
  BY <1>1, <1>2, NoCallType
<1>5. page' \in [Pages -> PageType] /\ PagesFit'
  BY <1>1, <1>4, OnePageMoves
<1>6. CodesTyped'
  BY <1>1, <1>2, <1>3, <1>5 DEF CodesTyped, EmailCodeTypeOK, PageType
<1>7. CodesApart'
  BY <1>1, <1>4, ApartGoesOn
<1>8. CodesPast'
  BY <1>1, <1>2, <1>3 DEF CodesPast
<1>9. ApplicantProved' /\ CodeProvesOnce' /\ GuessesBounded'
  BY <1>1, <1>2 DEF EmailCodeInv, ApplicantProved, CodeProvesOnce, GuessesBounded
<1>10. ASSUME calm' PROVE CodesCalm' /\ MailsCalm'
  <2>1. CodesCalm /\ MailsCalm
    BY <1>1, <1>2, <1>10 DEF EmailCodeInv
  <2>2. MailsCalm'
    BY <1>1, <1>3, <1>4, <2>1, MailsStay DEF InMail
  <2>3. \A q \in Pages : page'[q] = IF q = p THEN NoCall ELSE page[q]
    BY <1>1, <1>2, <1>4
  <2>4. \A q \in Pages : On(q, "send")' =>
          /\ On(q, "send") /\ page'[q] = page[q] /\ page[q].put.code # 0
    BY <1>1, <1>4, <2>3 DEF On, PagesFit, PageFits
  <2>5. CodesCalm'
    BY <1>1, <1>3, <2>1, <2>4 DEF CodesCalm
  <2> QED
    BY <2>2, <2>5
<1> QED
  BY <1>5, <1>6, <1>7, <1>8, <1>9, <1>10 DEF EmailCodeInv

(* A code proves the address, and is spent: if it was in force, nothing was proved by it. *)
LEMMA AcceptCodeKeeps ==
  ASSUME EmailCodeInv, NEW p \in Pages, AcceptCode(p)
  PROVE  EmailCodeInv'
<1> DEFINE c == page[p].saw.code
           proof == [code |-> c, until |-> page[p].at + ProofTtl]
<1>1. /\ CodesTyped /\ PagesFit /\ CodesApart /\ CodesPast /\ page[p].step = "right"
      /\ coded' = SpentCode(coded) /\ page' = [page EXCEPT ![p] = NoCall]
      /\ proofs' = Append(proofs, proof)
      /\ UNCHANGED <<clock, mailed, guesses, applied, calls>>
      /\ calm' = (calm /\ \A f \in {"code", "tries", "start", "count"} : page[p].saw[f] = coded[f])
  BY DEF EmailCodeInv, AcceptCode, On, Returns, StillCalm
<1>2. /\ coded \in CodeState /\ clock \in Nat /\ calls \in Nat /\ calm \in BOOLEAN
      /\ page \in [Pages -> PageType] /\ c \in Nat /\ page[p].at \in Nat
      /\ proofs \in Seq(Proof)
  BY <1>1, CodesTypes DEF CodesTyped
<1>3. /\ coded' \in CodeState /\ coded'.code = 0
      /\ coded'.start = coded.start /\ coded'.count = coded.count
  BY <1>1, <1>2, CodeGone
<1>4. NoCall \in PageType /\ NoCall.step = "none" /\ PageFits(NoCall, mailed', calls', clock')
      /\ calls' \in Nat /\ calls <= calls'
  BY <1>1, <1>2, NoCallType
<1>5. page' \in [Pages -> PageType] /\ PagesFit'
  BY <1>1, <1>4, OnePageMoves
<1>6. proof \in Proof /\ proofs' \in Seq(Proof) /\ Len(proofs') = Len(proofs) + 1
      /\ Len(proofs) \in Nat /\ DOMAIN proofs = 1..Len(proofs)
      /\ DOMAIN proofs' = 1..(Len(proofs) + 1)
      /\ \A i \in 1..(Len(proofs) + 1) : proofs'[i] = IF i = Len(proofs) + 1 THEN proof ELSE proofs[i]
  <2>1. proof \in Proof
    BY <1>2, CodeAssumption DEF Proof
  <2> QED
    BY <1>1, <1>2, <2>1
<1>7. \A i \in DOMAIN proofs : i \in DOMAIN proofs' /\ proofs'[i] = proofs[i]
  BY <1>6
<1>8. \A i \in DOMAIN proofs' : (i \in DOMAIN proofs /\ proofs'[i] = proofs[i])
                                 \/ (i = Len(proofs) + 1 /\ proofs'[i] = proof)
  BY <1>6
<1>9. CodesTyped'
  BY <1>1, <1>2, <1>3, <1>5, <1>6 DEF CodesTyped, EmailCodeTypeOK, PageType
<1>10. CodesApart'
  BY <1>1, <1>4, ApartGoesOn
<1>11. c # 0 /\ \E m \in mailed : m.code = c
  BY <1>1 DEF PagesFit, PageFits
<1>12. CodesPast'
  <2>1. \A i \in DOMAIN proofs' : \E m \in mailed : m.code = proofs'[i].code
    BY <1>1, <1>8, <1>11 DEF CodesPast
  <2> QED
    BY <1>1, <1>2, <1>3, <2>1 DEF CodesPast
<1>13. ApplicantProved'
  BY <1>1, <1>7 DEF EmailCodeInv, ApplicantProved
<1>14. GuessesBounded'
  BY <1>1, <1>2 DEF EmailCodeInv, GuessesBounded
<1>15. ASSUME calm' PROVE CodesCalm' /\ MailsCalm' /\ CodeProvesOnce'
  <2>1. CodesCalm /\ MailsCalm /\ CodeProvesOnce /\ calm /\ c = coded.code
    BY <1>1, <1>2, <1>15 DEF EmailCodeInv
  <2>2. MailsCalm'
    BY <1>1, <1>3, <1>4, <2>1, MailsStay DEF InMail
  <2>3. \A q \in Pages : page'[q] = IF q = p THEN NoCall ELSE page[q]
    BY <1>1, <1>2, <1>4
  <2>4. \A q \in Pages : On(q, "send")' =>
          /\ On(q, "send") /\ page'[q] = page[q] /\ page[q].put.code # 0
          /\ page[q].put.code # c
    BY <1>1, <1>4, <2>1, <2>3 DEF On, PagesFit, PageFits, CodesCalm
  <2>5. ASSUME NEW q \in Pages, On(q, "send")'
        PROVE  \A i \in DOMAIN proofs' : proofs'[i].code # page'[q].put.code
    BY <1>8, <2>1, <2>4, <2>5 DEF CodesCalm
  <2>6. CodesCalm'
    BY <1>1, <1>3, <2>1, <2>4, <2>5 DEF CodesCalm
  <2>7. \A i \in DOMAIN proofs : proofs[i].code # c
    BY <1>11, <2>1 DEF CodesCalm
  <2>8. CodeProvesOnce'
    BY <1>8, <2>1, <2>7 DEF CodeProvesOnce
  <2> QED
    BY <2>2, <2>6, <2>8
<1> QED
  BY <1>5, <1>9, <1>10, <1>12, <1>13, <1>14, <1>15 DEF EmailCodeInv, CodeProvesOnce

(* The row that was prepared is stored. In turn, it is the next of the window that is
   still the row's, or the first of a window nobody has sent in. *)
LEMMA StoreCodeKeeps ==
  ASSUME EmailCodeInv, NEW p \in Pages, StoreCode(p)
  PROVE  EmailCodeInv'
<1> DEFINE v == [page[p] EXCEPT !.step = "mail"]
           row == page[p].put
<1>1. /\ CodesTyped /\ PagesFit /\ CodesApart /\ CodesPast /\ page[p].step = "send"
      /\ coded' = row
      /\ UNCHANGED <<clock, proofs, mailed, guesses, applied, calls>>
      /\ calm' = (calm /\ \A f \in {"code", "tries", "start", "count"} : page[p].saw[f] = coded[f])
  BY DEF EmailCodeInv, StoreCode, On, StillCalm
<1>2. /\ coded \in CodeState /\ clock \in Nat /\ calls \in Nat /\ calm \in BOOLEAN
      /\ page \in [Pages -> PageType] /\ row \in CodeState /\ page[p] \in PageType
      /\ row.code \in Nat /\ row.start \in Nat /\ row.count \in Nat /\ row.tries \in Nat
      /\ page[p].saw.start \in Nat /\ page[p].saw.count \in Nat /\ page[p].at \in Nat
      /\ coded.start \in Nat /\ coded.count \in Nat
  BY <1>1, CodesTypes DEF CodeState
<1>3. /\ v \in PageType /\ v.step = "mail" /\ v.put = row /\ v.saw = page[p].saw
      /\ v.at = page[p].at /\ page' = [page EXCEPT ![p] = v]
  BY <1>2 DEF PageType, StoreCode, Proceeds
<1>4. /\ row.code \in 1..calls /\ row.start # 0 /\ row.start <= clock + 1 /\ SendFits(page[p])
      /\ page[p].at <= clock /\ row.tries = 0
  BY <1>1 DEF PagesFit, PageFits, SendFits
<1>5. PageFits(v, mailed', calls', clock') /\ calls' \in Nat /\ calls <= calls'
  BY <1>1, <1>2, <1>3 DEF PagesFit, PageFits
<1>6. page' \in [Pages -> PageType] /\ PagesFit'
  BY <1>1, <1>3, <1>5, OnePageMoves
<1>7. CodesTyped'
  BY <1>1, <1>2, <1>6 DEF CodesTyped, EmailCodeTypeOK, PageType
<1>8. CodesApart'
  BY <1>1, <1>3, ApartGoesOn DEF InSend
<1>9. CodesPast'
  BY <1>1, <1>2, <1>4 DEF CodesPast
<1>10. ApplicantProved' /\ CodeProvesOnce' /\ GuessesBounded'
  BY <1>1, <1>2 DEF EmailCodeInv, ApplicantProved, CodeProvesOnce, GuessesBounded
<1>11. \A q \in Pages : page'[q] = IF q = p THEN v ELSE page[q]
  BY <1>2, <1>3
<1>12. ASSUME calm' PROVE CodesCalm'
  <2>1. CodesCalm
    BY <1>1, <1>2, <1>12 DEF EmailCodeInv
  <2>2. \A q \in Pages : On(q, "send")' =>
          On(q, "send") /\ page'[q] = page[q] /\ page[q].put.code # row.code
    <3>1. SUFFICES ASSUME NEW q \in Pages, On(q, "send")'
                   PROVE  On(q, "send") /\ page'[q] = page[q] /\ page[q].put.code # row.code
      OBVIOUS
    <3>2. q # p /\ page'[q] = page[q] /\ page[q].step = "send"
      BY <1>3, <1>11, <3>1 DEF On
    <3> QED
      BY <1>1, <3>2 DEF On, CodesApart, InSend
  <2>3. /\ \A i \in DOMAIN proofs : proofs[i].code # row.code
        /\ guesses[row.code] = row.tries
    BY <1>1, <1>4, <2>1 DEF CodesCalm, On
  <2> QED
    BY <1>1, <2>1, <2>2, <2>3 DEF CodesCalm
<1>13. ASSUME calm' PROVE MailsCalm'
  <2>1. /\ MailsCalm /\ page[p].saw.start = coded.start /\ page[p].saw.count = coded.count
    BY <1>1, <1>2, <1>13 DEF EmailCodeInv
  <2>2. /\ \A q \in Pages : InMail(q)' <=> InMail(q) \/ q = p
        /\ \A q \in Pages : page'[q].put = page[q].put
        /\ \A q \in Pages : MailOf(q)' = MailOf(q)
        /\ ~InMail(p)
    BY <1>1, <1>3, <1>11 DEF InMail, MailOf
  <2>3. ASSUME NEW s \in Nat
        PROVE  SentIn(s)' = IF s = row.start THEN SentIn(s) \cup {MailOf(p)} ELSE SentIn(s)
    BY <1>1, <2>2 DEF SentIn
  <2>4. \A m \in mailed : m.start \in Nat
    BY <1>1 DEF CodesTyped, Mail
  <2>5. ASSUME NEW s \in Nat, WindowOver(s)
        PROVE  s <= coded'.start \/ (s <= clock /\ \A q \in Pages : On(q, "send")' => s <= page'[q].at)
    <3>1. \A q \in Pages : On(q, "send")' => On(q, "send") /\ page'[q] = page[q]
      BY <1>3, <1>11 DEF On
    <3>2. CASE s <= coded.start
      BY <1>1, <1>2, <1>4, <2>1, <3>2 DEF SendFits
    <3>3. CASE s <= clock /\ \A q \in Pages : On(q, "send") => s <= page[q].at
      BY <3>1, <3>3
    <3> QED
      BY <2>5, <3>2, <3>3 DEF WindowOver
  <2>6. (\A m \in mailed : WindowOver(m.start))'
    BY <1>1, <2>1, <2>4, <2>5 DEF MailsCalm, WindowOver
  <2>7. (\A q \in Pages : InMail(q) => WindowOver(page[q].put.start))'
    <3>1. SUFFICES ASSUME NEW q \in Pages, InMail(q)'
                   PROVE  WindowOver(page[q].put.start)'
      OBVIOUS
    <3>2. CASE q = p
      BY <1>1, <1>2, <2>2, <3>2 DEF WindowOver
    <3>3. CASE q # p
      <4>1. page[q].put.start \in Nat /\ WindowOver(page[q].put.start)
            /\ page'[q].put.start = page[q].put.start
        BY <1>1, <2>1, <2>2, <3>1, <3>3, CodesTypes DEF MailsCalm
      <4> QED
        BY <1>1, <2>5, <4>1 DEF WindowOver
    <3> QED
      BY <3>2, <3>3
  <2>8. /\ IsFiniteSet(SentIn(row.start)) /\ Cardinality(SentIn(row.start)) \in Nat
        /\ Cardinality(SentIn(row.start)) <= row.count - 1 /\ row.count <= MaxSends
    <3>1. IsFiniteSet(SentIn(row.start)) /\ Cardinality(SentIn(row.start)) \in Nat
      BY <1>2, <2>1, FS_CardinalityType DEF MailsCalm
    <3>2. CASE row.start = coded.start /\ row.count = coded.count + 1
      BY <1>2, <1>4, <2>1, <3>1, <3>2 DEF MailsCalm, SendFits
    <3>3. CASE row.start = page[p].at + 1 /\ row.count = 1 /\ coded.start <= page[p].at
      <4>1. \A m \in mailed : m.start < row.start
        BY <1>1, <1>2, <2>1, <2>4, <3>3 DEF MailsCalm, WindowOver, On
      <4>2. \A q \in Pages : InMail(q) => page[q].put.start < row.start
        <5>1. \A q \in Pages : page[q].put.start \in Nat
          BY <1>1, CodesTypes
        <5> QED
          BY <1>1, <1>2, <2>1, <3>3, <5>1 DEF MailsCalm, WindowOver, On
      <4>3. SentIn(row.start) = {}
        BY <1>2, <2>4, <4>1, <4>2 DEF SentIn
      <4> QED
        BY <1>4, <3>1, <3>3, <4>3, FS_EmptySet DEF SendFits
    <3> QED
      BY <1>4, <2>1, <3>2, <3>3 DEF SendFits
  <2>9. /\ IsFiniteSet(SentIn(row.start)') /\ Cardinality(SentIn(row.start)') <= row.count
    <3>1. SentIn(row.start)' = SentIn(row.start) \cup {MailOf(p)}
      BY <1>1, <2>2 DEF SentIn
    <3> DEFINE S == SentIn(row.start)
               m == MailOf(p)
    <3>2. IsFiniteSet(S \cup {m}) /\ Cardinality(S \cup {m}) <= Cardinality(S) + 1
      <4>1. /\ IsFiniteSet(S \cup {m})
            /\ Cardinality(S \cup {m}) = IF m \in S THEN Cardinality(S) ELSE Cardinality(S) + 1
        BY <2>8, FS_AddElement
      <4> QED
        BY <2>8, <4>1
    <3>3. Cardinality(S) \in Nat /\ Cardinality(S) <= row.count - 1 /\ Cardinality(S \cup {m}) \in Nat
      BY <2>8, <3>2, FS_CardinalityType
    <3>4. Cardinality(S \cup {m}) <= row.count
      BY <1>2, <3>2, <3>3
    <3> QED
      BY <3>1, <3>2, <3>4
  <2>10. /\ coded'.start = row.start /\ coded'.count = row.count
         /\ SentIn(coded.start)' = SentIn(row.start)'
    BY <1>1, <2>2 DEF SentIn
  <2>11. ASSUME NEW s \in Nat
         PROVE  IsFiniteSet(SentIn(s)') /\ Cardinality(SentIn(s)') <= MaxSends
    <3>1. CASE s = row.start
      <4>1. SentIn(s)' = SentIn(row.start)' /\ Cardinality(SentIn(row.start)') \in Nat
        BY <2>2, <2>9, <3>1, FS_CardinalityType DEF SentIn
      <4> QED
        BY <1>2, <2>8, <2>9, <4>1, CodeAssumption
    <3>2. CASE s # row.start
      BY <2>1, <2>3, <3>2 DEF MailsCalm
    <3> QED
      BY <3>1, <3>2
  <2> QED
    BY <2>6, <2>7, <2>9, <2>10, <2>11 DEF MailsCalm
<1> QED
  BY <1>6, <1>7, <1>8, <1>9, <1>10, <1>12, <1>13 DEF EmailCodeInv

(* The mail goes: a code that was counted stays counted, or is to be uncounted. *)
LEMMA MailCodeKeeps ==
  ASSUME EmailCodeInv, NEW p \in Pages, MailCode(p)
  PROVE  EmailCodeInv'
<1> DEFINE row == page[p].put
<1>1. PICK arrives \in BOOLEAN, fails \in BOOLEAN :
        /\ arrives \/ fails
        /\ mailed' = IF arrives
                       THEN mailed \cup {[code |-> row.code, start |-> row.start, failed |-> fails]}
                       ELSE mailed
        /\ IF fails THEN Proceeds(p, "undo") ELSE Returns(p)
  BY DEF MailCode
<1>2. /\ CodesTyped /\ PagesFit /\ CodesApart /\ CodesPast /\ page[p].step = "mail"
      /\ UNCHANGED <<coded, clock, proofs, guesses, applied, calls, calm>>
  BY DEF EmailCodeInv, MailCode, On
<1>3. /\ coded \in CodeState /\ clock \in Nat /\ calls \in Nat /\ page \in [Pages -> PageType]
      /\ row \in CodeState /\ row.code \in Nat /\ row.start \in Nat /\ mailed \subseteq Mail
      /\ page[p] \in PageType /\ coded.count \in Nat
  BY <1>2, CodesTypes DEF CodesTyped
<1>4. /\ row.code \in 1..calls /\ row.start # 0 /\ \A m \in mailed : m.code # row.code
  BY <1>2 DEF PagesFit, PageFits
<1> DEFINE new == [code |-> row.code, start |-> row.start, failed |-> fails]
<1>5. /\ mailed \subseteq mailed' /\ mailed' \subseteq Mail /\ mailed' \subseteq mailed \cup {new}
      /\ \A m \in mailed' : m \in mailed \/ m = new
  BY <1>1, <1>3 DEF Mail
<1>6. \A m \in mailed' : m \in mailed \/ \A q \in Pages : InSend(q) /\ q # p => m.code # page[q].put.code
  BY <1>2, <1>5 DEF CodesApart, InSend
<1>7. PICK v \in PageType : /\ page' = [page EXCEPT ![p] = v]
                            /\ v.step = (IF fails THEN "undo" ELSE "none")
                            /\ fails => v.put = row
                            /\ PageFits(v, mailed', calls', clock')
  <2>1. CASE fails
    <3> DEFINE v == [page[p] EXCEPT !.step = "undo"]
    <3>1. /\ v \in PageType /\ v.step = "undo" /\ v.put = row /\ v.saw = page[p].saw
          /\ v.at = page[p].at /\ page' = [page EXCEPT ![p] = v]
      BY <1>1, <1>3, <2>1 DEF PageType, Proceeds
    <3>2. PageFits(v, mailed', calls', clock')
      BY <1>2, <1>4, <1>5, <2>1, <3>1 DEF PagesFit, PageFits
    <3> QED
      BY <2>1, <3>1, <3>2
  <2>2. CASE ~fails
    <3>1. page' = [page EXCEPT ![p] = NoCall]
      BY <1>1, <2>2 DEF Returns
    <3>2. PageFits(NoCall, mailed', calls', clock')
      BY <1>2, <1>3, NoCallType
    <3> QED
      BY <2>2, <3>1, <3>2, NoCallType
  <2> QED
    BY <2>1, <2>2
<1>8. page' \in [Pages -> PageType] /\ PagesFit'
  <2>1. calls' \in Nat /\ calls <= calls' /\ clock' = clock
    BY <1>2, <1>3
  <2> QED
    BY <1>2, <1>5, <1>6, <1>7, <2>1, OnePageMoves
<1>9. CodesTyped'
  BY <1>2, <1>5, <1>8 DEF CodesTyped, EmailCodeTypeOK, PageType
<1>10. CodesApart'
  BY <1>2, <1>7, ApartGoesOn DEF InSend
<1>11. CodesPast'
  BY <1>2, <1>4, <1>5 DEF CodesPast
<1>12. ApplicantProved' /\ CodeProvesOnce' /\ GuessesBounded'
  BY <1>2, <1>5 DEF EmailCodeInv, ApplicantProved, CodeProvesOnce, GuessesBounded
<1>13. \A q \in Pages : page'[q] = IF q = p THEN v ELSE page[q]
  BY <1>3, <1>7
<1>14. ASSUME calm' PROVE CodesCalm' /\ MailsCalm'
  <2>1. CodesCalm /\ MailsCalm
    BY <1>2, <1>14 DEF EmailCodeInv
  <2>2. \A q \in Pages : On(q, "send")' => On(q, "send") /\ page'[q] = page[q]
    BY <1>7, <1>13 DEF On
  <2>3. CodesCalm'
    BY <1>2, <2>1, <2>2 DEF CodesCalm
  <2>4. \A q \in Pages : InMail(q)' => /\ InMail(q) /\ page'[q].put = page[q].put
                                       /\ MailOf(q)' = MailOf(q)
    BY <1>2, <1>7, <1>13 DEF InMail, MailOf
  <2>5. ASSUME NEW s PROVE SentIn(s)' \subseteq SentIn(s)
    <3>1. SUFFICES ASSUME NEW m \in SentIn(s)' PROVE m \in SentIn(s)
      OBVIOUS
    <3>2. CASE \E q \in Pages : InMail(q)' /\ page'[q].put.start = s /\ m = MailOf(q)'
      BY <2>4, <3>2 DEF SentIn
    <3>3. CASE m \in mailed' /\ m.start = s /\ ~m.failed
      <4>1. CASE m \in mailed
        BY <3>3, <4>1 DEF SentIn
      <4>2. CASE m = new
        <5>1. m = MailOf(p) /\ InMail(p) /\ row.start = s
          BY <1>2, <3>3, <4>2 DEF MailOf, InMail
        <5> QED
          BY <5>1 DEF SentIn
      <4> QED
        BY <1>5, <3>3, <4>1, <4>2
    <3> QED
      BY <3>1, <3>2, <3>3 DEF SentIn
  <2>6. ASSUME NEW s \in Nat
        PROVE  /\ IsFiniteSet(SentIn(s)') /\ Cardinality(SentIn(s)') <= MaxSends
               /\ Cardinality(SentIn(s)') <= Cardinality(SentIn(s))
               /\ Cardinality(SentIn(s)') \in Nat /\ Cardinality(SentIn(s)) \in Nat
    <3>1. /\ IsFiniteSet(SentIn(s)') /\ Cardinality(SentIn(s)') <= Cardinality(SentIn(s))
          /\ Cardinality(SentIn(s)) <= MaxSends /\ IsFiniteSet(SentIn(s))
      BY <2>1, <2>5, FS_Subset DEF MailsCalm
    <3>2. Cardinality(SentIn(s)') \in Nat /\ Cardinality(SentIn(s)) \in Nat
      BY <3>1, FS_CardinalityType
    <3> QED
      BY <3>1, <3>2, CodeAssumption
  <2>7. Cardinality(SentIn(coded.start)') <= coded.count
    <3>1. coded.start \in Nat /\ SentIn(coded.start)' \subseteq SentIn(coded.start)
      <4>1. SentIn(coded.start)' \subseteq SentIn(coded.start)
        BY <1>2, <2>5 DEF SentIn
      <4> QED
        BY <1>2, <4>1, CodesTypes
    <3>2. /\ IsFiniteSet(SentIn(coded.start)) /\ Cardinality(SentIn(coded.start)) <= coded.count
      BY <2>1, <3>1 DEF MailsCalm
    <3>3. /\ IsFiniteSet(SentIn(coded.start)')
          /\ Cardinality(SentIn(coded.start)') <= Cardinality(SentIn(coded.start))
      BY <3>1, <3>2, FS_Subset
    <3>4. Cardinality(SentIn(coded.start)') \in Nat /\ Cardinality(SentIn(coded.start)) \in Nat
      BY <3>2, <3>3, FS_CardinalityType
    <3> QED
      BY <1>3, <3>2, <3>3, <3>4
  <2>8. ASSUME NEW s, WindowOver(s) PROVE WindowOver(s)'
    BY <1>2, <2>2, <2>8 DEF WindowOver
  <2>9. WindowOver(row.start)
    BY <1>2, <2>1 DEF MailsCalm, InMail
  <2>10. (\A m \in mailed : WindowOver(m.start))'
    BY <1>5, <2>1, <2>8, <2>9 DEF MailsCalm
  <2>11. (\A q \in Pages : InMail(q) => WindowOver(page[q].put.start))'
    BY <2>1, <2>4, <2>8 DEF MailsCalm
  <2>12. MailsCalm'
    BY <1>2, <2>6, <2>7, <2>10, <2>11 DEF MailsCalm
  <2> QED
    BY <2>3, <2>12
<1> QED
  BY <1>8, <1>9, <1>10, <1>11, <1>12, <1>14 DEF EmailCodeInv

(* A send that failed is uncounted; in turn, it is the one the row has counted last. *)
LEMMA UndoSendKeeps ==
  ASSUME EmailCodeInv, NEW p \in Pages, UndoSend(p)
  PROVE  EmailCodeInv'
<1> DEFINE row == page[p].put
<1>1. /\ CodesTyped /\ PagesFit /\ CodesApart /\ CodesPast /\ page[p].step = "undo"
      /\ coded' = [Uncoded(coded) EXCEPT !.sent = 0, !.count = row.count - 1]
      /\ page' = [page EXCEPT ![p] = NoCall]
      /\ UNCHANGED <<clock, proofs, mailed, guesses, applied, calls>>
      /\ calm' = (calm /\ coded = row)
  BY DEF EmailCodeInv, UndoSend, On, Returns
<1>2. /\ coded \in CodeState /\ clock \in Nat /\ calls \in Nat /\ calm \in BOOLEAN
      /\ page \in [Pages -> PageType] /\ row.count \in Nat
  BY <1>1, CodesTypes
<1>3. row.count # 0 /\ row.count - 1 \in Nat /\ \A m \in mailed : m.code = row.code => m.failed
  BY <1>1, <1>2 DEF PagesFit, PageFits
<1>4. /\ coded' \in CodeState /\ coded'.code = 0
      /\ coded'.start = coded.start /\ coded'.count = row.count - 1
  <2> DEFINE u == Uncoded(coded)
  <2>1. u \in CodeState /\ u.code = 0 /\ u.start = coded.start
    BY <1>2, CodeGone
  <2>2. coded' = [u EXCEPT !.sent = 0, !.count = row.count - 1]
    BY <1>1
  <2> HIDE DEF u
  <2> QED
    BY <1>3, <2>1, <2>2 DEF CodeState
<1>5. NoCall \in PageType /\ NoCall.step = "none" /\ PageFits(NoCall, mailed', calls', clock')
      /\ calls' \in Nat /\ calls <= calls'
  BY <1>1, <1>2, NoCallType
<1>6. page' \in [Pages -> PageType] /\ PagesFit'
  BY <1>1, <1>5, OnePageMoves
<1>7. CodesTyped'
  BY <1>1, <1>2, <1>4, <1>6 DEF CodesTyped, EmailCodeTypeOK, PageType
<1>8. CodesApart'
  BY <1>1, <1>5, ApartGoesOn
<1>9. CodesPast'
  BY <1>1, <1>2, <1>4 DEF CodesPast
<1>10. ApplicantProved' /\ CodeProvesOnce' /\ GuessesBounded'
  BY <1>1, <1>2 DEF EmailCodeInv, ApplicantProved, CodeProvesOnce, GuessesBounded
<1>11. \A q \in Pages : page'[q] = IF q = p THEN NoCall ELSE page[q]
  BY <1>1, <1>2, <1>5
<1>12. ASSUME calm' PROVE CodesCalm' /\ MailsCalm'
  <2>1. CodesCalm /\ MailsCalm /\ coded = row
    BY <1>1, <1>2, <1>12 DEF EmailCodeInv
  <2>2. \A q \in Pages : On(q, "send")' =>
          On(q, "send") /\ page'[q] = page[q] /\ page[q].put.code # 0
    BY <1>1, <1>5, <1>11 DEF On, PagesFit, PageFits
  <2>3. CodesCalm'
    BY <1>1, <1>4, <2>1, <2>2 DEF CodesCalm
  <2>4. \A q \in Pages : InMail(q)' => /\ InMail(q) /\ q # p /\ page'[q].put = page[q].put
                                       /\ MailOf(q)' = MailOf(q)
    BY <1>1, <1>5, <1>11 DEF InMail, MailOf
  <2>5. ASSUME NEW s PROVE SentIn(s)' \subseteq SentIn(s) \ {MailOf(p)}
    <3>1. SUFFICES ASSUME NEW m \in SentIn(s)' PROVE m \in SentIn(s) /\ m # MailOf(p)
      OBVIOUS
    <3>2. CASE \E q \in Pages : InMail(q)' /\ page'[q].put.start = s /\ m = MailOf(q)'
      <4>1. PICK q \in Pages : InMail(q) /\ q # p /\ page[q].put.start = s /\ m = MailOf(q)
        BY <2>4, <3>2
      <4>2. page[q].put.code # row.code
        BY <1>1, <4>1 DEF CodesApart, InSend, InMail
      <4> QED
        BY <4>1, <4>2 DEF SentIn, MailOf
    <3>3. CASE m \in mailed /\ m.start = s /\ ~m.failed
      BY <1>3, <3>3 DEF SentIn, MailOf
    <3> QED
      BY <1>1, <3>1, <3>2, <3>3 DEF SentIn
  <2>6. ASSUME NEW s \in Nat
        PROVE  IsFiniteSet(SentIn(s)') /\ Cardinality(SentIn(s)') <= MaxSends
    <3>1. /\ IsFiniteSet(SentIn(s)') /\ Cardinality(SentIn(s)') <= Cardinality(SentIn(s))
          /\ Cardinality(SentIn(s)) <= MaxSends /\ IsFiniteSet(SentIn(s))
      BY <2>1, <2>5, FS_Subset DEF MailsCalm
    <3>2. Cardinality(SentIn(s)') \in Nat /\ Cardinality(SentIn(s)) \in Nat
      BY <3>1, FS_CardinalityType
    <3> QED
      BY <3>1, <3>2, CodeAssumption
  <2>7. Cardinality(SentIn(coded.start)') <= coded'.count
    <3> DEFINE S == SentIn(coded.start)
               m == MailOf(p)
    <3>1. coded.start \in Nat /\ coded.count \in Nat
      BY <1>1, CodesTypes
    <3>2. IsFiniteSet(S) /\ Cardinality(S) <= coded.count /\ m \in S
      <4>1. m \in S
        BY <1>1, <2>1 DEF SentIn, InMail
      <4> QED
        BY <2>1, <3>1, <4>1 DEF MailsCalm
    <3>3. SentIn(coded.start)' \subseteq S \ {m}
      <4>1. coded'.start = coded.start
        BY <1>4
      <4> QED
        BY <2>5, <4>1 DEF SentIn
    <3>4. IsFiniteSet(S \ {m}) /\ Cardinality(S \ {m}) = Cardinality(S) - 1
      BY <3>2, FS_RemoveElement
    <3>5. Cardinality(SentIn(coded.start)') <= Cardinality(S \ {m}) /\ IsFiniteSet(SentIn(coded.start)')
      BY <3>3, <3>4, FS_Subset
    <3>6. Cardinality(SentIn(coded.start)') \in Nat /\ Cardinality(S) \in Nat
      BY <3>2, <3>5, FS_CardinalityType
    <3> QED
      BY <1>4, <2>1, <3>1, <3>2, <3>4, <3>5, <3>6
  <2>8. ASSUME NEW s, WindowOver(s) PROVE WindowOver(s)'
    BY <1>1, <1>4, <2>2, <2>8 DEF WindowOver
  <2>9. (\A m \in mailed : WindowOver(m.start))'
    BY <1>1, <2>1, <2>8 DEF MailsCalm
  <2>10. (\A q \in Pages : InMail(q) => WindowOver(page[q].put.start))'
    BY <2>1, <2>4, <2>8 DEF MailsCalm
  <2> QED
    BY <2>3, <2>6, <2>7, <2>9, <2>10 DEF MailsCalm
<1> QED
  BY <1>6, <1>7, <1>8, <1>9, <1>10, <1>12 DEF EmailCodeInv

(* Nothing that counts codes changes, and the row is the same or a blank one whose window
   is over. *)
LEMMA ApplyOnlineKeeps ==
  ASSUME EmailCodeInv, ApplyOnline
  PROVE  EmailCodeInv'
<1>1. UNCHANGED <<coded, clock, page, proofs, mailed, guesses, calls, calm>>
  BY DEF ApplyOnline
<1>2. ApplicantProved'
  <2>1. PICK required \in BOOLEAN : AssertVerified(required)
    BY DEF ApplyOnline
  <2>2. CASE applied' = applied
    BY <1>1, <2>2 DEF EmailCodeInv, ApplicantProved
  <2>3. CASE applied' # applied
    <3>1. PICK i \in DOMAIN proofs : /\ proofs[i].until > clock
                                     /\ applied' = applied \cup {[at |-> clock, code |-> proofs[i].code]}
      BY <2>1, <2>3 DEF AssertVerified, Reading
    <3>2. \E m \in mailed : m.code = proofs[i].code
      BY DEF EmailCodeInv, CodesPast
    <3>3. clock < proofs[i].until
      <4>1. proofs[i] \in Proof /\ clock \in Nat
        BY CodesTypes DEF EmailCodeInv, CodesTyped
      <4> QED
        BY <3>1, <4>1 DEF Proof
    <3> QED
      BY <1>1, <3>1, <3>2, <3>3 DEF EmailCodeInv, ApplicantProved
  <2> QED
    BY <2>2, <2>3
<1>3. CodesTyped' /\ PagesFit' /\ CodesApart' /\ CodesPast' /\ CodeProvesOnce' /\ GuessesBounded'
  BY <1>1 DEF EmailCodeInv, CodesTyped, EmailCodeTypeOK, PagesFit, CodesApart, CodesPast, InSend,
              CodeProvesOnce, GuessesBounded
<1>4. calm' => CodesCalm' /\ MailsCalm'
  BY <1>1 DEF EmailCodeInv, CodesCalm, MailsCalm, WindowOver, SentIn, InMail, MailOf, On
<1> QED
  BY <1>2, <1>3, <1>4 DEF EmailCodeInv

(* Time passes, and windows that are over stay over. *)
LEMMA TimePassesKeeps ==
  ASSUME EmailCodeInv, TimePasses
  PROVE  EmailCodeInv'
<1>1. /\ clock < MaxClock /\ clock' = clock + 1
      /\ UNCHANGED <<coded, page, proofs, mailed, guesses, applied, calls, calm>>
      /\ CodesTyped
  BY DEF EmailCodeInv, TimePasses
<1>2. clock \in Nat /\ clock' \in 0..MaxClock /\ coded.start \in Nat
  BY <1>1, CodesTypes, CodeAssumption
<1>3. CodesTyped'
  BY <1>1, <1>2 DEF CodesTyped, EmailCodeTypeOK
<1>4. PagesFit'
  <2>1. SUFFICES ASSUME NEW p \in Pages
                 PROVE  PageFits(page[p], mailed, calls, clock')
    BY <1>1 DEF PagesFit
  <2>2. PageFits(page[p], mailed, calls, clock) /\ page[p].at \in Nat /\ page[p].put.start \in Nat
    BY <1>1, CodesTypes DEF EmailCodeInv, PagesFit
  <2>3. page[p].at <= clock' /\ (page[p].put.start <= clock + 1 => page[p].put.start <= clock' + 1)
    BY <1>1, <1>2, <2>2 DEF PageFits
  <2> QED
    BY <1>1, <2>2, <2>3 DEF PageFits
<1>5. CodesApart' /\ ApplicantProved' /\ CodeProvesOnce' /\ GuessesBounded'
  BY <1>1 DEF EmailCodeInv, CodesApart, InSend, ApplicantProved, CodeProvesOnce, GuessesBounded
<1>6. CodesPast'
  BY <1>1, <1>2 DEF EmailCodeInv, CodesPast
<1>7. calm' => CodesCalm' /\ MailsCalm'
  <2>1. \A s \in Nat : WindowOver(s) => WindowOver(s)'
    BY <1>1, <1>2 DEF WindowOver, On
  <2>2. (\A m \in mailed : m.start \in Nat) /\ \A q \in Pages : page[q].put.start \in Nat
    BY <1>1, CodesTypes DEF CodesTyped, Mail
  <2>3. \A s : SentIn(s)' = SentIn(s)
    BY <1>1 DEF SentIn, InMail, MailOf
  <2>4. SentIn(coded.start)' = SentIn(coded.start)
    BY <1>1 DEF SentIn, InMail, MailOf
  <2>5. calm => (\A m \in mailed : WindowOver(m.start))'
                /\ (\A q \in Pages : InMail(q) => WindowOver(page[q].put.start))'
    BY <1>1, <2>1, <2>2 DEF EmailCodeInv, MailsCalm, InMail
  <2>6. calm => MailsCalm'
    BY <1>1, <2>3, <2>4, <2>5 DEF EmailCodeInv, MailsCalm
  <2>7. calm => CodesCalm'
    BY <1>1 DEF EmailCodeInv, CodesCalm, On
  <2> QED
    BY <1>1, <2>6, <2>7
<1> QED
  BY <1>3, <1>4, <1>5, <1>6, <1>7 DEF EmailCodeInv

(* A row nobody uses is removed: the windows it has counted are over. *)
LEMMA PurgeStaleKeeps ==
  ASSUME EmailCodeInv, PurgeStale
  PROVE  EmailCodeInv'
<1>1. /\ coded' = NoCode /\ (\A p \in Pages : page[p].step = "none") /\ ~InWindow(coded)
      /\ UNCHANGED <<clock, page, proofs, mailed, guesses, applied, calls, calm>>
      /\ CodesTyped
  BY DEF EmailCodeInv, PurgeStale, On
<1>2. /\ clock \in Nat /\ coded.start \in Nat /\ calls \in Nat
      /\ NoCode.code = 0 /\ NoCode.start = 0 /\ NoCode.count = 0 /\ NoCode \in CodeState
  BY <1>1, CodesTypes, NoCallType DEF NoCode
<1>3. coded.start <= clock
  <2>1. coded.start <= clock + 1
    BY DEF EmailCodeInv, CodesPast
  <2> QED
    BY <1>1, <1>2, <2>1, CodeAssumption DEF InWindow
<1>4. CodesTyped' /\ PagesFit' /\ CodesApart' /\ ApplicantProved' /\ CodeProvesOnce' /\ GuessesBounded'
  BY <1>1, <1>2 DEF EmailCodeInv, CodesTyped, EmailCodeTypeOK, PagesFit, CodesApart, InSend,
              ApplicantProved, CodeProvesOnce, GuessesBounded
<1>5. CodesPast'
  BY <1>1, <1>2 DEF EmailCodeInv, CodesPast
<1>6. ASSUME calm' PROVE CodesCalm' /\ MailsCalm'
  <2>1. MailsCalm
    BY <1>1, <1>6 DEF EmailCodeInv
  <2>2. CodesCalm'
    BY <1>1, <1>2 DEF CodesCalm, On
  <2>3. \A s : SentIn(s)' = SentIn(s)
    BY <1>1 DEF SentIn, InMail, MailOf
  <2>4. \A m \in mailed : m.start <= clock /\ m.start # 0 /\ m.start \in Nat
    <3>1. \A m \in mailed : WindowOver(m.start) /\ m.start \in Nat /\ m.start # 0
      BY <1>1, <2>1 DEF MailsCalm, CodesTyped, Mail, EmailCodeInv, CodesPast
    <3> QED
      BY <1>2, <1>3, <3>1 DEF WindowOver
  <2>5. (\A m \in mailed : WindowOver(m.start))'
    BY <1>1, <2>4 DEF WindowOver, On
  <2>6. (\A q \in Pages : InMail(q) => WindowOver(page[q].put.start))'
    BY <1>1 DEF InMail
  <2>7. SentIn(coded.start)' = {}
    BY <1>1, <1>2, <2>4 DEF SentIn, InMail
  <2>8. Cardinality(SentIn(coded.start)') <= coded'.count
    BY <1>1, <1>2, <2>7, FS_EmptySet
  <2> QED
    BY <2>1, <2>2, <2>3, <2>5, <2>6, <2>8 DEF MailsCalm
<1> QED
  BY <1>4, <1>5, <1>6 DEF EmailCodeInv

LEMMA EmailCodeInitKeeps == EmailCodeInit => EmailCodeInv
<1> SUFFICES ASSUME EmailCodeInit PROVE EmailCodeInv
  OBVIOUS
<1>1. /\ coded = NoCode /\ clock = 0 /\ page = [p \in Pages |-> NoCall] /\ proofs = <<>>
      /\ mailed = {} /\ guesses = [c \in 1..MaxCalls |-> 0] /\ applied = {} /\ calls = 0
      /\ calm = TRUE
  BY DEF EmailCodeInit
<1>2. \A p \in Pages : page[p] = NoCall
  BY <1>1
<1>3. NoCode.code = 0 /\ NoCode.start = 0 /\ NoCode.count = 0
  BY DEF NoCode
<1>4. CodesTyped
  BY <1>1, NoCallType, CodeAssumption DEF CodesTyped, EmailCodeTypeOK, PageType
<1>5. PagesFit /\ CodesApart
  BY <1>1, <1>2, NoCallType DEF PagesFit, CodesApart, InSend
<1>6. CodesPast /\ ApplicantProved /\ CodeProvesOnce
  BY <1>1, <1>3 DEF CodesPast, ApplicantProved, CodeProvesOnce
<1>7. GuessesBounded
  BY <1>1, CodeAssumption DEF GuessesBounded
<1>8. CodesCalm
  BY <1>1, <1>2, <1>3, NoCallType DEF CodesCalm, On
<1>9. \A s : SentIn(s) = {}
  BY <1>1, <1>2, NoCallType DEF SentIn, InMail
<1>10. MailsCalm
  <2>1. IsFiniteSet({}) /\ Cardinality({}) = 0 /\ 0 <= MaxSends
    BY FS_EmptySet, CodeAssumption
  <2>2. \A s \in Nat : IsFiniteSet(SentIn(s)) /\ Cardinality(SentIn(s)) <= MaxSends
    BY <1>9, <2>1
  <2>3. Cardinality(SentIn(coded.start)) <= coded.count
    <3>1. SentIn(coded.start) = {} /\ coded.count = 0
      BY <1>1, <1>3, <1>9
    <3> QED
      BY <2>1, <3>1
  <2>4. \A q \in Pages : ~InMail(q)
    BY <1>2, NoCallType DEF InMail
  <2> QED
    BY <1>1, <2>2, <2>3, <2>4 DEF MailsCalm
<1> QED
  BY <1>4, <1>5, <1>6, <1>7, <1>8, <1>10 DEF EmailCodeInv

LEMMA EmailCodeStep ==
  ASSUME EmailCodeInv, [EmailCodeNext]_evars
  PROVE  EmailCodeInv'
<1>1. CASE UNCHANGED evars
  <2>1. UNCHANGED <<coded, clock, page, proofs, mailed, guesses, applied, calls, calm>>
    BY <1>1 DEF evars
  <2>2. CodesTyped' /\ PagesFit' /\ CodesApart' /\ CodesPast'
    BY <2>1 DEF EmailCodeInv, CodesTyped, EmailCodeTypeOK, PagesFit, CodesApart, CodesPast, InSend
  <2>3. ApplicantProved' /\ CodeProvesOnce' /\ GuessesBounded'
    BY <2>1 DEF EmailCodeInv, ApplicantProved, CodeProvesOnce, GuessesBounded
  <2>4. CodesCalm' = CodesCalm
    BY <2>1 DEF CodesCalm, On
  <2>5. MailsCalm' = MailsCalm
    BY <2>1 DEF MailsCalm, WindowOver, SentIn, InMail, MailOf, On
  <2> QED
    BY <2>1, <2>2, <2>3, <2>4, <2>5 DEF EmailCodeInv
<1>2. CASE EmailCodeNext
  BY <1>2, ApplyOnlineKeeps, PurgeStaleKeeps, TimePassesKeeps, SendCodeKeeps, StoreCodeKeeps,
     MailCodeKeeps, UndoSendKeeps, VerifyKeeps, CountGuessKeeps, CancelGuessedKeeps,
     AcceptCodeKeeps DEF EmailCodeNext
<1> QED
  BY <1>1, <1>2

(* The codes that arrived in a window are among those the row has counted. *)
LEMMA MailsCounted ==
  ASSUME EmailCodeInv
  PROVE  MailsBounded
<1>1. SUFFICES ASSUME calm, NEW m \in mailed
               PROVE  Cardinality({n \in mailed : n.start = m.start /\ ~n.failed}) <= MaxSends
  BY DEF MailsBounded
<1> DEFINE S == {n \in mailed : n.start = m.start /\ ~n.failed}
<1>2. m.start \in Nat
  BY DEF EmailCodeInv, CodesTyped, Mail
<1>3. S \subseteq SentIn(m.start)
  BY DEF SentIn
<1>4. IsFiniteSet(SentIn(m.start)) /\ Cardinality(SentIn(m.start)) <= MaxSends
  BY <1>1, <1>2 DEF EmailCodeInv, MailsCalm
<1>5. IsFiniteSet(S) /\ Cardinality(S) <= Cardinality(SentIn(m.start))
  BY <1>3, <1>4, FS_Subset
<1>6. Cardinality(S) \in Nat /\ Cardinality(SentIn(m.start)) \in Nat
  BY <1>4, <1>5, FS_CardinalityType
<1> QED
  BY <1>4, <1>5, <1>6, CodeAssumption

(* However many requests come between: nobody applies on an unproved address; and as long
   as every write landed in turn a code proves an address once, takes no more wrong guesses
   than cancel it, and no more codes of a window arrive than the limit (apply-email.service). *)
THEOREM CodesTheorem == EmailCodeSpec => []CodesHold
<1>1. EmailCodeInv => CodesHold
  BY MailsCounted DEF EmailCodeInv, CodesHold
<1> QED
  BY <1>1, EmailCodeInitKeeps, EmailCodeStep, PTL DEF EmailCodeSpec

-----------------------------------------------------------------------------
(* The CVs sent in for a referring employee, and the letters that thank *)

(* Letters are claimed at the head of the queue, once, and not sent yet. *)
QueueInOrder ==
  \A k \in DOMAIN cvReadQueue :
    /\ cvReadQueue[k].referral \in DOMAIN referrals
    /\ cvReadQueue[k].kind = "letters" =>
         /\ k = 1
         /\ referrals[cvReadQueue[k].referral].notified
         /\ referrals[cvReadQueue[k].referral].thanks = 0

ThanksOnce ==
  \A n \in DOMAIN referrals :
    referrals[n].thanks <= 1 /\ (~referrals[n].notified => referrals[n].thanks = 0)

(* A request that is at it has a referral, which a batch has made hurry once one is in. *)
Placed ==
  \A s \in Senders :
    /\ sending[s].step \in {"make", "add"} => sending[s].left > 0
    /\ sending[s].step = "make" => ~sending[s].created
    /\ sending[s].step \in {"add", "finish"} =>
         /\ sending[s].referral \in DOMAIN referrals
         /\ sending[s].created => referrals[sending[s].referral].hurried

AtWork(s, n) == sending[s].step \in {"add", "finish"} /\ sending[s].referral = n

Alone(s) == sending[s].step = "add" /\ sending[s].alone

(* One sent in alone to a referral there was has somebody young enough in it, *)
(* and one that made its referral has it to itself.                           *)
Young(s) ==
  Alone(s) /\ ~sending[s].isNew =>
    \E c \in Of(sending[s].referral) :
      referred[c].age <= IF sending[s].ticked THEN JoinFor ELSE JoinFor - 1

ToItself(s) ==
  Alone(s) /\ sending[s].isNew =>
    Of(sending[s].referral) = {} /\ \A t \in Senders \ {s} : ~AtWork(t, sending[s].referral)

(* A referral whose letters are asked for or claimed has gone quiet, unless it hurried. *)
Asked(n) == \E k \in DOMAIN cvReadQueue : cvReadQueue[k] = Notice(n)

GoneQuiet(n) ==
  ~referrals[n].hurried /\ (referrals[n].notified \/ Asked(n)) =>
    Of(n) # {} /\ \A c \in Of(n) : referred[c].age >= QuietFor

LateHurried ==
  \A c \in DOMAIN referred :
    referred[c].joined /\ referred[c].late => referrals[referred[c].referral].hurried

Referring == \A c \in DOMAIN referred : referred[c].referral \in DOMAIN referrals

LettersInv ==
  /\ ReferralsTypeOK /\ Referring /\ QueueInOrder /\ ThanksOnce /\ Placed
  /\ \A s \in Senders : Young(s) /\ ToItself(s)
  /\ \A n \in DOMAIN referrals : GoneQuiet(n)
  /\ LateHurried

-----------------------------------------------------------------------------

LEMMA Windows ==
  /\ JoinFor \in Nat /\ QuietFor \in Nat /\ JoinFor < QuietFor /\ BatchSize \in Nat
  /\ 1 \in 0..BatchSize /\ BatchSize \in 0..BatchSize /\ BatchSize > 0
  /\ MaxReferred \in Nat /\ MaxReferrals \in Nat /\ MaxQueue \in Nat
BY WindowAssumption

LEMMA NotSendingType ==
  /\ NotSending \in Sending /\ NotSending.step = "none" /\ NotSending.alone
  /\ ~NotSending.ticked /\ ~NotSending.created /\ ~NotSending.isNew
BY Windows DEF NotSending, Sending

(* What Append, Tail and an assignment do, element by element. *)
LEMMA RowsMore ==
  ASSUME NEW S, NEW q \in Seq(S), NEW e \in S, NEW p, p = Append(q, e)
  PROVE  /\ p \in Seq(S) /\ Len(p) = Len(q) + 1 /\ Len(q) \in Nat
         /\ Len(q) + 1 \notin DOMAIN q /\ DOMAIN p = DOMAIN q \cup {Len(q) + 1}
         /\ p[Len(q) + 1] = e /\ \A k \in DOMAIN q : p[k] = q[k]
<1>1. p \in Seq(S) /\ Len(p) = Len(q) + 1 /\ p[Len(q) + 1] = e
      /\ \A k \in 1..Len(q) : p[k] = q[k]
  BY AppendProperties
<1>2. Len(q) \in Nat /\ DOMAIN q = 1..Len(q) /\ DOMAIN p = 1..Len(q) + 1
  BY <1>1, LenProperties
<1> QED
  BY <1>1, <1>2

LEMMA RowsLess ==
  ASSUME NEW S, NEW q \in Seq(S), q # <<>>, NEW p, p = Tail(q)
  PROVE  /\ p \in Seq(S) /\ 1 \in DOMAIN q /\ Head(q) = q[1] /\ q[1] \in S
         /\ \A k \in DOMAIN p : k \in Nat /\ k > 0 /\ k + 1 \in DOMAIN q /\ p[k] = q[k + 1]
<1>1. Head(q) \in S /\ Tail(q) \in Seq(S) /\ Len(Tail(q)) = Len(q) - 1
      /\ \A k \in 1..Len(Tail(q)) : Tail(q)[k] = q[k + 1]
  BY HeadTailProperties
<1>2. Len(q) \in Nat /\ Len(q) > 0 /\ DOMAIN q = 1..Len(q) /\ DOMAIN p = 1..Len(p)
  BY <1>1, LenProperties, EmptySeq
<1>3. Head(q) = q[1] /\ q[1] \in S
  BY <1>2, ElementOfSeq
<1> QED
  BY <1>1, <1>2, <1>3

LEMMA RowsPut ==
  ASSUME NEW S, NEW q \in Seq(S), NEW n \in DOMAIN q, NEW e \in S, NEW p, p = [q EXCEPT ![n] = e]
  PROVE  /\ p \in Seq(S) /\ Len(p) = Len(q) /\ DOMAIN p = DOMAIN q
         /\ p[n] = e /\ \A k \in DOMAIN q \ {n} : p[k] = q[k]
<1>1. n \in 1..Len(q)
  BY LenProperties
<1>2. p \in Seq(S) /\ Len(p) = Len(q)
  BY <1>1, ExceptSeq
<1> QED
  BY <1>1, <1>2, LenProperties

LEMMA RowsAre ==
  ASSUME NEW S, NEW q \in Seq(S)
  PROVE  Len(q) \in Nat /\ DOMAIN q = 1..Len(q) /\ \A k \in DOMAIN q : q[k] \in S
BY LenProperties, ElementOfSeq

(* What each step does, field by field. *)
LEMMA FindFacts ==
  ASSUME ReferralsTypeOK, NEW s \in Senders, SendOne(s) \/ SendMany(s)
  PROVE  /\ UNCHANGED <<referrals, referred, cvReadQueue>> /\ sending[s].step = "none"
         /\ sending' \in [Senders -> Sending] /\ \A t \in Senders \ {s} : sending'[t] = sending[t]
         /\ ~sending'[s].created /\ ~sending'[s].ticked /\ ~sending'[s].isNew /\ sending'[s].left > 0
         /\ \/ sending'[s].step = "make"
            \/ /\ sending'[s].step = "add" /\ sending'[s].referral \in DOMAIN referrals
               /\ Joinable(sending'[s].referral)
<1>t. sending \in [Senders -> Sending] /\ referrals \in Seq(Referral) /\ Len(referrals) <= MaxReferrals
  BY DEF ReferralsTypeOK
<1>d. Len(referrals) \in Nat /\ DOMAIN referrals = 1..Len(referrals)
  BY <1>t, RowsAre
<1>a. ASSUME NEW request, FindReferral(s, request),
             request = [NotSending EXCEPT !.left = 1]
               \/ request = [NotSending EXCEPT !.alone = FALSE, !.left = BatchSize]
      PROVE  /\ UNCHANGED <<referrals, referred, cvReadQueue>> /\ sending[s].step = "none"
             /\ sending' \in [Senders -> Sending] /\ \A t \in Senders \ {s} : sending'[t] = sending[t]
             /\ ~sending'[s].created /\ ~sending'[s].ticked /\ ~sending'[s].isNew /\ sending'[s].left > 0
             /\ \/ sending'[s].step = "make"
                \/ /\ sending'[s].step = "add" /\ sending'[s].referral \in DOMAIN referrals
                   /\ Joinable(sending'[s].referral)
  <2>1. request \in Sending /\ request.left > 0
        /\ ~request.isNew /\ ~request.created /\ ~request.ticked
    <3> USE NotSendingType
    <3>1. CASE request = [NotSending EXCEPT !.left = 1]
      BY <3>1, Windows DEF Sending
    <3>2. CASE request = [NotSending EXCEPT !.alone = FALSE, !.left = BatchSize]
      BY <3>2, Windows DEF Sending
    <3> QED
      BY <1>a, <3>1, <3>2
  <2>2. /\ UNCHANGED <<referrals, referred, cvReadQueue>> /\ sending[s].step = "none"
    BY <1>a DEF FindReferral
  <2>3. \/ sending' = [sending EXCEPT ![s] = [request EXCEPT !.step = "make"]]
        \/ \E n \in {m \in DOMAIN referrals : Joinable(m)} :
             sending' = [sending EXCEPT ![s] = [request EXCEPT !.step = "add", !.referral = n]]
    BY <1>a DEF FindReferral
  <2>5. CASE sending' = [sending EXCEPT ![s] = [request EXCEPT !.step = "make"]]
    <3> DEFINE u == [request EXCEPT !.step = "make"]
    <3>1. /\ u \in Sending /\ u.step = "make" /\ u.left > 0
          /\ ~u.isNew /\ ~u.created /\ ~u.ticked
      BY <2>1 DEF Sending
    <3>2. sending' = [sending EXCEPT ![s] = u]
      BY <2>5
    <3> HIDE DEF u
    <3> QED
      BY <1>t, <2>2, <3>1, <3>2
  <2>6. ASSUME NEW n \in DOMAIN referrals, Joinable(n),
               sending' = [sending EXCEPT ![s] = [request EXCEPT !.step = "add", !.referral = n]]
        PROVE  /\ sending' \in [Senders -> Sending] /\ \A t \in Senders \ {s} : sending'[t] = sending[t]
               /\ ~sending'[s].created /\ ~sending'[s].ticked /\ ~sending'[s].isNew
               /\ sending'[s].left > 0
               /\ sending'[s].step = "add" /\ sending'[s].referral = n
    <3> DEFINE u == [request EXCEPT !.step = "add", !.referral = n]
    <3>1. n \in 0..MaxReferrals
      BY <1>t, <1>d, Windows
    <3>2. /\ u \in Sending /\ u.step = "add" /\ u.left > 0 /\ u.referral = n
          /\ ~u.isNew /\ ~u.created /\ ~u.ticked
      BY <2>1, <3>1 DEF Sending
    <3>3. sending' = [sending EXCEPT ![s] = u]
      BY <2>6
    <3> HIDE DEF u
    <3> QED
      BY <1>t, <3>2, <3>3
  <2> QED
    BY <2>2, <2>3, <2>5, <2>6
<1> QED
  BY <1>a DEF SendOne, SendMany

LEMMA MakeFacts ==
  ASSUME ReferralsTypeOK, NEW s \in Senders, MakeReferral(s)
  PROVE  LET n == Len(referrals) + 1 IN
         /\ UNCHANGED <<referred, cvReadQueue>> /\ sending[s].step = "make"
         /\ referrals' \in Seq(Referral) /\ Len(referrals') <= MaxReferrals
         /\ n \notin DOMAIN referrals /\ DOMAIN referrals' = DOMAIN referrals \cup {n}
         /\ n \in 1..MaxReferrals
         /\ ~referrals'[n].notified /\ referrals'[n].thanks = 0
         /\ \A m \in DOMAIN referrals : referrals'[m] = referrals[m]
         /\ sending' \in [Senders -> Sending] /\ \A t \in Senders \ {s} : sending'[t] = sending[t]
         /\ sending'[s].step = "add" /\ sending'[s].isNew /\ sending'[s].referral = n
         /\ (sending'[s].alone <=> sending[s].alone) /\ sending'[s].left = sending[s].left
         /\ (sending'[s].created <=> sending[s].created)
<1>t. /\ sending \in [Senders -> Sending] /\ sending[s] \in Sending
      /\ referrals \in Seq(Referral) /\ Len(referrals) < MaxReferrals
  BY DEF ReferralsTypeOK, MakeReferral
<1> DEFINE n == Len(referrals) + 1
           r == [notified |-> FALSE, dropped |-> FALSE, hurried |-> FALSE, thanks |-> 0]
           u == [sending[s] EXCEPT !.step = "add", !.isNew = TRUE, !.referral = n]
<1>1. r \in Referral /\ ~r.notified /\ r.thanks = 0 /\ referrals' = Append(referrals, r)
  BY DEF Referral, MakeReferral
<1>2. /\ referrals' \in Seq(Referral) /\ Len(referrals') = n /\ Len(referrals) \in Nat
      /\ n \notin DOMAIN referrals /\ DOMAIN referrals' = DOMAIN referrals \cup {n}
      /\ referrals'[n] = r /\ \A m \in DOMAIN referrals : referrals'[m] = referrals[m]
  <2> HIDE DEF r
  <2> QED
    BY <1>1, <1>t, RowsMore
<1>3. n \in 0..MaxReferrals /\ n \in 1..MaxReferrals /\ n <= MaxReferrals
  BY <1>t, <1>2, Windows
<1>4. sending' = [sending EXCEPT ![s] = u]
  <2>1. sending' = [sending EXCEPT ![s].step = "add", ![s].isNew = TRUE, ![s].referral = n]
    BY <1>2 DEF MakeReferral
  <2> HIDE DEF n
  <2> QED
    BY <1>t, <2>1 DEF Sending
<1> HIDE DEF n
<1>5. /\ u \in Sending /\ u.step = "add" /\ u.isNew /\ u.referral = n /\ (u.alone <=> sending[s].alone)
      /\ u.left = sending[s].left /\ (u.created <=> sending[s].created)
  BY <1>t, <1>3 DEF Sending
<1>6. UNCHANGED <<referred, cvReadQueue>> /\ sending[s].step = "make"
  BY DEF MakeReferral
<1> HIDE DEF u, r
<1>7. /\ sending' \in [Senders -> Sending] /\ \A t \in Senders \ {s} : sending'[t] = sending[t]
      /\ sending'[s] = u
  BY <1>t, <1>4, <1>5
<1> QED
  BY <1>1, <1>2, <1>3, <1>5, <1>6, <1>7 DEF n

LEMMA AfterFacts ==
  ASSUME ReferralsTypeOK, NEW s \in Senders, NEW created \in BOOLEAN, sending[s].step = "add",
         sending[s].left > 0, NEW u, u = After(s, created)
  PROVE  /\ u \in Sending
         /\ u.step # "make" /\ (u.step = "none" \/ ~u.alone)
         /\ sending[s].alone => u.step = "none"
         /\ u.step = "add" => u.left > 0
         /\ u.step \in {"add", "finish"} => u.referral = sending[s].referral
         /\ u.created /\ u.step \in {"add", "finish"} => sending[s].created \/ created
<1>1. sending[s] \in Sending
  BY DEF ReferralsTypeOK
<1>2. CASE sending[s].alone
  BY <1>2, NotSendingType DEF After
<1>3. CASE ~sending[s].alone
  <2> DEFINE w == [sending[s] EXCEPT !.left = @ - 1, !.created = @ \/ created]
  <2>1. sending[s].left - 1 \in 0..BatchSize
    BY <1>1, Windows DEF Sending
  <2>2. (sending[s].created \/ created) \in BOOLEAN
    OBVIOUS
  <2>3. /\ w \in Sending /\ w.step = "add" /\ w.left = sending[s].left - 1 /\ ~w.alone
        /\ w.referral = sending[s].referral /\ (w.created <=> sending[s].created \/ created)
    BY <1>1, <1>3, <2>1, <2>2 DEF Sending
  <2>4. u = IF w.left = 0 THEN [w EXCEPT !.step = "finish"] ELSE w
    BY <1>3 DEF After
  <2> HIDE DEF w
  <2>5. CASE w.left = 0
    BY ZenonT(60), <2>3, <2>4, <2>5, <1>3 DEF Sending
  <2>6. CASE w.left # 0
    <3>1. u = w
      BY <2>4, <2>6, Zenon
    <3>2. w.left \in 0..BatchSize
      BY <2>1, <2>3, Zenon
    <3>3. w.left > 0
      BY <2>6, <3>2, Windows
    <3> QED
      BY <2>3, <3>1, <3>3, <1>3, Zenon
  <2> QED
    BY <2>5, <2>6
<1> QED
  BY <1>2, <1>3

LEMMA AddFacts ==
  ASSUME ReferralsTypeOK, Placed, NEW s \in Senders, AddReferred(s)
  PROVE  LET n == sending[s].referral  c == Len(referred) + 1  k == Len(cvReadQueue) + 1 IN
         /\ sending[s].step = "add" /\ n \in DOMAIN referrals
         /\ referred' \in Seq(Referred) /\ Len(referred') <= MaxReferred
         /\ c \notin DOMAIN referred /\ DOMAIN referred' = DOMAIN referred \cup {c}
         /\ referred'[c].referral = n /\ referred'[c].age = 0
         /\ (referred'[c].joined <=> sending[s].alone /\ ~sending[s].isNew)
         /\ (referred'[c].late <=> referrals[n].notified)
         /\ \A m \in DOMAIN referred : referred'[m] = referred[m]
         /\ cvReadQueue' \in Seq(Errand)
         /\ k \notin DOMAIN cvReadQueue /\ DOMAIN cvReadQueue' = DOMAIN cvReadQueue \cup {k}
         /\ cvReadQueue'[k].kind = "read" /\ cvReadQueue'[k].referral = n
         /\ \A m \in DOMAIN cvReadQueue : cvReadQueue'[m] = cvReadQueue[m]
         /\ referrals' \in Seq(Referral) /\ Len(referrals') <= MaxReferrals
         /\ DOMAIN referrals' = DOMAIN referrals
         /\ \A m \in DOMAIN referrals \ {n} : referrals'[m] = referrals[m]
         /\ (referrals'[n].notified <=> referrals[n].notified)
         /\ referrals'[n].thanks = referrals[n].thanks
         /\ (referrals'[n].hurried <=> referrals[n].hurried \/ ~sending[s].alone)
         /\ sending' \in [Senders -> Sending] /\ \A t \in Senders \ {s} : sending'[t] = sending[t]
         /\ sending'[s].step # "make"
         /\ sending[s].alone => sending'[s].step = "none"
         /\ sending'[s].step = "none" \/ ~sending'[s].alone
         /\ sending'[s].step = "add" => sending'[s].left > 0
         /\ sending'[s].step \in {"add", "finish"} => sending'[s].referral = n
<1> DEFINE n == sending[s].referral
           c == Len(referred) + 1
           k == Len(cvReadQueue) + 1
           e == [referral |-> n, age |-> 0, removed |-> FALSE,
                 joined |-> sending[s].alone /\ ~sending[s].isNew, late |-> referrals[n].notified]
           d == [kind |-> "read", referral |-> n]
           r == [referrals[n] EXCEPT !.hurried = @ \/ ~sending[s].alone]
           u == After(s, TRUE)
<1>t. /\ sending \in [Senders -> Sending] /\ sending[s] \in Sending
      /\ referrals \in Seq(Referral) /\ Len(referrals) <= MaxReferrals
      /\ referred \in Seq(Referred) /\ Len(referred) < MaxReferred
      /\ cvReadQueue \in Seq(Errand) /\ sending[s].step = "add" /\ sending[s].left > 0
  BY DEF ReferralsTypeOK, AddReferred, Placed
<1>n. n \in DOMAIN referrals
  BY <1>t DEF Placed
<1>m. n \in 1..MaxReferrals /\ referrals[n] \in Referral
  BY <1>t, <1>n, RowsAre, Windows
<1>s. sending[s].alone \in BOOLEAN /\ sending[s].isNew \in BOOLEAN /\ referrals[n].notified \in BOOLEAN
      /\ referrals[n].hurried \in BOOLEAN
  BY <1>t, <1>m DEF Sending, Referral
<1>a. /\ referred' = Append(referred, e) /\ cvReadQueue' = Append(cvReadQueue, d)
      /\ sending' = [sending EXCEPT ![s] = u]
      /\ referrals' = [referrals EXCEPT ![n].hurried = @ \/ ~sending[s].alone]
  BY DEF AddReferred
<1>b. referrals' = [referrals EXCEPT ![n] = r]
  BY <1>a
<1>e. /\ e \in Referred /\ e.referral = n /\ e.age = 0 /\ (e.joined <=> sending[s].alone /\ ~sending[s].isNew)
      /\ (e.late <=> referrals[n].notified)
  <2>1. 0 \in 0..QuietFor
    BY Windows
  <2>2. (sending[s].alone /\ ~sending[s].isNew) \in BOOLEAN
    OBVIOUS
  <2> QED
    BY <1>m, <1>s, <2>1, <2>2 DEF Referred
<1>d. d \in Errand /\ d.kind = "read" /\ d.referral = n
  BY <1>m DEF Errand
<1>r. /\ r \in Referral /\ (r.notified <=> referrals[n].notified) /\ r.thanks = referrals[n].thanks
      /\ (r.hurried <=> referrals[n].hurried \/ ~sending[s].alone)
  <2>1. (referrals[n].hurried \/ ~sending[s].alone) \in BOOLEAN
    OBVIOUS
  <2> QED
    BY <1>m, <2>1 DEF Referral
<1>u. /\ u \in Sending /\ u.step # "make" /\ (u.step = "none" \/ ~u.alone)
      /\ sending[s].alone => u.step = "none"
      /\ u.step = "add" => u.left > 0
      /\ u.step \in {"add", "finish"} => u.referral = n
  BY <1>t, AfterFacts
<1> HIDE DEF e, d, r, u, n
<1>1. /\ referred' \in Seq(Referred) /\ Len(referred') = c /\ Len(referred) \in Nat
      /\ c \notin DOMAIN referred /\ DOMAIN referred' = DOMAIN referred \cup {c}
      /\ referred'[c] = e /\ \A m \in DOMAIN referred : referred'[m] = referred[m]
  BY <1>t, <1>a, <1>e, RowsMore
<1>2. /\ cvReadQueue' \in Seq(Errand)
      /\ k \notin DOMAIN cvReadQueue /\ DOMAIN cvReadQueue' = DOMAIN cvReadQueue \cup {k}
      /\ cvReadQueue'[k] = d /\ \A m \in DOMAIN cvReadQueue : cvReadQueue'[m] = cvReadQueue[m]
  BY <1>t, <1>a, <1>d, RowsMore
<1>3. /\ referrals' \in Seq(Referral) /\ Len(referrals') = Len(referrals)
      /\ DOMAIN referrals' = DOMAIN referrals /\ referrals'[n] = r
      /\ \A m \in DOMAIN referrals \ {n} : referrals'[m] = referrals[m]
  BY <1>t, <1>b, <1>n, <1>r, RowsPut
<1>4. /\ sending' \in [Senders -> Sending] /\ \A t \in Senders \ {s} : sending'[t] = sending[t]
      /\ sending'[s] = u
  BY <1>t, <1>a, <1>u
<1>5. Len(referred') <= MaxReferred
  BY <1>1, <1>t, Windows
<1> QED
  BY <1>t, <1>n, <1>e, <1>d, <1>r, <1>u, <1>1, <1>2, <1>3, <1>4, <1>5 DEF n

(* The rows are there still, and say the same of their letters. *)
RowsStand ==
  /\ referrals' \in Seq(Referral) /\ Len(referrals') <= MaxReferrals
  /\ DOMAIN referrals' = DOMAIN referrals
  /\ \A m \in DOMAIN referrals :
       /\ referrals'[m].notified <=> referrals[m].notified
       /\ referrals'[m].thanks = referrals[m].thanks
       /\ referrals[m].hurried => referrals'[m].hurried

LEMMA DroppedStands ==
  ASSUME ReferralsTypeOK, NEW n \in DOMAIN referrals, referrals' = Dropped(n) \/ referrals' = referrals
  PROVE  RowsStand
<1>t. /\ referrals \in Seq(Referral) /\ Len(referrals) <= MaxReferrals
      /\ referrals[n] \in Referral
  BY RowsAre DEF ReferralsTypeOK
<1>1. CASE referrals' = referrals
  BY <1>1, <1>t DEF RowsStand
<1>2. CASE referrals' = Dropped(n)
  <2> DEFINE r == [referrals[n] EXCEPT !.dropped = TRUE]
  <2>1. /\ r \in Referral /\ (r.notified <=> referrals[n].notified) /\ r.thanks = referrals[n].thanks
        /\ (r.hurried <=> referrals[n].hurried)
    BY <1>t DEF Referral
  <2>2. referrals' = [referrals EXCEPT ![n] = r]
    BY <1>2 DEF Dropped
  <2> HIDE DEF r
  <2>3. /\ referrals' \in Seq(Referral) /\ Len(referrals') = Len(referrals)
        /\ DOMAIN referrals' = DOMAIN referrals /\ referrals'[n] = r
        /\ \A m \in DOMAIN referrals \ {n} : referrals'[m] = referrals[m]
    BY <1>t, <2>1, <2>2, RowsPut
  <2> QED
    BY <1>t, <2>1, <2>3 DEF RowsStand
<1> QED
  BY <1>1, <1>2

LEMMA FailFacts ==
  ASSUME ReferralsTypeOK, Placed, NEW s \in Senders, CvFails(s)
  PROVE  /\ UNCHANGED <<referred, cvReadQueue>> /\ RowsStand
         /\ sending[s].step = "add" /\ ~sending[s].alone
         /\ sending' \in [Senders -> Sending] /\ \A t \in Senders \ {s} : sending'[t] = sending[t]
         /\ sending'[s].step # "make"
         /\ sending'[s].step = "none" \/ ~sending'[s].alone
         /\ sending'[s].step = "add" => sending'[s].left > 0
         /\ sending'[s].step \in {"add", "finish"} =>
              sending'[s].referral = sending[s].referral /\ (sending'[s].created => sending[s].created)
<1>t. /\ sending \in [Senders -> Sending] /\ sending[s] \in Sending
      /\ sending[s].step = "add" /\ ~sending[s].alone /\ sending[s].left > 0
      /\ UNCHANGED <<referred, cvReadQueue>> /\ sending[s].referral \in DOMAIN referrals
  BY DEF ReferralsTypeOK, CvFails, Placed
<1>1. CASE sending' = [sending EXCEPT ![s] = After(s, FALSE)] /\ UNCHANGED referrals
  <2> DEFINE u == After(s, FALSE)
  <2>1. /\ u \in Sending /\ u.step # "make" /\ (u.step = "none" \/ ~u.alone)
        /\ u.step = "add" => u.left > 0
        /\ u.step \in {"add", "finish"} => u.referral = sending[s].referral
        /\ u.created /\ u.step \in {"add", "finish"} => sending[s].created
    <3>1. FALSE \in BOOLEAN
      OBVIOUS
    <3> QED
      BY <1>t, <3>1, AfterFacts
  <2> HIDE DEF u
  <2>2. sending' = [sending EXCEPT ![s] = u]
    BY <1>1 DEF u
  <2>3. RowsStand
    BY <1>1, <1>t, DroppedStands
  <2>4. sending' \in [Senders -> Sending] /\ sending'[s] = u /\ \A t \in Senders \ {s} : sending'[t] = sending[t]
    BY <1>t, <2>1, <2>2
  <2> QED
    BY <1>t, <2>1, <2>3, <2>4
<1>2. CASE /\ sending' = [sending EXCEPT ![s] = NotSending]
           /\ referrals' = Dropped(sending[s].referral) \/ referrals' = referrals
  <2>1. RowsStand
    BY <1>2, <1>t, DroppedStands
  <2>2. /\ sending' \in [Senders -> Sending] /\ sending'[s] = NotSending
        /\ \A t \in Senders \ {s} : sending'[t] = sending[t]
    BY <1>t, <1>2, NotSendingType
  <2> QED
    BY <1>t, <2>1, <2>2, NotSendingType
<1> QED
  BY <1>1, <1>2 DEF CvFails

LEMMA FinishFacts ==
  ASSUME ReferralsTypeOK, Placed, NEW s \in Senders, FinishBatch(s)
  PROVE  LET n == sending[s].referral  k == Len(cvReadQueue) + 1 IN
         /\ UNCHANGED referred /\ RowsStand /\ n \in DOMAIN referrals
         /\ sending' = [sending EXCEPT ![s] = NotSending]
         /\ sending' \in [Senders -> Sending] /\ \A t \in Senders \ {s} : sending'[t] = sending[t]
         /\ sending'[s].step = "none"
         /\ cvReadQueue' \in Seq(Errand)
         /\ \/ UNCHANGED cvReadQueue
            \/ /\ referrals'[n].hurried
               /\ k \notin DOMAIN cvReadQueue /\ DOMAIN cvReadQueue' = DOMAIN cvReadQueue \cup {k}
               /\ cvReadQueue'[k] = Notice(n)
               /\ \A m \in DOMAIN cvReadQueue : cvReadQueue'[m] = cvReadQueue[m]
<1> DEFINE n == sending[s].referral
           k == Len(cvReadQueue) + 1
<1>t. /\ sending \in [Senders -> Sending] /\ sending[s].step = "finish"
      /\ UNCHANGED referred /\ n \in DOMAIN referrals
      /\ sending[s].created => referrals[n].hurried
      /\ sending' = [sending EXCEPT ![s] = NotSending] /\ cvReadQueue \in Seq(Errand)
      /\ referrals \in Seq(Referral) /\ Len(referrals) <= MaxReferrals
  BY DEF ReferralsTypeOK, FinishBatch, Placed
<1>s. /\ sending' \in [Senders -> Sending] /\ sending'[s] = NotSending
      /\ \A t \in Senders \ {s} : sending'[t] = sending[t]
  BY <1>t, NotSendingType
<1>m. n \in 1..MaxReferrals
  BY <1>t, RowsAre, Windows
<1>1. CASE sending[s].created
  <2>1. cvReadQueue' = Append(cvReadQueue, Notice(n)) /\ referrals' = referrals
    BY <1>1 DEF FinishBatch
  <2>2. Notice(n) \in Errand
    BY <1>m DEF Notice, Errand
  <2> DEFINE d == Notice(n)
  <2>3. d \in Errand /\ cvReadQueue' = Append(cvReadQueue, d)
    BY <2>1, <2>2
  <2> HIDE DEF d
  <2>4. /\ cvReadQueue' \in Seq(Errand)
        /\ k \notin DOMAIN cvReadQueue /\ DOMAIN cvReadQueue' = DOMAIN cvReadQueue \cup {k}
        /\ cvReadQueue'[k] = d /\ \A m \in DOMAIN cvReadQueue : cvReadQueue'[m] = cvReadQueue[m]
    BY <1>t, <2>3, RowsMore
  <2>5. RowsStand
    BY <2>1, <1>t, DroppedStands
  <2> QED
    BY <1>1, <1>t, <1>s, <2>1, <2>4, <2>5, NotSendingType DEF d
<1>2. CASE ~sending[s].created
  <2>1. /\ referrals' = Dropped(n) \/ referrals' = referrals
        /\ cvReadQueue' = cvReadQueue
    BY <1>2 DEF FinishBatch
  <2>2. RowsStand
    BY <2>1, <1>t, DroppedStands
  <2> QED
    BY <1>t, <1>s, <2>1, <2>2, NotSendingType
<1> QED
  BY <1>1, <1>2

LEMMA SweepFacts ==
  ASSUME ReferralsTypeOK, SendOverdueReferralNotices
  PROVE  /\ UNCHANGED <<referred, sending>> /\ RowsStand
         /\ cvReadQueue' \in Seq(Errand)
         /\ DOMAIN cvReadQueue \subseteq DOMAIN cvReadQueue'
         /\ \A k \in DOMAIN cvReadQueue : cvReadQueue'[k] = cvReadQueue[k]
         /\ \A k \in DOMAIN cvReadQueue' \ DOMAIN cvReadQueue :
              \E n \in DOMAIN referrals :
                /\ cvReadQueue'[k] = Notice(n) /\ Due(n) /\ (Of(n) = {} => referrals'[n].hurried)
<1>t. /\ referrals \in Seq(Referral) /\ Len(referrals) <= MaxReferrals /\ cvReadQueue \in Seq(Errand)
      /\ UNCHANGED <<referred, sending>>
  BY DEF ReferralsTypeOK, SendOverdueReferralNotices
<1>d. Len(referrals) \in Nat /\ DOMAIN referrals = 1..Len(referrals)
      /\ \A m \in DOMAIN referrals : referrals[m] \in Referral
  BY <1>t, RowsAre
<1> DEFINE due == {n \in DOMAIN referrals : Due(n)}
<1>1. PICK order \in [1..Cardinality(due) -> due] :
        cvReadQueue' = cvReadQueue \o [k \in DOMAIN order |-> Notice(order[k])]
  BY DEF SendOverdueReferralNotices
<1>r. referrals' = [n \in DOMAIN referrals |->
          IF Due(n) /\ Of(n) = {} THEN [referrals[n] EXCEPT !.hurried = TRUE] ELSE referrals[n]]
  BY DEF SendOverdueReferralNotices
<1>2. \A m \in DOMAIN referrals :
        /\ referrals'[m] \in Referral
        /\ referrals'[m].notified <=> referrals[m].notified
        /\ referrals'[m].thanks = referrals[m].thanks
        /\ referrals[m].hurried => referrals'[m].hurried
        /\ Due(m) /\ Of(m) = {} => referrals'[m].hurried
  BY <1>r, <1>d DEF Referral
<1>3. referrals' \in Seq(Referral) /\ Len(referrals') = Len(referrals) /\ DOMAIN referrals' = DOMAIN referrals
  <2>1. referrals' \in [1..Len(referrals) -> Referral]
    BY <1>r, <1>2, <1>d
  <2>2. referrals' \in Seq(Referral)
    BY <2>1, <1>d, SeqDef
  <2> QED
    BY <2>1, <2>2, <1>d, LenProperties
<1>4. RowsStand
  BY <1>2, <1>3, <1>t DEF RowsStand
<1>c. Cardinality(due) \in Nat
  <2>1. IsFiniteSet(1..Len(referrals))
    BY <1>d, FS_Interval
  <2>2. IsFiniteSet(due)
    BY <2>1, <1>d, FS_Subset
  <2> QED
    BY <2>2, FS_CardinalityType
<1> HIDE DEF due
<1> DEFINE more == [k \in DOMAIN order |-> Notice(order[k])]
<1>5. /\ more \in Seq(Errand) /\ DOMAIN more = DOMAIN order
      /\ \A k \in DOMAIN more : order[k] \in due /\ more[k] = Notice(order[k])
  <2>1. DOMAIN order = 1..Cardinality(due)
    BY <1>1
  <2>2. \A k \in DOMAIN order : order[k] \in 1..MaxReferrals
    BY <1>1, <1>d, <1>t, Windows DEF due
  <2>3. more \in [1..Cardinality(due) -> Errand]
    BY <2>1, <2>2 DEF Notice, Errand
  <2>4. more \in Seq(Errand)
    BY <2>3, <1>c, SeqDef
  <2> QED
    BY <2>4, <1>1
<1> HIDE DEF more
<1>6. /\ cvReadQueue' \in Seq(Errand)
      /\ DOMAIN cvReadQueue \subseteq DOMAIN cvReadQueue'
      /\ \A k \in DOMAIN cvReadQueue : cvReadQueue'[k] = cvReadQueue[k]
      /\ \A k \in DOMAIN cvReadQueue' \ DOMAIN cvReadQueue :
           \E j \in DOMAIN more : cvReadQueue'[k] = more[j]
  <2>1. cvReadQueue' = cvReadQueue \o more
    BY <1>1 DEF more
  <2>2. /\ cvReadQueue' \in Seq(Errand) /\ Len(cvReadQueue') = Len(cvReadQueue) + Len(more)
        /\ \A i \in 1..Len(cvReadQueue) + Len(more) :
             cvReadQueue'[i] = IF i <= Len(cvReadQueue) THEN cvReadQueue[i]
                               ELSE more[i - Len(cvReadQueue)]
    BY <2>1, <1>t, <1>5, ConcatProperties
  <2>3. /\ Len(cvReadQueue) \in Nat /\ DOMAIN cvReadQueue = 1..Len(cvReadQueue)
        /\ Len(more) \in Nat /\ DOMAIN more = 1..Len(more) /\ DOMAIN cvReadQueue' = 1..Len(cvReadQueue')
    BY <1>t, <1>5, <2>2, RowsAre
  <2>4. ASSUME NEW k \in DOMAIN cvReadQueue', k \notin DOMAIN cvReadQueue
        PROVE  \E j \in DOMAIN more : cvReadQueue'[k] = more[j]
    <3>1. k - Len(cvReadQueue) \in DOMAIN more /\ cvReadQueue'[k] = more[k - Len(cvReadQueue)]
      BY <2>2, <2>3, <2>4
    <3> QED
      BY <3>1
  <2> QED
    BY <2>2, <2>3, <2>4
<1>7. ASSUME NEW k \in DOMAIN cvReadQueue', k \notin DOMAIN cvReadQueue
      PROVE  \E n \in DOMAIN referrals :
                /\ cvReadQueue'[k] = Notice(n) /\ Due(n) /\ (Of(n) = {} => referrals'[n].hurried)
  <2>1. PICK j \in DOMAIN more : cvReadQueue'[k] = more[j]
    BY <1>6, <1>7
  <2>2. order[j] \in DOMAIN referrals /\ Due(order[j]) /\ cvReadQueue'[k] = Notice(order[j])
    BY <2>1, <1>5 DEF due
  <2> QED
    BY <2>2, <1>2
<1> QED
  BY <1>t, <1>4, <1>6, <1>7

(* What the queue gives up: a read, a notice turned into letters or dropped, *)
(* or letters sent.                                                          *)
LEMMA HeadFacts ==
  ASSUME ReferralsTypeOK, cvReadQueue # <<>>, cvReadQueue' = Tail(cvReadQueue)
  PROVE  /\ cvReadQueue' \in Seq(Errand) /\ 1 \in DOMAIN cvReadQueue
         /\ Head(cvReadQueue) = cvReadQueue[1]
         /\ \A k \in DOMAIN cvReadQueue' :
              k \in Nat /\ k > 0 /\ k + 1 \in DOMAIN cvReadQueue /\ cvReadQueue'[k] = cvReadQueue[k + 1]
BY RowsLess DEF ReferralsTypeOK

(* Candidates keep their referral, and what they were when they came. *)
PeopleStand ==
  /\ referred' \in Seq(Referred) /\ Len(referred') <= MaxReferred
  /\ DOMAIN referred' = DOMAIN referred
  /\ \A c \in DOMAIN referred :
       /\ referred'[c].referral = referred[c].referral
       /\ referred'[c].joined <=> referred[c].joined
       /\ referred'[c].late <=> referred[c].late

LEMMA OfStands ==
  ASSUME PeopleStand
  PROVE  \A n : Of(n)' = Of(n)
BY DEF PeopleStand, Of

LEMMA RemoveFacts ==
  ASSUME ReferralsTypeOK, NEW c \in DOMAIN referred, RemoveReferred(c)
  PROVE  /\ UNCHANGED <<referrals, cvReadQueue, sending>> /\ PeopleStand
         /\ \A d \in DOMAIN referred : referred'[d].age = referred[d].age
<1>t. referred \in Seq(Referred) /\ Len(referred) <= MaxReferred /\ referred[c] \in Referred
  BY RowsAre DEF ReferralsTypeOK
<1> DEFINE r == [referred[c] EXCEPT !.removed = TRUE]
<1>1. /\ r \in Referred /\ r.referral = referred[c].referral /\ r.age = referred[c].age
      /\ (r.joined <=> referred[c].joined) /\ (r.late <=> referred[c].late)
  BY <1>t DEF Referred
<1>2. referred' = [referred EXCEPT ![c] = r] /\ UNCHANGED <<referrals, cvReadQueue, sending>>
  BY DEF RemoveReferred
<1> HIDE DEF r
<1>3. /\ referred' \in Seq(Referred) /\ Len(referred') = Len(referred)
      /\ DOMAIN referred' = DOMAIN referred /\ referred'[c] = r
      /\ \A m \in DOMAIN referred \ {c} : referred'[m] = referred[m]
  BY <1>t, <1>1, <1>2, RowsPut
<1> QED
  BY <1>t, <1>1, <1>2, <1>3 DEF PeopleStand

LEMMA TickFacts ==
  ASSUME ReferralsTypeOK, Tick
  PROVE  /\ UNCHANGED <<referrals, cvReadQueue>> /\ PeopleStand
         /\ \A c \in DOMAIN referred :
              referred'[c].age = IF referred[c].age < QuietFor THEN referred[c].age + 1 ELSE referred[c].age
         /\ sending' \in [Senders -> Sending]
         /\ \A s \in Senders :
              /\ sending'[s].step = sending[s].step /\ sending'[s].left = sending[s].left
              /\ sending'[s].referral = sending[s].referral
              /\ sending'[s].alone <=> sending[s].alone
              /\ sending'[s].isNew <=> sending[s].isNew
              /\ sending'[s].created <=> sending[s].created
              /\ sending'[s].ticked <=> sending[s].alone /\ sending[s].step \in {"make", "add"}
              /\ sending[s].alone => ~sending[s].ticked
<1>t. /\ referred \in Seq(Referred) /\ Len(referred) <= MaxReferred
      /\ sending \in [Senders -> Sending] /\ UNCHANGED <<referrals, cvReadQueue>>
  BY DEF ReferralsTypeOK, Tick
<1>d. Len(referred) \in Nat /\ DOMAIN referred = 1..Len(referred)
      /\ \A m \in DOMAIN referred : referred[m] \in Referred
  BY <1>t, RowsAre
<1>p. referred' = [c \in DOMAIN referred |->
                    [referred[c] EXCEPT !.age = IF @ < QuietFor THEN @ + 1 ELSE @]]
  BY DEF Tick
<1>1. ASSUME NEW c \in DOMAIN referred
      PROVE  /\ referred'[c] \in Referred /\ referred'[c].referral = referred[c].referral
             /\ (referred'[c].joined <=> referred[c].joined) /\ (referred'[c].late <=> referred[c].late)
             /\ referred'[c].age = IF referred[c].age < QuietFor THEN referred[c].age + 1 ELSE referred[c].age
  <2> DEFINE a == IF referred[c].age < QuietFor THEN referred[c].age + 1 ELSE referred[c].age
  <2>1. referred[c] \in Referred /\ referred[c].age \in 0..QuietFor
    BY <1>d DEF Referred
  <2>2. a \in 0..QuietFor
    BY <2>1, Windows
  <2>3. referred'[c] = [referred[c] EXCEPT !.age = a]
    BY <1>p
  <2> HIDE DEF a
  <2>4. /\ referred'[c] \in Referred /\ referred'[c].referral = referred[c].referral
        /\ (referred'[c].joined <=> referred[c].joined) /\ (referred'[c].late <=> referred[c].late)
        /\ referred'[c].age = a
    BY <2>1, <2>2, <2>3 DEF Referred
  <2> QED
    BY <2>4 DEF a
<1>2. referred' \in Seq(Referred) /\ Len(referred') = Len(referred) /\ DOMAIN referred' = DOMAIN referred
  <2>1. referred' \in [1..Len(referred) -> Referred]
    BY <1>p, <1>1, <1>d
  <2>2. referred' \in Seq(Referred)
    BY <2>1, <1>d, SeqDef
  <2> QED
    BY <2>1, <2>2, <1>d, LenProperties
<1>3. ASSUME NEW s \in Senders
      PROVE  /\ sending'[s] \in Sending
             /\ sending'[s].step = sending[s].step /\ sending'[s].left = sending[s].left
             /\ sending'[s].referral = sending[s].referral
             /\ (sending'[s].alone <=> sending[s].alone) /\ (sending'[s].isNew <=> sending[s].isNew)
             /\ (sending'[s].created <=> sending[s].created)
             /\ (sending'[s].ticked <=> sending[s].alone /\ sending[s].step \in {"make", "add"})
  <2>1. sending[s] \in Sending
    BY <1>t
  <2> DEFINE b == sending[s].alone /\ sending[s].step \in {"make", "add"}
  <2>2. sending'[s] = [sending[s] EXCEPT !.ticked = b] /\ b \in BOOLEAN
    BY DEF Tick
  <2> HIDE DEF b
  <2>3. /\ sending'[s] \in Sending
        /\ sending'[s].step = sending[s].step /\ sending'[s].left = sending[s].left
        /\ sending'[s].referral = sending[s].referral
        /\ (sending'[s].alone <=> sending[s].alone) /\ (sending'[s].isNew <=> sending[s].isNew)
        /\ (sending'[s].created <=> sending[s].created) /\ (sending'[s].ticked <=> b)
    BY <2>1, <2>2 DEF Sending
  <2> QED
    BY <2>3 DEF b
<1>4. sending' = [s \in Senders |-> sending'[s]]
  BY DEF Tick
<1>5. \A s \in Senders : sending[s].alone => ~sending[s].ticked
  BY DEF Tick
<1>6. sending' \in [Senders -> Sending]
  BY <1>3, <1>4
<1> QED
  BY <1>t, <1>1, <1>2, <1>3, <1>5, <1>6 DEF PeopleStand

-----------------------------------------------------------------------------
(* No step disturbs it. *)

LEMMA TypeParts ==
  ASSUME ReferralsTypeOK
  PROVE  /\ referrals \in Seq(Referral) /\ Len(referrals) <= MaxReferrals
         /\ referred \in Seq(Referred) /\ Len(referred) <= MaxReferred
         /\ cvReadQueue \in Seq(Errand) /\ sending \in [Senders -> Sending]
         /\ \A s \in Senders : sending[s] \in Sending
         /\ \A c \in DOMAIN referred : referred[c] \in Referred /\ referred[c].age \in 0..QuietFor
         /\ \A k \in DOMAIN cvReadQueue : cvReadQueue[k] \in Errand
         /\ \A m \in DOMAIN referrals : referrals[m] \in Referral /\ referrals[m].notified \in BOOLEAN
<1>1. /\ referrals \in Seq(Referral) /\ referred \in Seq(Referred)
      /\ cvReadQueue \in Seq(Errand) /\ sending \in [Senders -> Sending]
  BY DEF ReferralsTypeOK
<1>2. /\ \A c \in DOMAIN referred : referred[c] \in Referred
      /\ \A k \in DOMAIN cvReadQueue : cvReadQueue[k] \in Errand
      /\ \A m \in DOMAIN referrals : referrals[m] \in Referral
  BY <1>1, RowsAre
<1> QED
  BY <1>1, <1>2 DEF ReferralsTypeOK, Referred, Referral

LEMMA YoungIsYoung ==
  ASSUME ReferralsTypeOK, NEW s \in Senders, Alone(s), ~sending[s].isNew, Young(s)
  PROVE  \E c \in Of(sending[s].referral) : referred[c].age < QuietFor
<1>1. PICK c \in Of(sending[s].referral) :
        referred[c].age <= IF sending[s].ticked THEN JoinFor ELSE JoinFor - 1
  BY DEF Young
<1>2. c \in DOMAIN referred /\ referred[c].age \in 0..QuietFor
  BY TypeParts DEF Of
<1> QED
  BY <1>1, <1>2, Windows

LEMMA FindKeeps ==
  ASSUME LettersInv, NEW s \in Senders, SendOne(s) \/ SendMany(s)
  PROVE  LettersInv'
<1>t. ReferralsTypeOK /\ Placed
  BY DEF LettersInv
<1>f. /\ UNCHANGED <<referrals, referred, cvReadQueue>> /\ sending[s].step = "none"
      /\ sending' \in [Senders -> Sending] /\ \A t \in Senders \ {s} : sending'[t] = sending[t]
      /\ ~sending'[s].created /\ ~sending'[s].ticked /\ ~sending'[s].isNew /\ sending'[s].left > 0
      /\ \/ sending'[s].step = "make"
         \/ /\ sending'[s].step = "add" /\ sending'[s].referral \in DOMAIN referrals
            /\ Joinable(sending'[s].referral)
  BY <1>t, FindFacts
<1>1. ReferralsTypeOK'
  BY <1>t, <1>f DEF ReferralsTypeOK
<1>2. Placed'
  BY <1>t, <1>f DEF Placed
<1>o. \A n : Of(n)' = Of(n)
  BY <1>f DEF Of
<1>3. ASSUME NEW t \in Senders
      PROVE  (Young(t) /\ ToItself(t))'
  <2>0. Young(t) /\ ToItself(t)
    BY DEF LettersInv
  <2>1. CASE t = s
    <3>1. ASSUME Alone(s)'
          PROVE  \E c \in Of(sending'[s].referral) : referred[c].age <= JoinFor - 1
      <4>1. Joinable(sending'[s].referral)
        BY <1>f, <3>1 DEF Alone
      <4>2. PICK c \in Of(sending'[s].referral) : referred[c].age < JoinFor
        BY <4>1 DEF Joinable
      <4>3. referred[c].age \in 0..QuietFor
        BY <1>t, TypeParts DEF Of
      <4> QED
        BY <4>2, <4>3, Windows
    <3> QED
      BY <1>f, <1>o, <2>1, <3>1 DEF Young, ToItself, Alone, Of
  <2>2. CASE t # s
    <3>1. sending'[t] = sending[t]
      BY <1>f, <2>2
    <3>2. Young(t)'
      BY <1>f, <2>0, <3>1 DEF Young, Alone, Of
    <3>3. ASSUME Alone(t)', sending'[t].isNew
          PROVE  ~AtWork(s, sending[t].referral)'
      <4>1. Of(sending[t].referral) = {}
        BY <2>0, <3>1, <3>3 DEF ToItself, Alone
      <4>2. sending'[s].step \in {"add", "finish"} => Of(sending'[s].referral) # {}
        BY <1>f DEF Joinable
      <4> QED
        BY <3>1, <4>1, <4>2 DEF AtWork
    <3>4. ToItself(t)'
      BY <1>f, <2>0, <3>1, <3>3 DEF ToItself, Alone, AtWork, Of
    <3> QED
      BY <3>2, <3>4
  <2> QED
    BY <2>1, <2>2
<1>4. (Referring /\ QueueInOrder /\ ThanksOnce /\ LateHurried)'
  BY <1>f DEF LettersInv, Referring, QueueInOrder, ThanksOnce, LateHurried
<1>5. (\A n \in DOMAIN referrals : GoneQuiet(n))'
  BY <1>f DEF LettersInv, GoneQuiet, Asked, Of
<1> QED
  BY <1>1, <1>2, <1>3, <1>4, <1>5 DEF LettersInv

LEMMA MakeKeeps ==
  ASSUME LettersInv, NEW s \in Senders, MakeReferral(s)
  PROVE  LettersInv'
<1>t. ReferralsTypeOK /\ Placed /\ Referring /\ QueueInOrder /\ ThanksOnce /\ LateHurried
  BY DEF LettersInv
<1> PICK n : n = Len(referrals) + 1
  OBVIOUS
<1>f. /\ UNCHANGED <<referred, cvReadQueue>> /\ sending[s].step = "make"
      /\ referrals' \in Seq(Referral) /\ Len(referrals') <= MaxReferrals
      /\ n \notin DOMAIN referrals /\ DOMAIN referrals' = DOMAIN referrals \cup {n}
      /\ ~referrals'[n].notified /\ referrals'[n].thanks = 0
      /\ \A m \in DOMAIN referrals : referrals'[m] = referrals[m]
      /\ sending' \in [Senders -> Sending] /\ \A t \in Senders \ {s} : sending'[t] = sending[t]
      /\ sending'[s].step = "add" /\ sending'[s].isNew /\ sending'[s].referral = n
      /\ (sending'[s].alone <=> sending[s].alone) /\ sending'[s].left = sending[s].left
      /\ (sending'[s].created <=> sending[s].created)
  BY <1>t, MakeFacts
<1>o. \A m : Of(m)' = Of(m)
  BY <1>f DEF Of
<1>n. Of(n) = {} /\ ~Asked(n) /\ \A t \in Senders : ~AtWork(t, n)
  BY <1>t, <1>f DEF Referring, Of, Asked, Notice, QueueInOrder, Placed, AtWork
<1>1. ReferralsTypeOK'
  BY <1>t, <1>f DEF ReferralsTypeOK
<1>2. Placed'
  BY <1>t, <1>f DEF Placed
<1>3. ASSUME NEW t \in Senders
      PROVE  (Young(t) /\ ToItself(t))'
  <2>0. Young(t) /\ ToItself(t)
    BY DEF LettersInv
  <2>1. CASE t = s
    <3>1. \A x \in Senders \ {s} : ~AtWork(x, n)'
      BY <1>f, <1>n DEF AtWork
    <3> QED
      BY <1>f, <1>o, <1>n, <2>1, <3>1 DEF Young, ToItself, Alone, AtWork
  <2>2. CASE t # s
    <3>1. sending'[t] = sending[t]
      BY <1>f, <2>2
    <3>2. Young(t)'
      BY <1>f, <2>0, <3>1 DEF Young, Alone, Of
    <3>3. ASSUME Alone(t)'
          PROVE  ~AtWork(s, sending[t].referral)'
      BY <1>t, <1>f, <3>1, <3>3 DEF Placed, Alone, AtWork
    <3>4. ToItself(t)'
      BY <1>f, <1>o, <2>0, <3>1, <3>3 DEF ToItself, Alone, AtWork
    <3> QED
      BY <3>2, <3>4
  <2> QED
    BY <2>1, <2>2
<1>4. (Referring /\ QueueInOrder /\ ThanksOnce /\ LateHurried)'
  <2>1. Referring'
    BY <1>t, <1>f DEF Referring
  <2>2. QueueInOrder'
    BY <1>t, <1>f DEF QueueInOrder
  <2>3. ThanksOnce'
    BY <1>t, <1>f DEF ThanksOnce
  <2>4. LateHurried'
    BY <1>t, <1>f DEF LateHurried, Referring
  <2> QED
    BY <2>1, <2>2, <2>3, <2>4
<1>5. ASSUME NEW m \in DOMAIN referrals'
      PROVE  GoneQuiet(m)'
  <2>1. Asked(m)' <=> Asked(m)
    BY <1>f DEF Asked
  <2>2. CASE m = n
    BY <1>f, <1>n, <2>1, <2>2 DEF GoneQuiet
  <2>3. CASE m \in DOMAIN referrals
    <3>1. GoneQuiet(m) /\ referrals'[m] = referrals[m]
      BY <2>3, <1>f DEF LettersInv
    <3> QED
      BY <3>1, <1>f, <1>o, <2>1 DEF GoneQuiet
  <2> QED
    BY <1>f, <2>2, <2>3
<1> QED
  BY <1>1, <1>2, <1>3, <1>4, <1>5 DEF LettersInv

LEMMA ReferKeeps ==
  ASSUME LettersInv, NEW s \in Senders, AddReferred(s)
  PROVE  LettersInv'
<1>t. ReferralsTypeOK /\ Placed /\ Referring /\ QueueInOrder /\ ThanksOnce /\ LateHurried
  BY DEF LettersInv
<1> PICK n, c, k : n = sending[s].referral /\ c = Len(referred) + 1 /\ k = Len(cvReadQueue) + 1
  OBVIOUS
<1>f. /\ sending[s].step = "add" /\ n \in DOMAIN referrals
      /\ referred' \in Seq(Referred) /\ Len(referred') <= MaxReferred
      /\ c \notin DOMAIN referred /\ DOMAIN referred' = DOMAIN referred \cup {c}
      /\ referred'[c].referral = n /\ referred'[c].age = 0
      /\ (referred'[c].joined <=> sending[s].alone /\ ~sending[s].isNew)
      /\ (referred'[c].late <=> referrals[n].notified)
      /\ \A m \in DOMAIN referred : referred'[m] = referred[m]
      /\ cvReadQueue' \in Seq(Errand)
      /\ k \notin DOMAIN cvReadQueue /\ DOMAIN cvReadQueue' = DOMAIN cvReadQueue \cup {k}
      /\ cvReadQueue'[k].kind = "read" /\ cvReadQueue'[k].referral = n
      /\ \A m \in DOMAIN cvReadQueue : cvReadQueue'[m] = cvReadQueue[m]
      /\ referrals' \in Seq(Referral) /\ Len(referrals') <= MaxReferrals
      /\ DOMAIN referrals' = DOMAIN referrals
      /\ \A m \in DOMAIN referrals \ {n} : referrals'[m] = referrals[m]
      /\ (referrals'[n].notified <=> referrals[n].notified)
      /\ referrals'[n].thanks = referrals[n].thanks
      /\ (referrals'[n].hurried <=> referrals[n].hurried \/ ~sending[s].alone)
      /\ sending' \in [Senders -> Sending] /\ \A t \in Senders \ {s} : sending'[t] = sending[t]
      /\ sending'[s].step # "make"
      /\ sending[s].alone => sending'[s].step = "none"
      /\ sending'[s].step = "none" \/ ~sending'[s].alone
      /\ sending'[s].step = "add" => sending'[s].left > 0
      /\ sending'[s].step \in {"add", "finish"} => sending'[s].referral = n
  BY <1>t, AddFacts
<1>h. \A m \in DOMAIN referrals : referrals[m].hurried => referrals'[m].hurried
  BY <1>f
<1>o. /\ Of(n)' = Of(n) \cup {c} /\ \A m : m # n => Of(m)' = Of(m)
      /\ \A m : Of(m) \subseteq DOMAIN referred
  BY <1>f DEF Of
<1>q. \A m : Asked(m)' => Asked(m)
  BY <1>f DEF Asked, Notice
<1>y. sending[s].alone /\ ~referrals[n].hurried => ~referrals[n].notified /\ ~Asked(n)
  <2> SUFFICES ASSUME sending[s].alone, ~referrals[n].hurried, referrals[n].notified \/ Asked(n)
               PROVE  FALSE
    OBVIOUS
  <2>1. Of(n) # {} /\ \A d \in Of(n) : referred[d].age >= QuietFor
    BY <1>f DEF LettersInv, GoneQuiet
  <2>2. ~sending[s].isNew
    BY <2>1, <1>f DEF LettersInv, ToItself, Alone
  <2>3. \E d \in Of(n) : referred[d].age < QuietFor
    BY <2>2, <1>t, <1>f, YoungIsYoung DEF LettersInv, Alone
  <2>4. PICK d \in Of(n) : referred[d].age < QuietFor /\ referred[d].age >= QuietFor
    BY <2>1, <2>3
  <2>5. referred[d].age \in 0..QuietFor
    BY <1>t, <1>o, TypeParts
  <2> QED
    BY <2>4, <2>5, Windows
<1>1. ReferralsTypeOK'
  BY <1>t, <1>f DEF ReferralsTypeOK
<1>2. Placed'
  <2>1. ASSUME NEW t \in Senders
        PROVE  /\ sending'[t].step \in {"make", "add"} => sending'[t].left > 0
               /\ sending'[t].step = "make" => ~sending'[t].created
               /\ sending'[t].step \in {"add", "finish"} =>
                    /\ sending'[t].referral \in DOMAIN referrals
                    /\ sending'[t].created => referrals'[sending'[t].referral].hurried
    <3>1. CASE t = s
      BY <3>1, <1>f
    <3>2. CASE t # s
      BY <3>2, <1>f, <1>h, <1>t DEF Placed
    <3> QED
      BY <3>1, <3>2
  <2> QED
    BY <2>1, <1>f DEF Placed
<1>3. ASSUME NEW t \in Senders
      PROVE  (Young(t) /\ ToItself(t))'
  <2>0. Young(t) /\ ToItself(t)
    BY DEF LettersInv
  <2>1. CASE t = s
    BY <1>f, <2>1 DEF Young, ToItself, Alone
  <2>2. CASE t # s
    <3>1. sending'[t] = sending[t]
      BY <1>f, <2>2
    <3>2. Young(t)'
      BY <1>f, <2>0, <3>1 DEF Young, Alone, Of
    <3>3. ASSUME Alone(t)', sending'[t].isNew
          PROVE  sending[t].referral # n
      BY <2>0, <2>2, <3>1, <3>3, <1>f DEF ToItself, Alone, AtWork
    <3>4. ToItself(t)'
      <4> SUFFICES ASSUME Alone(t)', sending'[t].isNew
                   PROVE  /\ Of(sending[t].referral)' = {}
                          /\ \A x \in Senders \ {t} : ~AtWork(x, sending[t].referral)'
        BY DEF ToItself
      <4> PICK m : m = sending[t].referral
        OBVIOUS
      <4>1. m # n /\ Of(m) = {} /\ \A x \in Senders \ {t} : ~AtWork(x, m)
        BY <2>0, <3>1, <3>3 DEF ToItself, Alone
      <4>2. \A x \in Senders \ {t} : ~AtWork(x, m)'
        BY SMTT(60), <1>f, <4>1 DEF AtWork
      <4>3. Of(m)' = {}
        BY <1>o, <4>1
      <4> QED
        BY <3>1, <4>2, <4>3 DEF AtWork, Of
    <3> QED
      BY <3>2, <3>4
  <2> QED
    BY <2>1, <2>2
<1>4. (Referring /\ QueueInOrder /\ ThanksOnce)'
  <2>1. Referring'
    BY <1>t, <1>f DEF Referring
  <2>2. QueueInOrder'
    BY SMTT(60), <1>t, <1>f DEF QueueInOrder
  <2>3. ThanksOnce'
    BY <1>t, <1>f DEF ThanksOnce
  <2> QED
    BY <2>1, <2>2, <2>3
<1>5. ASSUME NEW m \in DOMAIN referrals
      PROVE  GoneQuiet(m)'
  <2>0. GoneQuiet(m)
    BY DEF LettersInv
  <2>1. CASE m = n
    BY <1>f, <1>q, <1>y, <2>1 DEF GoneQuiet
  <2>2. CASE m # n
    <3>1. referrals'[m] = referrals[m] /\ Of(m)' = Of(m) /\ \A d \in Of(m) : referred'[d] = referred[d]
      BY <1>f, <1>o, <2>2
    <3> QED
      BY <1>q, <2>0, <3>1 DEF GoneQuiet
  <2> QED
    BY <2>1, <2>2
<1>6. LateHurried'
  <2>1. ASSUME NEW d \in DOMAIN referred', referred'[d].joined, referred'[d].late
        PROVE  referrals'[referred'[d].referral].hurried
    <3>1. CASE d = c
      BY <1>f, <1>h, <1>y, <2>1, <3>1
    <3>2. CASE d \in DOMAIN referred
      BY <1>f, <1>h, <1>t, <2>1, <3>2 DEF LateHurried, Referring
    <3> QED
      BY <1>f, <3>1, <3>2
  <2> QED
    BY <2>1 DEF LateHurried
<1> QED
  BY <1>f, <1>1, <1>2, <1>3, <1>4, <1>5, <1>6 DEF LettersInv

(* What stays when the rows stand, nobody comes and the requests only end. *)
LEMMA RowsKeep ==
  ASSUME LettersInv, RowsStand, UNCHANGED referred, sending' \in [Senders -> Sending],
         cvReadQueue' \in Seq(Errand),
         \A s \in Senders :
           \/ sending'[s] = sending[s]
           \/ /\ sending'[s].step # "make" /\ (sending'[s].step = "none" \/ ~sending'[s].alone)
              /\ sending'[s].step = "add" => sending'[s].left > 0
              /\ sending'[s].step \in {"add", "finish"} =>
                   /\ sending[s].step \in {"add", "finish"}
                   /\ sending'[s].referral = sending[s].referral
                   /\ (sending'[s].created => sending[s].created)
  PROVE  /\ (ReferralsTypeOK /\ Referring /\ ThanksOnce /\ Placed /\ LateHurried)'
         /\ (\A s \in Senders : Young(s) /\ ToItself(s))'
<1>t. ReferralsTypeOK /\ Placed /\ Referring /\ QueueInOrder /\ ThanksOnce /\ LateHurried
  BY DEF LettersInv
<1>r. /\ referrals' \in Seq(Referral) /\ Len(referrals') <= MaxReferrals
      /\ DOMAIN referrals' = DOMAIN referrals
      /\ \A m \in DOMAIN referrals :
           /\ referrals'[m].notified <=> referrals[m].notified
           /\ referrals'[m].thanks = referrals[m].thanks
           /\ referrals[m].hurried => referrals'[m].hurried
  BY DEF RowsStand
<1>1. (ReferralsTypeOK /\ Referring)'
  BY <1>t, <1>r DEF ReferralsTypeOK, Referring
<1>2. ThanksOnce'
  BY <1>t, <1>r DEF ThanksOnce
<1>3. LateHurried'
  BY <1>t, <1>r DEF LateHurried, Referring
<1>4. Placed'
  <2>1. ASSUME NEW t \in Senders
        PROVE  /\ sending'[t].step \in {"make", "add"} => sending'[t].left > 0
               /\ sending'[t].step = "make" => ~sending'[t].created
               /\ sending'[t].step \in {"add", "finish"} =>
                    /\ sending'[t].referral \in DOMAIN referrals
                    /\ sending'[t].created => referrals'[sending'[t].referral].hurried
    BY <1>t, <1>r DEF Placed
  <2> QED
    BY <2>1, <1>r DEF Placed
<1>5. ASSUME NEW t \in Senders
      PROVE  (Young(t) /\ ToItself(t))'
  <2>0. Young(t) /\ ToItself(t)
    BY DEF LettersInv
  <2>1. \A x \in Senders : \A m : AtWork(x, m)' => AtWork(x, m)
    BY DEF AtWork
  <2>2. CASE sending'[t] = sending[t]
    <3>1. Young(t)'
      BY <2>0, <2>2 DEF Young, Alone, Of
    <3>2. ToItself(t)'
      BY <2>0, <2>1, <2>2 DEF ToItself, Alone, Of, AtWork
    <3> QED
      BY <3>1, <3>2
  <2>3. CASE sending'[t] # sending[t]
    BY <2>3 DEF Young, ToItself, Alone
  <2> QED
    BY <2>2, <2>3
<1> QED
  BY <1>1, <1>2, <1>3, <1>4, <1>5

LEMMA FailKeeps ==
  ASSUME LettersInv, NEW s \in Senders, CvFails(s)
  PROVE  LettersInv'
<1>t. ReferralsTypeOK /\ Placed /\ QueueInOrder
  BY DEF LettersInv
<1>f. /\ UNCHANGED <<referred, cvReadQueue>> /\ RowsStand
      /\ sending[s].step = "add" /\ ~sending[s].alone
      /\ sending' \in [Senders -> Sending] /\ \A t \in Senders \ {s} : sending'[t] = sending[t]
      /\ sending'[s].step # "make"
      /\ sending'[s].step = "none" \/ ~sending'[s].alone
      /\ sending'[s].step = "add" => sending'[s].left > 0
      /\ sending'[s].step \in {"add", "finish"} =>
           sending'[s].referral = sending[s].referral /\ (sending'[s].created => sending[s].created)
  BY <1>t, FailFacts
<1>1. /\ (ReferralsTypeOK /\ Referring /\ ThanksOnce /\ Placed /\ LateHurried)'
      /\ (\A t \in Senders : Young(t) /\ ToItself(t))'
  BY <1>t, <1>f, RowsKeep DEF ReferralsTypeOK
<1>2. QueueInOrder'
  BY <1>t, <1>f DEF QueueInOrder, RowsStand
<1>3. (\A n \in DOMAIN referrals : GoneQuiet(n))'
  BY <1>f DEF LettersInv, GoneQuiet, Asked, Of, RowsStand
<1> QED
  BY <1>1, <1>2, <1>3 DEF LettersInv

LEMMA FinishKeeps ==
  ASSUME LettersInv, NEW s \in Senders, FinishBatch(s)
  PROVE  LettersInv'
<1>t. ReferralsTypeOK /\ Placed /\ QueueInOrder
  BY DEF LettersInv
<1> PICK n, k : n = sending[s].referral /\ k = Len(cvReadQueue) + 1
  OBVIOUS
<1>f. /\ UNCHANGED referred /\ RowsStand /\ n \in DOMAIN referrals
      /\ sending' \in [Senders -> Sending] /\ \A t \in Senders \ {s} : sending'[t] = sending[t]
      /\ sending'[s].step = "none"
      /\ cvReadQueue' \in Seq(Errand)
      /\ \/ UNCHANGED cvReadQueue
         \/ /\ referrals'[n].hurried
            /\ k \notin DOMAIN cvReadQueue /\ DOMAIN cvReadQueue' = DOMAIN cvReadQueue \cup {k}
            /\ cvReadQueue'[k] = Notice(n)
            /\ \A m \in DOMAIN cvReadQueue : cvReadQueue'[m] = cvReadQueue[m]
  BY <1>t, FinishFacts
<1>1. /\ (ReferralsTypeOK /\ Referring /\ ThanksOnce /\ Placed /\ LateHurried)'
      /\ (\A t \in Senders : Young(t) /\ ToItself(t))'
  BY <1>f, RowsKeep
<1>2. QueueInOrder'
  <2>1. CASE UNCHANGED cvReadQueue
    BY <1>t, <1>f, <2>1 DEF QueueInOrder, RowsStand
  <2>2. CASE /\ k \notin DOMAIN cvReadQueue /\ DOMAIN cvReadQueue' = DOMAIN cvReadQueue \cup {k}
             /\ cvReadQueue'[k] = Notice(n)
             /\ \A m \in DOMAIN cvReadQueue : cvReadQueue'[m] = cvReadQueue[m]
    <3>1. cvReadQueue'[k].referral = n /\ cvReadQueue'[k].kind # "letters"
      BY <2>2 DEF Notice
    <3> QED
      BY <1>t, <1>f, <2>2, <3>1 DEF QueueInOrder, RowsStand
  <2> QED
    BY <1>f, <2>1, <2>2
<1>3. ASSUME NEW m \in DOMAIN referrals
      PROVE  GoneQuiet(m)'
  <2>1. GoneQuiet(m)
    BY DEF LettersInv
  <2>2. Asked(m)' => Asked(m) \/ referrals'[m].hurried
    BY <1>f DEF Asked, Notice
  <2> QED
    BY <1>f, <2>1, <2>2 DEF GoneQuiet, Of, RowsStand
<1> QED
  BY <1>f, <1>1, <1>2, <1>3 DEF LettersInv, RowsStand

LEMMA SweepKeeps ==
  ASSUME LettersInv, SendOverdueReferralNotices
  PROVE  LettersInv'
<1>t. ReferralsTypeOK /\ Placed /\ QueueInOrder
  BY DEF LettersInv
<1>f. /\ UNCHANGED <<referred, sending>> /\ RowsStand
      /\ cvReadQueue' \in Seq(Errand)
      /\ DOMAIN cvReadQueue \subseteq DOMAIN cvReadQueue'
      /\ \A k \in DOMAIN cvReadQueue : cvReadQueue'[k] = cvReadQueue[k]
      /\ \A k \in DOMAIN cvReadQueue' \ DOMAIN cvReadQueue :
           \E n \in DOMAIN referrals :
             /\ cvReadQueue'[k] = Notice(n) /\ Due(n) /\ (Of(n) = {} => referrals'[n].hurried)
  BY <1>t, SweepFacts
<1>1. /\ (ReferralsTypeOK /\ Referring /\ ThanksOnce /\ Placed /\ LateHurried)'
      /\ (\A t \in Senders : Young(t) /\ ToItself(t))'
  BY <1>t, <1>f, RowsKeep DEF ReferralsTypeOK
<1>2. QueueInOrder'
  <2>1. ASSUME NEW k \in DOMAIN cvReadQueue'
        PROVE  /\ cvReadQueue'[k].referral \in DOMAIN referrals
               /\ cvReadQueue'[k].kind = "letters" =>
                    /\ k = 1
                    /\ referrals[cvReadQueue'[k].referral].notified
                    /\ referrals[cvReadQueue'[k].referral].thanks = 0
    <3>1. CASE k \in DOMAIN cvReadQueue
      BY <1>t, <1>f, <3>1 DEF QueueInOrder
    <3>2. CASE k \notin DOMAIN cvReadQueue
      BY <1>f, <3>2 DEF Notice
    <3> QED
      BY <3>1, <3>2
  <2> QED
    BY <2>1, <1>f DEF QueueInOrder, RowsStand
<1>3. ASSUME NEW m \in DOMAIN referrals
      PROVE  GoneQuiet(m)'
  <2>1. GoneQuiet(m)
    BY DEF LettersInv
  <2>2. Asked(m)' => Asked(m) \/ (Due(m) /\ (Of(m) = {} => referrals'[m].hurried))
    <3> SUFFICES ASSUME NEW k \in DOMAIN cvReadQueue', cvReadQueue'[k] = Notice(m), ~Asked(m)
                 PROVE  Due(m) /\ (Of(m) = {} => referrals'[m].hurried)
      BY DEF Asked, Notice
    <3>1. k \notin DOMAIN cvReadQueue
      BY <1>f DEF Asked
    <3>2. PICK n \in DOMAIN referrals :
            cvReadQueue'[k] = Notice(n) /\ Due(n) /\ (Of(n) = {} => referrals'[n].hurried)
      BY <1>f, <3>1
    <3>3. n = m
      BY <3>2 DEF Notice
    <3> QED
      BY <3>2, <3>3
  <2>3. Of(m)' = Of(m) /\ UNCHANGED referred
    BY <1>f DEF Of
  <2> QED
    BY <1>f, <2>1, <2>2, <2>3 DEF GoneQuiet, RowsStand, Due
<1> QED
  BY <1>f, <1>1, <1>2, <1>3 DEF LettersInv, RowsStand

(* Nothing behind the head is letters. *)
LEMMA TailKeeps ==
  ASSUME LettersInv, cvReadQueue # <<>>, cvReadQueue' = Tail(cvReadQueue), RowsStand,
         UNCHANGED <<referred, sending>>
  PROVE  LettersInv'
<1>t. ReferralsTypeOK /\ Placed /\ QueueInOrder
  BY DEF LettersInv
<1>f. /\ cvReadQueue' \in Seq(Errand) /\ 1 \in DOMAIN cvReadQueue
      /\ Head(cvReadQueue) = cvReadQueue[1]
      /\ \A k \in DOMAIN cvReadQueue' :
           k \in Nat /\ k > 0 /\ k + 1 \in DOMAIN cvReadQueue /\ cvReadQueue'[k] = cvReadQueue[k + 1]
  BY <1>t, HeadFacts
<1>1. /\ (ReferralsTypeOK /\ Referring /\ ThanksOnce /\ Placed /\ LateHurried)'
      /\ (\A t \in Senders : Young(t) /\ ToItself(t))'
  BY <1>t, <1>f, RowsKeep DEF ReferralsTypeOK
<1>2. QueueInOrder'
  <2>1. \A k \in DOMAIN cvReadQueue' :
          cvReadQueue'[k].referral \in DOMAIN referrals /\ cvReadQueue'[k].kind # "letters"
    <3> TAKE k \in DOMAIN cvReadQueue'
    <3>1. k + 1 # 1 /\ k + 1 \in DOMAIN cvReadQueue /\ cvReadQueue'[k] = cvReadQueue[k + 1]
      BY <1>f
    <3> QED
      BY <1>t, <3>1 DEF QueueInOrder
  <2> QED
    BY <2>1 DEF QueueInOrder, RowsStand
<1>3. \A m : Asked(m)' => Asked(m)
  BY <1>f DEF Asked, Notice
<1>4. (\A n \in DOMAIN referrals : GoneQuiet(n))'
  BY <1>3 DEF LettersInv, GoneQuiet, Of, RowsStand
<1> QED
  BY <1>1, <1>2, <1>4 DEF LettersInv

LEMMA CvReadKeeps ==
  ASSUME LettersInv, ReadCv
  PROVE  LettersInv'
<1>1. RowsStand
  BY DEF LettersInv, ReferralsTypeOK, ReadCv, RowsStand
<1> QED
  BY <1>1, TailKeeps DEF ReadCv, AtHead

LEMMA ThanksKeep ==
  ASSUME LettersInv, SendThanks
  PROVE  LettersInv'
<1>t. ReferralsTypeOK /\ Placed /\ QueueInOrder /\ ThanksOnce
  BY DEF LettersInv
<1>f. /\ cvReadQueue # <<>> /\ cvReadQueue' = Tail(cvReadQueue) /\ UNCHANGED <<referred, sending>>
      /\ Head(cvReadQueue).kind = "letters"
  BY DEF SendThanks, AtHead
<1> PICK n : n = Head(cvReadQueue).referral
  OBVIOUS
<1>h. /\ cvReadQueue' \in Seq(Errand) /\ 1 \in DOMAIN cvReadQueue
      /\ Head(cvReadQueue) = cvReadQueue[1]
      /\ \A k \in DOMAIN cvReadQueue' :
           k \in Nat /\ k > 0 /\ k + 1 \in DOMAIN cvReadQueue /\ cvReadQueue'[k] = cvReadQueue[k + 1]
  BY <1>t, <1>f, HeadFacts
<1>n. n \in DOMAIN referrals /\ referrals[n].notified /\ referrals[n].thanks = 0
  BY <1>t, <1>f, <1>h DEF QueueInOrder
<1>1. CASE referrals' = referrals
  <2>1. RowsStand
    BY <1>1, <1>t DEF ReferralsTypeOK, RowsStand
  <2> QED
    BY <1>f, <2>1, TailKeeps
<1>2. CASE referrals' = [referrals EXCEPT ![n].thanks = @ + 1]
  <2> DEFINE r == [referrals[n] EXCEPT !.thanks = 1]
  <2>1. referrals \in Seq(Referral) /\ referrals[n] \in Referral /\ Len(referrals) <= MaxReferrals
    BY <1>t, <1>n, TypeParts
  <2>2. r \in Referral /\ (r.notified <=> referrals[n].notified) /\ r.thanks = 1
        /\ (r.hurried <=> referrals[n].hurried)
    BY <2>1 DEF Referral
  <2>3. referrals' = [referrals EXCEPT ![n] = r]
    BY <1>2, <1>n
  <2> HIDE DEF r
  <2>4. /\ referrals' \in Seq(Referral) /\ Len(referrals') = Len(referrals)
        /\ DOMAIN referrals' = DOMAIN referrals /\ referrals'[n] = r
        /\ \A m \in DOMAIN referrals \ {n} : referrals'[m] = referrals[m]
    BY <1>n, <2>1, <2>2, <2>3, RowsPut
  <2>5. /\ Len(referrals') <= MaxReferrals
        /\ \A m \in DOMAIN referrals :
             /\ referrals'[m].notified <=> referrals[m].notified
             /\ referrals[m].hurried <=> referrals'[m].hurried
    BY <2>1, <2>2, <2>4
  <2>6. (ReferralsTypeOK /\ Referring)'
    BY <1>t, <1>f, <1>h, <2>4, <2>5 DEF ReferralsTypeOK, Referring, LettersInv
  <2>7. ThanksOnce'
    BY <1>t, <1>n, <2>2, <2>4, <2>5 DEF ThanksOnce
  <2>8. QueueInOrder'
    <3>1. \A k \in DOMAIN cvReadQueue' :
            cvReadQueue'[k].referral \in DOMAIN referrals /\ cvReadQueue'[k].kind # "letters"
      <4> TAKE k \in DOMAIN cvReadQueue'
      <4>1. k + 1 # 1 /\ k + 1 \in DOMAIN cvReadQueue /\ cvReadQueue'[k] = cvReadQueue[k + 1]
        BY <1>h
      <4> QED
        BY <1>t, <4>1 DEF QueueInOrder
    <3> QED
      BY <3>1, <2>4 DEF QueueInOrder
  <2>9. \A m : Asked(m)' => Asked(m)
    BY <1>h DEF Asked, Notice
  <2>10. (\A m \in DOMAIN referrals : GoneQuiet(m))'
    BY <1>f, <2>4, <2>5, <2>9 DEF LettersInv, GoneQuiet, Of
  <2>11. (Placed /\ LateHurried)'
    <3>1. Placed'
      BY <1>t, <1>f, <2>4, <2>5 DEF Placed
    <3>2. LateHurried'
      BY <1>f, <2>4, <2>5 DEF LettersInv, LateHurried, Referring
    <3> QED
      BY <3>1, <3>2
  <2>12. (\A s \in Senders : Young(s) /\ ToItself(s))'
    BY <1>f DEF LettersInv, Young, ToItself, Alone, AtWork, Of
  <2> QED
    BY <2>6, <2>7, <2>8, <2>10, <2>11, <2>12 DEF LettersInv
<1> QED
  <2>1. \/ referrals' = referrals \/ referrals' = [referrals EXCEPT ![n].thanks = @ + 1]
    BY DEF SendThanks
  <2> QED
    BY <2>1, <1>1, <1>2

LEMMA ClaimKeeps ==
  ASSUME LettersInv, ClaimNotice
  PROVE  LettersInv'
<1>t. ReferralsTypeOK /\ Placed /\ QueueInOrder /\ ThanksOnce
  BY DEF LettersInv
<1>f. /\ cvReadQueue # <<>> /\ UNCHANGED <<referred, sending>> /\ Head(cvReadQueue).kind = "notice"
  BY DEF ClaimNotice, AtHead
<1> PICK n : n = Head(cvReadQueue).referral
  OBVIOUS
<1>1. CASE cvReadQueue' = Tail(cvReadQueue) /\ UNCHANGED referrals
  <2>1. RowsStand
    BY <1>1, <1>t DEF ReferralsTypeOK, RowsStand
  <2> QED
    BY <1>1, <1>f, <2>1, TailKeeps
<1>2. CASE /\ Claimable(n) /\ referrals' = [referrals EXCEPT ![n].notified = TRUE]
           /\ cvReadQueue' = <<[kind |-> "letters", referral |-> n]>> \o Tail(cvReadQueue)
  <2> DEFINE d == [kind |-> "letters", referral |-> n]
             r == [referrals[n] EXCEPT !.notified = TRUE]
  <2>0. /\ cvReadQueue \in Seq(Errand) /\ Tail(cvReadQueue) \in Seq(Errand) /\ 1 \in DOMAIN cvReadQueue
        /\ Head(cvReadQueue) = cvReadQueue[1] /\ cvReadQueue[1] \in Errand
        /\ \A k \in DOMAIN Tail(cvReadQueue) :
             k \in Nat /\ k > 0 /\ k + 1 \in DOMAIN cvReadQueue
             /\ Tail(cvReadQueue)[k] = cvReadQueue[k + 1]
    BY <1>t, <1>f, RowsLess DEF ReferralsTypeOK
  <2>1. /\ n \in DOMAIN referrals /\ referrals \in Seq(Referral) /\ referrals[n] \in Referral
        /\ Len(referrals) <= MaxReferrals /\ ~referrals[n].notified
        /\ referrals[n].thanks = 0
    BY <1>t, <1>2, <2>0, TypeParts DEF QueueInOrder, Claimable, ThanksOnce
  <2>2. n \in 1..MaxReferrals
    BY <2>1, RowsAre, Windows
  <2>3. d \in Errand /\ d.kind = "letters" /\ d.referral = n
    BY <2>2 DEF Errand
  <2>4. r \in Referral /\ r.notified /\ r.thanks = 0 /\ (r.hurried <=> referrals[n].hurried)
    BY <2>1 DEF Referral
  <2>5. referrals' = [referrals EXCEPT ![n] = r] /\ cvReadQueue' = <<d>> \o Tail(cvReadQueue)
    BY <1>2
  <2> HIDE DEF d, r
  <2>6. /\ referrals' \in Seq(Referral) /\ Len(referrals') = Len(referrals)
        /\ DOMAIN referrals' = DOMAIN referrals /\ referrals'[n] = r
        /\ \A m \in DOMAIN referrals \ {n} : referrals'[m] = referrals[m]
    BY <2>1, <2>4, <2>5, RowsPut
  <2>7. /\ cvReadQueue' \in Seq(Errand)
        /\ \A k \in DOMAIN cvReadQueue' :
             \/ k = 1 /\ cvReadQueue'[k] = d
             \/ \E j \in DOMAIN cvReadQueue : j # 1 /\ cvReadQueue'[k] = cvReadQueue[j]
    <3>1. <<d>> \in Seq(Errand) /\ Len(<<d>>) = 1 /\ <<d>>[1] = d
      BY <2>3
    <3>2. /\ cvReadQueue' \in Seq(Errand) /\ Len(cvReadQueue') = 1 + Len(Tail(cvReadQueue))
          /\ \A i \in 1..1 + Len(Tail(cvReadQueue)) :
               cvReadQueue'[i] = IF i <= 1 THEN <<d>>[i] ELSE Tail(cvReadQueue)[i - 1]
      BY <2>0, <2>5, <3>1, ConcatProperties
    <3>3. /\ Len(Tail(cvReadQueue)) \in Nat /\ DOMAIN Tail(cvReadQueue) = 1..Len(Tail(cvReadQueue))
          /\ DOMAIN cvReadQueue' = 1..1 + Len(Tail(cvReadQueue))
      BY <2>0, <3>2, RowsAre
    <3>4. ASSUME NEW k \in DOMAIN cvReadQueue', k # 1
          PROVE  \E j \in DOMAIN cvReadQueue : j # 1 /\ cvReadQueue'[k] = cvReadQueue[j]
      <4>1. k - 1 \in DOMAIN Tail(cvReadQueue) /\ k \in Nat /\ k - 1 + 1 = k
            /\ cvReadQueue'[k] = Tail(cvReadQueue)[k - 1]
        BY <3>2, <3>3, <3>4
      <4>2. k \in DOMAIN cvReadQueue /\ cvReadQueue'[k] = cvReadQueue[k]
        BY <2>0, <4>1
      <4> QED
        BY <3>4, <4>2
    <3>5. 1 \in DOMAIN cvReadQueue' => cvReadQueue'[1] = d
      BY <3>1, <3>2, <3>3
    <3> QED
      BY <3>2, <3>4, <3>5
  <2>8. /\ Len(referrals') <= MaxReferrals
        /\ \A m \in DOMAIN referrals :
             /\ referrals'[m].thanks = referrals[m].thanks
             /\ referrals[m].hurried <=> referrals'[m].hurried
    BY <2>1, <2>4, <2>6
  <2>9. (ReferralsTypeOK /\ Referring)'
    BY <1>t, <1>f, <2>6, <2>7, <2>8 DEF ReferralsTypeOK, Referring, LettersInv
  <2>10. ThanksOnce'
    <3>1. ASSUME NEW m \in DOMAIN referrals
          PROVE  referrals'[m].thanks <= 1 /\ (~referrals'[m].notified => referrals'[m].thanks = 0)
      <4>1. CASE m = n
        BY <4>1, <2>4, <2>6
      <4>2. CASE m # n
        BY <4>2, <2>6, <1>t DEF ThanksOnce
      <4> QED
        BY <4>1, <4>2
    <3> QED
      BY <3>1, <2>6 DEF ThanksOnce
  <2>11. QueueInOrder'
    <3>1. ASSUME NEW k \in DOMAIN cvReadQueue'
          PROVE  /\ cvReadQueue'[k].referral \in DOMAIN referrals
                 /\ cvReadQueue'[k].kind = "letters" => k = 1 /\ cvReadQueue'[k].referral = n
      <4>1. CASE k = 1 /\ cvReadQueue'[k] = d
        BY <4>1, <2>1, <2>3
      <4>2. ASSUME NEW j \in DOMAIN cvReadQueue, j # 1, cvReadQueue'[k] = cvReadQueue[j]
            PROVE  cvReadQueue'[k].referral \in DOMAIN referrals /\ cvReadQueue'[k].kind # "letters"
        BY <4>2, <1>t DEF QueueInOrder
      <4> QED
        BY <2>7, <4>1, <4>2
    <3>2. referrals'[n].notified /\ referrals'[n].thanks = 0
      BY <2>4, <2>6
    <3> QED
      BY <3>1, <3>2, <2>6 DEF QueueInOrder
  <2>12. Asked(n) /\ \A m : Asked(m)' => Asked(m)
    <3>1. \A e \in Errand : e.kind = "notice" => e = Notice(e.referral)
      BY DEF Errand, Notice
    <3>2. cvReadQueue[1] = Notice(n)
      BY <3>1, <2>0, <1>f
    <3>3. \A m : d # Notice(m)
      BY <2>3 DEF Notice
    <3> QED
      BY <2>0, <2>7, <3>2, <3>3 DEF Asked, Notice
  <2>13. ASSUME NEW m \in DOMAIN referrals
         PROVE  GoneQuiet(m)'
    <3>1. GoneQuiet(m) /\ (referrals'[m].notified => referrals[m].notified \/ Asked(m))
      BY <2>6, <2>12 DEF LettersInv
    <3>2. Of(m)' = Of(m) /\ UNCHANGED referred
      BY <1>f DEF Of
    <3> QED
      BY <2>8, <2>12, <3>1, <3>2 DEF GoneQuiet
  <2>14. Placed'
    BY <1>t, <1>f, <2>6, <2>8 DEF Placed
  <2>15. LateHurried'
    BY <1>f, <2>6, <2>8 DEF LettersInv, LateHurried, Referring
  <2>16. (\A s \in Senders : Young(s) /\ ToItself(s))'
    BY <1>f DEF LettersInv, Young, ToItself, Alone, AtWork, Of
  <2> QED
    BY <2>6, <2>9, <2>10, <2>11, <2>13, <2>14, <2>15, <2>16 DEF LettersInv
<1> QED
  <2>1. \/ cvReadQueue' = Tail(cvReadQueue) /\ UNCHANGED referrals
        \/ /\ Claimable(n) /\ referrals' = [referrals EXCEPT ![n].notified = TRUE]
           /\ cvReadQueue' = <<[kind |-> "letters", referral |-> n]>> \o Tail(cvReadQueue)
    BY DEF ClaimNotice
  <2> QED
    BY <2>1, <1>1, <1>2

LEMMA RemoveKeeps ==
  ASSUME LettersInv, NEW c \in DOMAIN referred, RemoveReferred(c)
  PROVE  LettersInv'
<1>t. ReferralsTypeOK /\ Placed /\ QueueInOrder
  BY DEF LettersInv
<1>f. /\ UNCHANGED <<referrals, cvReadQueue, sending>> /\ PeopleStand
      /\ \A d \in DOMAIN referred : referred'[d].age = referred[d].age
  BY <1>t, RemoveFacts
<1>o. \A n : Of(n)' = Of(n) /\ Of(n) \subseteq DOMAIN referred
  BY <1>f, OfStands DEF Of
<1>1. (ReferralsTypeOK /\ Placed /\ QueueInOrder /\ ThanksOnce)'
  BY <1>t, <1>f DEF LettersInv, ReferralsTypeOK, Placed, QueueInOrder, ThanksOnce, PeopleStand
<1>2. (Referring /\ LateHurried)'
  BY <1>f DEF LettersInv, Referring, LateHurried, PeopleStand
<1>3. ASSUME NEW s \in Senders
      PROVE  (Young(s) /\ ToItself(s))'
  <2>0. Young(s) /\ ToItself(s)
    BY DEF LettersInv
  <2> PICK n : n = sending[s].referral
    OBVIOUS
  <2>1. Young(s)'
    <3>1. Alone(s) /\ ~sending[s].isNew =>
            \E d \in Of(n)' : referred'[d].age <= IF sending[s].ticked THEN JoinFor ELSE JoinFor - 1
      BY <1>f, <1>o, <2>0 DEF Young
    <3> QED
      BY <1>f, <3>1 DEF Young, Alone, Of
  <2>2. ToItself(s)'
    BY <1>f, <1>o, <2>0 DEF ToItself, Alone, AtWork, Of, PeopleStand
  <2> QED
    BY <2>1, <2>2
<1>4. ASSUME NEW n \in DOMAIN referrals
      PROVE  GoneQuiet(n)'
  <2>1. GoneQuiet(n) /\ (Asked(n)' <=> Asked(n))
    BY <1>f DEF LettersInv, Asked
  <2> QED
    BY <1>f, <1>o, <2>1 DEF GoneQuiet
<1> QED
  BY <1>f, <1>1, <1>2, <1>3, <1>4 DEF LettersInv

LEMMA TickKeeps ==
  ASSUME LettersInv, Tick
  PROVE  LettersInv'
<1>t. ReferralsTypeOK /\ Placed /\ QueueInOrder
  BY DEF LettersInv
<1>f. /\ UNCHANGED <<referrals, cvReadQueue>> /\ PeopleStand
      /\ \A c \in DOMAIN referred :
           referred'[c].age = IF referred[c].age < QuietFor THEN referred[c].age + 1 ELSE referred[c].age
      /\ sending' \in [Senders -> Sending]
      /\ \A s \in Senders :
           /\ sending'[s].step = sending[s].step /\ sending'[s].left = sending[s].left
           /\ sending'[s].referral = sending[s].referral
           /\ sending'[s].alone <=> sending[s].alone
           /\ sending'[s].isNew <=> sending[s].isNew
           /\ sending'[s].created <=> sending[s].created
           /\ sending'[s].ticked <=> sending[s].alone /\ sending[s].step \in {"make", "add"}
           /\ sending[s].alone => ~sending[s].ticked
  BY <1>t, TickFacts
<1>o. \A n : Of(n)' = Of(n) /\ Of(n) \subseteq DOMAIN referred
  BY <1>f, OfStands DEF Of
<1>a. \A c \in DOMAIN referred : referred[c].age \in 0..QuietFor
  BY <1>t, TypeParts
<1>1. (ReferralsTypeOK /\ QueueInOrder /\ ThanksOnce)'
  BY <1>t, <1>f DEF LettersInv, ReferralsTypeOK, QueueInOrder, ThanksOnce, PeopleStand
<1>p. Placed'
  BY <1>t, <1>f DEF Placed
<1>2. (Referring /\ LateHurried)'
  BY <1>f DEF LettersInv, Referring, LateHurried, PeopleStand
<1>3. ASSUME NEW s \in Senders
      PROVE  (Young(s) /\ ToItself(s))'
  <2>0. Young(s) /\ ToItself(s)
    BY DEF LettersInv
  <2> PICK n : n = sending[s].referral
    OBVIOUS
  <2>1. Young(s)'
    <3>1. ASSUME Alone(s), ~sending[s].isNew
          PROVE  sending'[s].ticked /\ \E d \in Of(n)' : referred'[d].age <= JoinFor
      <4>1. PICK d \in Of(n) : referred[d].age <= JoinFor - 1
        BY <1>f, <2>0, <3>1 DEF Young, Alone
      <4>2. d \in DOMAIN referred /\ referred[d].age \in 0..QuietFor
        BY <1>o, <1>a
      <4>3. referred'[d].age <= JoinFor
        BY <1>f, <4>1, <4>2, Windows
      <4> QED
        BY <1>f, <1>o, <3>1, <4>3 DEF Alone
    <3> QED
      BY <1>f, <3>1 DEF Young, Alone, Of
  <2>2. ToItself(s)'
    BY <1>f, <1>o, <2>0 DEF ToItself, Alone, AtWork, Of, PeopleStand
  <2> QED
    BY <2>1, <2>2
<1>4. ASSUME NEW n \in DOMAIN referrals
      PROVE  GoneQuiet(n)'
  <2>1. GoneQuiet(n) /\ (Asked(n)' <=> Asked(n))
    BY <1>f DEF LettersInv, Asked
  <2>2. \A c \in Of(n) : referred[c].age >= QuietFor => referred'[c].age >= QuietFor
    BY <1>f, <1>o, <1>a, Windows
  <2> QED
    BY <1>f, <1>o, <2>1, <2>2 DEF GoneQuiet
<1> QED
  BY <1>f, <1>1, <1>p, <1>2, <1>3, <1>4 DEF LettersInv

LEMMA RestartKeeps ==
  ASSUME LettersInv, RestartReferrals
  PROVE  LettersInv'
<1>t. ReferralsTypeOK
  BY DEF LettersInv
<1>f. /\ UNCHANGED <<referrals, referred>> /\ cvReadQueue' = <<>>
      /\ sending' = [s \in Senders |-> NotSending]
  BY DEF RestartReferrals
<1>s. sending' \in [Senders -> Sending] /\ \A s \in Senders : sending'[s].step = "none"
  BY <1>f, NotSendingType
<1>q. cvReadQueue' \in Seq(Errand) /\ DOMAIN cvReadQueue' = {}
  BY <1>f
<1>1. ReferralsTypeOK'
  BY <1>t, <1>f, <1>s, <1>q DEF ReferralsTypeOK
<1>2. (Placed /\ \A s \in Senders : Young(s) /\ ToItself(s))'
  BY <1>s DEF Placed, Young, ToItself, Alone
<1>3. (Referring /\ ThanksOnce /\ LateHurried)'
  BY <1>f DEF LettersInv, Referring, ThanksOnce, LateHurried
<1>4. (QueueInOrder /\ \A n \in DOMAIN referrals : GoneQuiet(n))'
  BY <1>f, <1>q DEF LettersInv, QueueInOrder, GoneQuiet, Asked, Of
<1> QED
  BY <1>1, <1>2, <1>3, <1>4 DEF LettersInv

LEMMA LettersAtInit ==
  ASSUME ReferralsInit
  PROVE  LettersInv
<1>f. /\ referrals = <<>> /\ referred = <<>> /\ cvReadQueue = <<>>
      /\ sending = [s \in Senders |-> NotSending]
  BY DEF ReferralsInit
<1>s. sending \in [Senders -> Sending] /\ \A s \in Senders : sending[s].step = "none"
  BY <1>f, NotSendingType
<1>1. ReferralsTypeOK
  BY <1>f, <1>s, Windows DEF ReferralsTypeOK
<1>2. Placed /\ \A s \in Senders : Young(s) /\ ToItself(s)
  BY <1>s DEF Placed, Young, ToItself, Alone
<1>3. Referring /\ ThanksOnce /\ LateHurried /\ QueueInOrder /\ \A n \in DOMAIN referrals : GoneQuiet(n)
  BY <1>f DEF Referring, ThanksOnce, LateHurried, QueueInOrder
<1> QED
  BY <1>1, <1>2, <1>3 DEF LettersInv

(* Whatever the senders, the queue, the sweep and a restart do, a referring     *)
(* employee is written to once, and nobody sent in alone joins a referral whose *)
(* letters are claimed unless it did not wait to be quiet (candidates.service,  *)
(* candidate-mail.service, referral-window).                                    *)
THEOREM LettersTheorem == ReferralsSpec => [](ReferralsTypeOK /\ LettersWhole)
<1>1. ReferralsInit => LettersInv
  BY LettersAtInit
<1>2. LettersInv /\ [ReferralsNext]_rvars => LettersInv'
  <2> SUFFICES ASSUME LettersInv, [ReferralsNext]_rvars
               PROVE  LettersInv'
    OBVIOUS
  <2>1. ASSUME NEW s \in Senders, SendOne(s) \/ SendMany(s)
        PROVE  LettersInv'
    BY <2>1, FindKeeps
  <2>2. ASSUME NEW s \in Senders, MakeReferral(s)
        PROVE  LettersInv'
    BY <2>2, MakeKeeps
  <2>3. ASSUME NEW s \in Senders, AddReferred(s)
        PROVE  LettersInv'
    BY <2>3, ReferKeeps
  <2>4. ASSUME NEW s \in Senders, CvFails(s) \/ FinishBatch(s)
        PROVE  LettersInv'
    BY <2>4, FailKeeps, FinishKeeps
  <2>5. CASE SendOverdueReferralNotices
    BY <2>5, SweepKeeps
  <2>6. CASE ReadCv \/ ClaimNotice \/ SendThanks
    BY <2>6, CvReadKeeps, ClaimKeeps, ThanksKeep
  <2>7. ASSUME NEW c \in DOMAIN referred, RemoveReferred(c)
        PROVE  LettersInv'
    BY <2>7, RemoveKeeps
  <2>8. CASE Tick \/ RestartReferrals
    BY <2>8, TickKeeps, RestartKeeps
  <2>9. CASE UNCHANGED rvars
    <3>0. UNCHANGED <<referrals, referred, cvReadQueue, sending>>
      BY <2>9 DEF rvars
    <3>1. (ReferralsTypeOK /\ Placed /\ QueueInOrder /\ ThanksOnce)'
      BY <3>0 DEF LettersInv, ReferralsTypeOK, Placed, QueueInOrder, ThanksOnce
    <3>2. (Referring /\ LateHurried)'
      BY <3>0 DEF LettersInv, Referring, LateHurried
    <3>3. (\A s \in Senders : Young(s) /\ ToItself(s))'
      BY <3>0 DEF LettersInv, Young, ToItself, Alone, AtWork, Of
    <3>4. (\A n \in DOMAIN referrals : GoneQuiet(n))'
      BY <3>0 DEF LettersInv, GoneQuiet, Asked, Of
    <3> QED
      BY <3>1, <3>2, <3>3, <3>4 DEF LettersInv
  <2> QED
    BY <2>1, <2>2, <2>3, <2>4, <2>5, <2>6, <2>7, <2>8, <2>9 DEF ReferralsNext
<1>3. LettersInv => ReferralsTypeOK /\ LettersWhole
  BY DEF LettersInv, LettersWhole, ThanksOnce, LateHurried
<1> QED
  BY <1>1, <1>2, <1>3, PTL DEF ReferralsSpec
=============================================================================
