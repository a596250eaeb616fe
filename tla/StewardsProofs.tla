--------------------------- MODULE StewardsProofs ---------------------------
(***************************************************************************)
(* Theorems of Stewards for any people, requests and leaves, and of        *)
(* Dossier for any levels, facilities and files.                           *)
(*                                                                         *)
(* `StewardsInv` adds to the properties that a request which is to hand    *)
(* over knows whose leave it is for (`Bearers`), and that every look at    *)
(* the rows under way, unless it was overtaken, saw who is away            *)
(* (`LooksKnow`): what the process remembers is always a look that ended.  *)
(*                                                                         *)
(* `DossierInv` adds what each request in flight may write (`JobsFit`),    *)
(* that no two uploads under way share a name (`Announced`), and, as long  *)
(* as no request was overtaken, that an upload goes to the folder the row  *)
(* names, under an id of its own, and is not listed yet (`JobsTidy`).      *)
(***************************************************************************)
EXTENDS Stewards, Dossier, TLAPS

-----------------------------------------------------------------------------
(* Stewards *)

(* A request past the creation of a leave names its row and, if it is to hand over, the
   one who took it; a request that ends a leave names a row that is there. *)
Bearers ==
  \A r \in Requests :
    /\ req[r].step \in {"invalidate", "look", "cover", "commitCover"} /\ req[r].choice # {} =>
         /\ req[r].leave \in DOMAIN leaves
         /\ req[r].who = {leaves[req[r].leave].who}
    /\ At(r, "create") => req[r].who # {}
    /\ At(r, "commitEnd") => req[r].leave \in DOMAIN leaves /\ req[r].choice = {}

Covers == \A c \in cover : c.leave \in DOMAIN leaves

(* `known` has everybody who is away, and beside them only people whose leave lapsed. *)
Knows(known) ==
  /\ Away \subseteq known
  /\ \A p \in known \ Away : \E l \in DOMAIN leaves :
       leaves[l].who = p /\ leaves[l].past /\ ~leaves[l].over

Settled == inTurn /\ \A r \in Requests : ~At(r, "invalidate")

LooksKnow ==
  Settled =>
    /\ \A known \in remembered : Knows(known)
    /\ \A r \in Requests : (At(r, "store") \/ At(r, "cover")) /\ req[r].fresh => Knows(req[r].saw)

(* No more leaves are taken than the bound says. *)
Numbered == Len(leaves) <= MaxLeaves

StewardsInv ==
  /\ StewardsOK
  /\ Numbered
  /\ Bearers
  /\ Covers
  /\ CoverStandsIn
  /\ LooksKnow

(* What a request that is in flight may be, given the rows. *)
Bears(v, rows) ==
  /\ v.step \in {"invalidate", "look", "cover", "commitCover"} /\ v.choice # {} =>
       v.leave \in DOMAIN rows /\ v.who = {rows[v.leave].who}
  /\ v.step = "create" => v.who # {}
  /\ v.step = "commitEnd" => v.leave \in DOMAIN rows /\ v.choice = {}

LEMMA BearersIsAll == Bearers <=> \A r \in Requests : Bears(req[r], leaves)
BY DEF Bearers, Bears, At

(* Rows are only added, and keep their owner, so that one request moves alone. *)
LEMMA OneMoves ==
  ASSUME StewardsOK, Bearers, NEW r \in Requests, NEW v \in Request,
         leaves' \in Seq(Leave),
         \A l \in DOMAIN leaves : l \in DOMAIN leaves' /\ leaves'[l].who = leaves[l].who,
         Bears(v, leaves'),
         req' = [req EXCEPT ![r] = v]
  PROVE  req' \in [Requests -> Request] /\ Bearers'
<1>1. req \in [Requests -> Request] /\ leaves \in Seq(Leave)
  BY DEF StewardsOK
<1>2. \A q \in Requests : Bears(req[q], leaves)
  BY BearersIsAll
<1>3. \A q \in Requests : Bears(req[q], leaves')
  BY <1>2 DEF Bears
<1>4. \A q \in Requests : req'[q] = IF q = r THEN v ELSE req[q]
  BY <1>1
<1>5. \A q \in Requests : Bears(req'[q], leaves')
  BY <1>3, <1>4
<1>6. Bearers'
  BY <1>5 DEF Bearers, Bears, At
<1> QED
  BY <1>1, <1>6

(* Where the rows and what is remembered stay as they are, and one request moves that
   invalidates nothing and has seen no more than the rows tell, every look goes on. *)
LEMMA LooksStay ==
  ASSUME StewardsOK, LooksKnow, NEW r \in Requests, NEW v \in Request,
         leaves' = leaves, inTurn' => inTurn,
         ~At(r, "invalidate"), v.step # "invalidate",
         req' = [req EXCEPT ![r] = v],
         Settled /\ inTurn' => \A known \in remembered' : Knows(known),
         Settled /\ v.step \in {"store", "cover"} /\ v.fresh => Knows(v.saw)
  PROVE  LooksKnow'
<1>1. req \in [Requests -> Request]
  BY DEF StewardsOK
<1>2. \A q \in Requests : req'[q] = IF q = r THEN v ELSE req[q]
  BY <1>1
<1>3. SUFFICES ASSUME Settled'
      PROVE  /\ \A known \in remembered' : Knows(known)'
             /\ \A q \in Requests :
                  (At(q, "store") \/ At(q, "cover"))' /\ req'[q].fresh => Knows(req[q].saw)'
  BY DEF LooksKnow
<1>4. Settled /\ inTurn'
  BY <1>2, <1>3 DEF Settled, At
<1>5. \A known : Knows(known) => Knows(known)'
  BY DEF Knows, Away, ActiveLeaves, Active
<1>6. \A known \in remembered' : Knows(known)'
  BY <1>4, <1>5
<1>7. ASSUME NEW q \in Requests, (At(q, "store") \/ At(q, "cover"))', req'[q].fresh
      PROVE  Knows(req[q].saw)'
  <2>1. CASE q = r
    <3>1. Knows(v.saw)
      BY <1>2, <1>4, <1>7, <2>1 DEF At
    <3>2. req'[q].saw = v.saw
      BY <1>2, <2>1
    <3> QED
      BY <3>1, <3>2 DEF Knows, Away, ActiveLeaves, Active
  <2>2. CASE q # r
    <3>1. req'[q] = req[q]
      BY <1>2, <2>2
    <3>2. Knows(req[q].saw)
      BY <1>4, <1>7, <3>1 DEF LooksKnow, At
    <3> QED
      BY <3>1, <3>2 DEF Knows, Away, ActiveLeaves, Active
  <2> QED
    BY <2>1, <2>2
<1> QED
  BY <1>6, <1>7

(* The cover stands as long as neither it nor the recruiter nor the end of a leave moves. *)
LEMMA CoverStays ==
  ASSUME StewardsOK, Covers, CoverStandsIn, inTurn' => inTurn,
         recruiter' = recruiter, cover' \subseteq cover,
         \A l \in DOMAIN leaves :
           /\ l \in DOMAIN leaves' /\ leaves'[l].who = leaves[l].who
           /\ (\E c \in cover' : c.leave = l) => (leaves'[l].over <=> leaves[l].over)
  PROVE  Covers' /\ CoverStandsIn'
<1>1. \A c \in cover' : c \in cover /\ c.leave \in DOMAIN leaves
  BY DEF Covers
<1>2. Covers'
  BY <1>1 DEF Covers
<1>3. ASSUME inTurn', NEW c \in cover'
      PROVE  recruiter' = {leaves'[c.leave].who} /\ ~leaves'[c.leave].over
  BY <1>1, <1>3 DEF CoverStandsIn
<1> QED
  BY <1>2, <1>3 DEF CoverStandsIn

(* A request that moves while all else about leaves stays. *)
LEMMA MovesAlone ==
  ASSUME StewardsInv, NEW r \in Requests, NEW v \in Request,
         req' = [req EXCEPT ![r] = v], Bears(v, leaves),
         ~At(r, "invalidate"), v.step # "invalidate",
         Settled /\ v.step \in {"store", "cover"} /\ v.fresh => Knows(v.saw),
         UNCHANGED <<recruiter, cover, leaves, remembered, inTurn>>,
         stage' \in Stages, author' \in Optional(People), sourced' \in BOOLEAN, moves' \in Nat
  PROVE  StewardsInv'
<1>1. StewardsOK /\ Numbered /\ Bearers /\ Covers /\ CoverStandsIn /\ LooksKnow
  BY DEF StewardsInv
<1>2. leaves' \in Seq(Leave) /\ leaves' = leaves
  BY <1>1 DEF StewardsOK
<1>3. req' \in [Requests -> Request] /\ Bearers'
  BY <1>1, <1>2, OneMoves
<1>4. Settled /\ inTurn' => \A known \in remembered' : Knows(known)
  BY <1>1 DEF LooksKnow
<1>5. LooksKnow'
  BY <1>1, <1>4, LooksStay
<1>6. Covers' /\ CoverStandsIn'
  BY <1>1, <1>2, CoverStays
<1>7. StewardsOK'
  BY <1>1, <1>3 DEF StewardsOK
<1>8. Numbered'
  BY <1>1, <1>2 DEF Numbered
<1> QED
  BY <1>3, <1>5, <1>6, <1>7, <1>8 DEF StewardsInv

(* A row that changes leaves the others as they are. *)
LEMMA RowChanges ==
  ASSUME NEW rows \in Seq(Leave), NEW l \in DOMAIN rows, NEW row \in Leave
  PROVE  /\ [rows EXCEPT ![l] = row] \in Seq(Leave)
         /\ Len([rows EXCEPT ![l] = row]) = Len(rows)
         /\ DOMAIN [rows EXCEPT ![l] = row] = DOMAIN rows
         /\ \A m \in DOMAIN rows : [rows EXCEPT ![l] = row][m] = IF m = l THEN row ELSE rows[m]
OBVIOUS

LEMMA IdleIsRequest == Idle \in Request
BY MovesAssumption DEF Idle, Request, Steps, Optional

(* Nobody else than people is ever away, and nobody is whom the rows do not name. *)
LEMMA AwayArePeople ==
  ASSUME StewardsOK
  PROVE  Away \in SUBSET People /\ Knows(Away)
<1>1. \A l \in DOMAIN leaves : leaves[l] \in Leave
  BY DEF StewardsOK
<1>2. \A l \in ActiveLeaves : leaves[l].who \in People
  BY <1>1 DEF ActiveLeaves, Leave
<1>3. Away \subseteq People
  BY <1>2 DEF Away
<1> QED
  BY <1>3 DEF Knows

(* What routing is told is what the rows tell, unless a look was overtaken. *)
LEMMA ToldAsItIs ==
  ASSUME StewardsOK, LooksKnow
  PROVE  OnLeave \in SUBSET People /\ (Settled => Knows(OnLeave))
<1>1. CASE remembered = {}
  BY <1>1, AwayArePeople DEF OnLeave
<1>2. CASE remembered # {}
  <2>1. PICK known \in SUBSET People : remembered = {known}
    BY <1>2 DEF StewardsOK, Optional
  <2>2. OnLeave = known
    BY <1>2, <2>1 DEF OnLeave
  <2> QED
    BY <2>1, <2>2 DEF LooksKnow
<1> QED
  BY <1>1, <1>2

(* The steps *)

LEMMA LookAwayKeeps ==
  ASSUME StewardsInv, NEW r \in Requests, LookAway(r)
  PROVE  StewardsInv'
<1> DEFINE v == [Idle EXCEPT !.step = "store", !.saw = Away]
<1>1. v \in Request /\ Bears(v, leaves) /\ v.step = "store" /\ v.saw = Away
  BY IdleIsRequest, AwayArePeople DEF StewardsInv, Idle, Request, Steps, Bears
<1>2. StewardsOK /\ Knows(v.saw) /\ At(r, "none")
  BY <1>1, AwayArePeople DEF StewardsInv, LookAway
<1> QED
  BY <1>1, <1>2, MovesAlone DEF LookAway, StewardsOK, At

LEMMA StartLeaveKeeps ==
  ASSUME StewardsInv, NEW r \in Requests, StartLeave(r)
  PROVE  StewardsInv'
<1>1. PICK p \in People, choice \in Optional(People) :
        Ask(r, [Idle EXCEPT !.step = "create", !.who = {p}, !.choice = choice])
  BY DEF StartLeave
<1> DEFINE v == [Idle EXCEPT !.step = "create", !.who = {p}, !.choice = choice]
<1>2. v \in Request /\ Bears(v, leaves) /\ v.step = "create"
  BY IdleIsRequest DEF Idle, Request, Steps, Bears, Optional
<1>3. StewardsOK /\ At(r, "none") /\ req' = [req EXCEPT ![r] = v] /\ moves' \in Nat
  BY <1>1 DEF StewardsInv, StewardsOK, Ask
<1> QED
  BY <1>2, <1>3, MovesAlone DEF StartLeave, StewardsOK, At

LEMMA EndLeaveKeeps ==
  ASSUME StewardsInv, NEW r \in Requests, EndLeave(r)
  PROVE  StewardsInv'
<1>1. PICK p \in People : \E l \in ActivePeriod(p) :
        Ask(r, [Idle EXCEPT !.step = "commitEnd", !.leave = l])
  BY DEF EndLeave
<1>2. PICK l \in ActivePeriod(p) : Ask(r, [Idle EXCEPT !.step = "commitEnd", !.leave = l])
  BY <1>1
<1> DEFINE v == [Idle EXCEPT !.step = "commitEnd", !.leave = l]
<1>3. StewardsOK /\ Numbered /\ l \in DOMAIN leaves
  BY DEF StewardsInv, ActivePeriod, ActiveLeaves
<1>4. l \in 0 .. MaxLeaves
  BY <1>3, MovesAssumption DEF StewardsOK, Numbered
<1>5. v \in Request /\ v.step = "commitEnd" /\ v.leave = l /\ v.choice = {}
  BY <1>4, IdleIsRequest DEF Idle, Request, Steps
<1>6. Bears(v, leaves)
  BY <1>3, <1>5 DEF Bears
<1>7. At(r, "none") /\ req' = [req EXCEPT ![r] = v] /\ moves' \in Nat
  BY <1>2, <1>3 DEF StewardsOK, Ask
<1> QED
  BY <1>3, <1>5, <1>6, <1>7, MovesAlone DEF EndLeave, StewardsOK, At

LEMMA AssignRecruiterKeeps ==
  ASSUME StewardsInv, NEW r \in Requests, AssignRecruiter(r)
  PROVE  StewardsInv'
<1>1. PICK choice \in Optional(Recruiters) :
        Ask(r, [Idle EXCEPT !.step = "commitAssign", !.choice = choice])
  BY DEF AssignRecruiter
<1> DEFINE v == [Idle EXCEPT !.step = "commitAssign", !.choice = choice]
<1>2. v \in Request /\ Bears(v, leaves) /\ v.step = "commitAssign"
  BY IdleIsRequest DEF Idle, Request, Steps, Bears, Optional, People
<1>3. StewardsOK /\ At(r, "none") /\ req' = [req EXCEPT ![r] = v] /\ moves' \in Nat
  BY <1>1 DEF StewardsInv, StewardsOK, Ask
<1> QED
  BY <1>2, <1>3, MovesAlone DEF AssignRecruiter, StewardsOK, At

LEMMA ReadAwayKeeps ==
  ASSUME StewardsInv, NEW r \in Requests, ReadAway(r)
  PROVE  StewardsInv'
<1> DEFINE v == [req[r] EXCEPT !.step = "cover", !.saw = OnLeave, !.fresh = TRUE]
<1>1. StewardsOK /\ Bearers /\ LooksKnow /\ At(r, "look") /\ req[r] \in Request
  BY DEF StewardsInv, StewardsOK, ReadAway
<1>2. OnLeave \in SUBSET People /\ (Settled => Knows(OnLeave))
  BY <1>1, ToldAsItIs
<1>3. v \in Request /\ v.step = "cover" /\ v.saw = OnLeave
        /\ v.choice = req[r].choice /\ v.who = req[r].who /\ v.leave = req[r].leave
  BY <1>1, <1>2 DEF Request, Steps
<1>4. Bears(v, leaves)
  BY <1>1, <1>3 DEF Bears, Bearers, At
<1> QED
  BY <1>1, <1>2, <1>3, <1>4, MovesAlone DEF ReadAway, StewardsOK, At

(* What moves no request, no leave and no recruiter. *)
LEMMA ElsewhereKeeps ==
  ASSUME StewardsInv, UNCHANGED <<recruiter, cover, leaves, remembered, req, inTurn>>,
         stage' \in Stages, author' \in Optional(People), sourced' \in BOOLEAN, moves' \in Nat
  PROVE  StewardsInv'
BY DEF StewardsInv, StewardsOK, Numbered, Bearers, Covers, CoverStandsIn, LooksKnow, Settled,
       Knows, Away, ActiveLeaves, Active, At

LEMMA ForgetAwayKeeps ==
  ASSUME StewardsInv, ForgetAway
  PROVE  StewardsInv'
BY DEF ForgetAway, StewardsInv, StewardsOK, Optional, Numbered, Bearers, Covers, CoverStandsIn,
       LooksKnow, Settled, Knows, Away, ActiveLeaves, Active, At

LEMMA StoreAwayKeeps ==
  ASSUME StewardsInv, NEW r \in Requests, StoreAway(r)
  PROVE  StewardsInv'
<1>1. StewardsOK /\ Numbered /\ Bearers /\ Covers /\ CoverStandsIn /\ LooksKnow
  BY DEF StewardsInv
<1>2. /\ leaves' = leaves /\ leaves' \in Seq(Leave) /\ recruiter' = recruiter /\ cover' = cover
      /\ inTurn' = (inTurn /\ req[r].fresh) /\ At(r, "store") /\ remembered' = {req[r].saw}
      /\ req' = [req EXCEPT ![r] = Idle]
  BY <1>1 DEF StoreAway, Stays, StewardsOK
<1>3. Idle.step = "none" /\ Bears(Idle, leaves')
  BY DEF Idle, Bears
<1>4. req' \in [Requests -> Request] /\ Bearers'
  BY <1>1, <1>2, <1>3, IdleIsRequest, OneMoves
<1>5. Settled /\ inTurn' => \A known \in remembered' : Knows(known)
  BY <1>1, <1>2 DEF LooksKnow, At
<1>6. LooksKnow'
  BY <1>1, <1>2, <1>3, <1>5, IdleIsRequest, LooksStay DEF At
<1>7. Covers' /\ CoverStandsIn'
  BY <1>1, <1>2, CoverStays
<1>8. req[r].saw \in SUBSET People
  BY <1>1 DEF StewardsOK, Request
<1>9. remembered' \in Optional(SUBSET People)
  BY <1>2, <1>8 DEF Optional
<1>10. inTurn' \in BOOLEAN
  BY <1>2
<1>11. StewardsOK' /\ Numbered'
  BY <1>1, <1>2, <1>4, <1>9, <1>10 DEF StoreAway, StewardsOK, Numbered
<1> QED
  BY <1>4, <1>6, <1>7, <1>11 DEF StewardsInv

LEMMA LapseKeeps ==
  ASSUME StewardsInv, Lapse
  PROVE  StewardsInv'
<1>1. StewardsOK /\ Numbered /\ Bearers /\ Covers /\ CoverStandsIn /\ LooksKnow
  BY DEF StewardsInv
<1>2. PICK l \in ActiveLeaves : leaves' = [leaves EXCEPT ![l].past = TRUE]
  BY DEF Lapse
<1>3. leaves \in Seq(Leave) /\ l \in DOMAIN leaves /\ Active(l)
  BY <1>1, <1>2 DEF StewardsOK, ActiveLeaves
<1> DEFINE row == [leaves[l] EXCEPT !.past = TRUE]
<1>r. leaves[l] \in Leave
  BY <1>3
<1>a. row \in Leave /\ row.who = leaves[l].who /\ row.over = leaves[l].over /\ row.past
  BY <1>r DEF Leave
<1>b. leaves' = [leaves EXCEPT ![l] = row]
  BY <1>2
<1> HIDE DEF row
<1>4. leaves' \in Seq(Leave) /\ Len(leaves') = Len(leaves) /\ DOMAIN leaves' = DOMAIN leaves
  BY <1>3, <1>a, <1>b, RowChanges
<1>5. \A m \in DOMAIN leaves :
        /\ leaves'[m].who = leaves[m].who
        /\ leaves'[m].over = leaves[m].over
        /\ leaves'[m].past = IF m = l THEN TRUE ELSE leaves[m].past
  BY <1>3, <1>a, <1>b, RowChanges
<1>6. \A known : Knows(known) => Knows(known)'
  <2> TAKE known
  <2> HAVE Knows(known)
  <2>1. Away' \subseteq Away
    <3>1. \A m \in ActiveLeaves' : m \in ActiveLeaves /\ leaves'[m].who = leaves[m].who
      BY <1>4, <1>5 DEF ActiveLeaves, Active
    <3> QED
      BY <3>1 DEF Away
  <2>2. Away' \subseteq known
    BY <2>1 DEF Knows
  <2>3. ASSUME NEW p \in known, p \notin Away'
        PROVE  \E m \in DOMAIN leaves' : leaves'[m].who = p /\ leaves'[m].past /\ ~leaves'[m].over
    <3>1. CASE p \in Away
      <4>1. PICK m \in DOMAIN leaves : leaves[m].who = p /\ Active(m)
        BY <3>1 DEF Away, ActiveLeaves
      <4>2. m = l
        BY <1>4, <1>5, <2>3, <4>1 DEF Away, ActiveLeaves, Active
      <4> QED
        BY <1>3, <1>4, <1>5, <4>1, <4>2 DEF Active
    <3>2. CASE p \notin Away
      <4>1. PICK m \in DOMAIN leaves : leaves[m].who = p /\ leaves[m].past /\ ~leaves[m].over
        BY <2>3, <3>2 DEF Knows
      <4> QED
        BY <1>4, <1>5, <4>1
    <3> QED
      BY <3>1, <3>2
  <2> QED
    BY <2>2, <2>3 DEF Knows
<1>7. /\ UNCHANGED <<stage, author, sourced, recruiter, cover, remembered, req, moves, inTurn>>
      /\ \A r \in Requests : \A step : At(r, step)' <=> At(r, step)
  BY DEF Lapse, At
<1>8. LooksKnow'
  BY <1>1, <1>6, <1>7 DEF LooksKnow, Settled
<1>9. Covers' /\ CoverStandsIn'
  BY <1>1, <1>4, <1>5, <1>7, CoverStays
<1>10. Bearers'
  BY <1>1, <1>4, <1>5, <1>7 DEF Bearers
<1>11. StewardsOK' /\ Numbered'
  BY <1>1, <1>4, <1>7 DEF StewardsOK, Numbered
<1> QED
  BY <1>8, <1>9, <1>10, <1>11 DEF StewardsInv

(* While a leave is half recorded nothing is claimed of the looks at the rows. *)
LEMMA Unsettled ==
  ASSUME NEW r \in Requests, At(r, "invalidate")'
  PROVE  LooksKnow'
BY DEF LooksKnow, Settled

LEMMA CreateLeaveKeeps ==
  ASSUME StewardsInv, NEW r \in Requests, CreateLeave(r)
  PROVE  StewardsInv'
<1>1. StewardsOK /\ Numbered /\ Bearers /\ Covers /\ CoverStandsIn
  BY DEF StewardsInv
<1>2. PICK p \in req[r].who :
        /\ leaves' = Append(leaves, [who |-> p, past |-> FALSE, over |-> FALSE])
        /\ Stays(p \notin Away)
  BY DEF CreateLeave
<1>3. req[r] \in Request /\ leaves \in Seq(Leave) /\ inTurn \in BOOLEAN
  BY <1>1 DEF StewardsOK
<1>4. p \in People /\ req[r].who = {p}
  BY <1>2, <1>3 DEF Request, Optional
<1>5. /\ leaves' \in Seq(Leave) /\ Len(leaves') = Len(leaves) + 1
      /\ Len(leaves') \in DOMAIN leaves' /\ leaves'[Len(leaves')].who = p
      /\ \A l \in DOMAIN leaves : l \in DOMAIN leaves' /\ leaves'[l] = leaves[l]
  BY <1>2, <1>3, <1>4 DEF Leave
<1> DEFINE v == [req[r] EXCEPT !.step = "invalidate", !.leave = Len(leaves')]
<1>6. Len(leaves') \in 1 .. MaxLeaves
  BY <1>3, <1>5, MovesAssumption DEF CreateLeave
<1>7. v \in Request
  <2>1. Len(leaves') \in 0 .. MaxLeaves
    BY <1>6
  <2> QED
    BY <1>3, <2>1 DEF Request, Steps
<1>8. v.step = "invalidate" /\ v.leave = Len(leaves') /\ v.who = {p}
  BY <1>3, <1>4 DEF Request
<1>9. Bears(v, leaves')
  BY <1>5, <1>8 DEF Bears
<1>10. req' = [req EXCEPT ![r] = v]
  BY DEF CreateLeave
<1>11. req' \in [Requests -> Request] /\ Bearers'
  BY <1>1, <1>5, <1>7, <1>9, <1>10, OneMoves
<1>12. At(r, "invalidate")'
  BY <1>1, <1>8, <1>10 DEF At, StewardsOK
<1>13. inTurn' \in BOOLEAN /\ (inTurn' => inTurn)
  BY <1>2, <1>3 DEF Stays
<1>14. recruiter' = recruiter /\ cover' = cover
  BY DEF CreateLeave
<1>15. Covers' /\ CoverStandsIn'
  BY <1>1, <1>5, <1>13, <1>14, CoverStays
<1>16. StewardsOK' /\ Numbered'
  BY <1>1, <1>5, <1>6, <1>11, <1>13 DEF StewardsOK, Numbered, CreateLeave
<1> QED
  BY <1>11, <1>12, <1>15, <1>16, Unsettled DEF StewardsInv

LEMMA CommitEndKeeps ==
  ASSUME StewardsInv, NEW r \in Requests, CommitEnd(r)
  PROVE  StewardsInv'
<1>1. StewardsOK /\ Numbered /\ Bearers /\ Covers /\ CoverStandsIn
  BY DEF StewardsInv
<1>2. req[r] \in Request /\ leaves \in Seq(Leave)
  BY <1>1 DEF StewardsOK
<1>3. req[r].leave \in DOMAIN leaves /\ req[r].choice = {}
  BY <1>1 DEF CommitEnd, Bearers
<1>4. leaves' = [leaves EXCEPT ![req[r].leave].over = TRUE]
  BY DEF CommitEnd
<1> DEFINE row == [leaves[req[r].leave] EXCEPT !.over = TRUE]
<1>r. leaves[req[r].leave] \in Leave
  BY <1>2, <1>3
<1>a. row \in Leave /\ row.who = leaves[req[r].leave].who
  BY <1>r DEF Leave
<1>b. leaves' = [leaves EXCEPT ![req[r].leave] = row]
  BY <1>4
<1> HIDE DEF row
<1>5. leaves' \in Seq(Leave) /\ Len(leaves') = Len(leaves) /\ DOMAIN leaves' = DOMAIN leaves
  BY <1>2, <1>3, <1>a, <1>b, RowChanges
<1>6. \A l \in DOMAIN leaves :
        leaves'[l].who = leaves[l].who /\ (l # req[r].leave => leaves'[l].over = leaves[l].over)
  BY <1>2, <1>3, <1>a, <1>b, RowChanges
<1> DEFINE v == [req[r] EXCEPT !.step = "invalidate"]
<1>7. v \in Request /\ v.step = "invalidate" /\ v.choice = {}
  BY <1>2, <1>3 DEF Request, Steps
<1>8. Bears(v, leaves')
  BY <1>7 DEF Bears
<1>9. req' = [req EXCEPT ![r] = v]
  BY DEF CommitEnd
<1>10. req' \in [Requests -> Request] /\ Bearers'
  BY <1>1, <1>5, <1>6, <1>7, <1>8, <1>9, OneMoves
<1>11. At(r, "invalidate")'
  BY <1>1, <1>7, <1>9 DEF At, StewardsOK
<1>12. cover' \subseteq cover /\ \A c \in cover' : c.leave # req[r].leave
  BY DEF CommitEnd, CoverWithout
<1>13. recruiter' = recruiter /\ inTurn' = inTurn
  BY DEF CommitEnd
<1>14. Covers' /\ CoverStandsIn'
  BY <1>1, <1>5, <1>6, <1>12, <1>13, CoverStays
<1>15. cover' \in Optional(Cover)
  BY <1>1, <1>12 DEF StewardsOK, Optional
<1>16. StewardsOK' /\ Numbered'
  BY <1>1, <1>5, <1>10, <1>15 DEF StewardsOK, Numbered, CommitEnd
<1> QED
  BY <1>10, <1>11, <1>14, <1>16, Unsettled DEF StewardsInv

LEMMA InvalidateLeaveKeeps ==
  ASSUME StewardsInv, NEW r \in Requests, InvalidateLeave(r)
  PROVE  StewardsInv'
<1>1. StewardsOK /\ Numbered /\ Bearers /\ Covers /\ CoverStandsIn
  BY DEF StewardsInv
<1>2. req \in [Requests -> Request] /\ At(r, "invalidate")
  BY <1>1 DEF StewardsOK, InvalidateLeave
<1> DEFINE v == IF req[r].choice = {} THEN Idle ELSE [req[r] EXCEPT !.step = "look"]
<1>3. v \in Request /\ v.step \in {"none", "look"}
  BY <1>2, IdleIsRequest DEF Request, Steps, Idle
<1>4. Bears(v, leaves)
  <2>1. CASE req[r].choice = {}
    BY <2>1 DEF Bears, Idle
  <2>2. CASE req[r].choice # {}
    <3>1. req[r].leave \in DOMAIN leaves /\ req[r].who = {leaves[req[r].leave].who}
      BY <1>1, <1>2, <2>2 DEF Bearers, At
    <3>2. v.leave = req[r].leave /\ v.who = req[r].who /\ v.step = "look"
      BY <1>2, <2>2 DEF Request
    <3> QED
      BY <3>1, <3>2 DEF Bears
  <2> QED
    BY <2>1, <2>2
<1>5. \A q \in Requests :
        /\ Overtaken[q] \in Request
        /\ Overtaken[q].step = req[q].step /\ Overtaken[q].who = req[q].who
        /\ Overtaken[q].choice = req[q].choice /\ Overtaken[q].leave = req[q].leave
        /\ Overtaken[q].step \in {"store", "cover"} => ~Overtaken[q].fresh
  BY <1>2 DEF Overtaken, Request, At
<1>6. Overtaken = [q \in Requests |-> Overtaken[q]]
  BY DEF Overtaken
<1> HIDE DEF v
<1>7. req' = [Overtaken EXCEPT ![r] = v]
  BY DEF InvalidateLeave, v
<1>8. \A q \in Requests : req'[q] = IF q = r THEN v ELSE Overtaken[q]
  BY <1>6, <1>7
<1>9. req' \in [Requests -> Request]
  BY <1>3, <1>5, <1>6, <1>7
<1>10. leaves' = leaves /\ recruiter' = recruiter /\ cover' = cover /\ inTurn' = inTurn
         /\ remembered' = {}
  BY DEF InvalidateLeave
<1>11. \A q \in Requests : Bears(Overtaken[q], leaves)
  BY <1>1, <1>5 DEF Bearers, Bears, At
<1>12. \A q \in Requests : Bears(req'[q], leaves')
  BY <1>4, <1>8, <1>10, <1>11
<1>13. Bearers'
  BY <1>12 DEF Bearers, Bears, At
<1>14. \A q \in Requests : ~((At(q, "store") \/ At(q, "cover"))' /\ req'[q].fresh)
  BY <1>3, <1>5, <1>8 DEF At
<1>15. LooksKnow'
  BY <1>10, <1>14 DEF LooksKnow
<1>16. Covers' /\ CoverStandsIn'
  BY <1>1, <1>10, CoverStays
<1>17. remembered' \in Optional(SUBSET People)
  BY <1>10 DEF Optional
<1>18. StewardsOK' /\ Numbered'
  BY <1>1, <1>9, <1>10, <1>17 DEF StewardsOK, Numbered, InvalidateLeave
<1> QED
  BY <1>13, <1>15, <1>16, <1>18 DEF StewardsInv

LEMMA CheckCoverKeeps ==
  ASSUME StewardsInv, NEW r \in Requests, CheckCover(r)
  PROVE  StewardsInv'
<1>1. StewardsOK /\ Numbered /\ Bearers /\ Covers /\ CoverStandsIn /\ LooksKnow
  BY DEF StewardsInv
<1>2. /\ leaves' = leaves /\ leaves' \in Seq(Leave) /\ recruiter' = recruiter /\ cover' = cover
      /\ inTurn' = (inTurn /\ (req[r].fresh \/ remembered # {})) /\ At(r, "cover")
      /\ remembered' = IF remembered = {} THEN {req[r].saw} ELSE remembered
  BY <1>1 DEF CheckCover, Stays, StewardsOK
<1>3. req[r] \in Request
  BY <1>1 DEF StewardsOK
<1> DEFINE v == IF MayHandOver(r) THEN [req[r] EXCEPT !.step = "commitCover"] ELSE Idle
<1>4. v \in Request /\ v.step \in {"none", "commitCover"}
  BY <1>3, IdleIsRequest DEF Request, Steps, Idle
<1>5. Bears(v, leaves')
  <2>1. CASE MayHandOver(r)
    <3>1. v.leave = req[r].leave /\ v.who = req[r].who /\ v.choice = req[r].choice
            /\ v.step = "commitCover"
      BY <1>3, <2>1 DEF Request
    <3> QED
      BY <1>1, <1>2, <3>1 DEF Bears, Bearers, At
  <2>2. CASE ~MayHandOver(r)
    BY <2>2 DEF Bears, Idle
  <2> QED
    BY <2>1, <2>2
<1> HIDE DEF v
<1>6. req' = [req EXCEPT ![r] = v]
  BY DEF CheckCover, v
<1>7. req' \in [Requests -> Request] /\ Bearers'
  BY <1>1, <1>2, <1>4, <1>5, <1>6, OneMoves
<1>8. Settled /\ inTurn' => \A known \in remembered' : Knows(known)
  BY <1>1, <1>2 DEF LooksKnow, At
<1>9. LooksKnow'
  BY <1>1, <1>2, <1>4, <1>6, <1>8, LooksStay DEF At
<1>10. Covers' /\ CoverStandsIn'
  BY <1>1, <1>2, CoverStays
<1>11. req[r].saw \in SUBSET People
  BY <1>3 DEF Request
<1>12. remembered' \in Optional(SUBSET People)
  BY <1>1, <1>2, <1>11 DEF Optional, StewardsOK
<1>13. inTurn' \in BOOLEAN
  BY <1>2
<1>14. StewardsOK' /\ Numbered'
  BY <1>1, <1>2, <1>7, <1>12, <1>13 DEF CheckCover, StewardsOK, Numbered
<1> QED
  BY <1>7, <1>9, <1>10, <1>14 DEF StewardsInv

(* The one who goes has just been checked to be the recruiter, and has not come back. *)
LEMMA CommitCoverKeeps ==
  ASSUME StewardsInv, NEW r \in Requests, CommitCover(r)
  PROVE  StewardsInv'
<1>1. StewardsOK /\ Numbered /\ Bearers /\ LooksKnow
  BY DEF StewardsInv
<1>2. /\ leaves' = leaves /\ leaves' \in Seq(Leave) /\ recruiter' = recruiter
      /\ inTurn' = (inTurn /\ recruiter = req[r].who /\ ~leaves[req[r].leave].over)
      /\ At(r, "commitCover") /\ remembered' = remembered
      /\ req' = [req EXCEPT ![r] = Idle]
      /\ cover' = {[who |-> p, leave |-> req[r].leave] : p \in req[r].choice}
  BY <1>1 DEF CommitCover, Stays, StewardsOK
<1>3. req[r] \in Request /\ leaves \in Seq(Leave)
  BY <1>1 DEF StewardsOK
<1>4. Idle.step = "none" /\ Bears(Idle, leaves')
  BY DEF Idle, Bears
<1>5. req' \in [Requests -> Request] /\ Bearers'
  BY <1>1, <1>2, <1>4, IdleIsRequest, OneMoves
<1>6. Settled /\ inTurn' => \A known \in remembered' : Knows(known)
  BY <1>1, <1>2 DEF LooksKnow
<1>7. inTurn' => inTurn
  BY <1>2
<1>8. LooksKnow'
  BY <1>1, <1>2, <1>4, <1>6, <1>7, IdleIsRequest, LooksStay DEF At
<1>9. \A c \in cover' : c.leave = req[r].leave /\ req[r].choice # {}
  BY <1>2
<1>10. req[r].choice # {} =>
         req[r].leave \in DOMAIN leaves /\ req[r].who = {leaves[req[r].leave].who}
  BY <1>1, <1>2 DEF Bearers, At
<1>11. Covers' /\ CoverStandsIn'
  BY <1>2, <1>9, <1>10 DEF Covers, CoverStandsIn
<1>12. cover' \in Optional(Cover)
  <2>1. CASE req[r].choice = {}
    BY <1>2, <2>1 DEF Optional
  <2>2. CASE req[r].choice # {}
    <3>1. PICK p \in People : req[r].choice = {p}
      BY <1>3, <2>2 DEF Request, Optional
    <3>2. cover' = {[who |-> p, leave |-> req[r].leave]}
      BY <1>2, <3>1
    <3>3. req[r].leave \in 1 .. MaxLeaves
      BY <1>1, <1>3, <1>10, <2>2, MovesAssumption DEF Numbered
    <3> QED
      BY <3>2, <3>3 DEF Optional, Cover
  <2> QED
    BY <2>1, <2>2
<1>13. inTurn' \in BOOLEAN
  BY <1>2
<1>14. StewardsOK' /\ Numbered'
  BY <1>1, <1>2, <1>5, <1>12, <1>13 DEF CommitCover, StewardsOK, Numbered
<1> QED
  BY <1>5, <1>8, <1>11, <1>14 DEF StewardsInv

LEMMA CommitAssignKeeps ==
  ASSUME StewardsInv, NEW r \in Requests, CommitAssign(r)
  PROVE  StewardsInv'
<1>1. StewardsOK /\ Numbered /\ Bearers /\ LooksKnow
  BY DEF StewardsInv
<1>2. /\ leaves' = leaves /\ leaves' \in Seq(Leave) /\ inTurn' = inTurn
      /\ At(r, "commitAssign") /\ remembered' = remembered
      /\ req' = [req EXCEPT ![r] = Idle] /\ cover' = {} /\ recruiter' = req[r].choice
  BY <1>1 DEF CommitAssign, StewardsOK
<1>3. Idle.step = "none" /\ Bears(Idle, leaves')
  BY DEF Idle, Bears
<1>4. req' \in [Requests -> Request] /\ Bearers'
  BY <1>1, <1>2, <1>3, IdleIsRequest, OneMoves
<1>5. Settled /\ inTurn' => \A known \in remembered' : Knows(known)
  BY <1>1, <1>2 DEF LooksKnow
<1>6. LooksKnow'
  BY <1>1, <1>2, <1>3, <1>5, IdleIsRequest, LooksStay DEF At
<1>7. Covers' /\ CoverStandsIn'
  BY <1>2 DEF Covers, CoverStandsIn
<1>8. recruiter' \in Optional(People) /\ cover' \in Optional(Cover)
  BY <1>1, <1>2 DEF StewardsOK, Request, Optional
<1>9. StewardsOK' /\ Numbered'
  BY <1>1, <1>2, <1>4, <1>8 DEF CommitAssign, StewardsOK, Numbered
<1> QED
  BY <1>4, <1>6, <1>7, <1>9 DEF StewardsInv

LEMMA StewardsStart ==
  ASSUME Init
  PROVE  StewardsInv
<1>1. leaves = << >> /\ req = [r \in Requests |-> Idle] /\ cover = {} /\ remembered = {}
  BY DEF Init
<1>2. \A r \in Requests : req[r] = Idle
  BY <1>1
<1>3. StewardsOK
  <2>1. req \in [Requests -> Request] /\ leaves \in Seq(Leave)
    BY <1>1, IdleIsRequest
  <2>2. stage \in Stages /\ sourced \in BOOLEAN /\ moves \in Nat /\ inTurn \in BOOLEAN
    BY DEF Init, Stages
  <2>3. author \in Optional(People) /\ recruiter \in Optional(People)
          /\ cover \in Optional(Cover) /\ remembered \in Optional(SUBSET People)
    BY DEF Init, Optional
  <2> QED
    BY <2>1, <2>2, <2>3 DEF StewardsOK
<1>4. Numbered
  BY <1>1, MovesAssumption DEF Numbered
<1>5. Bearers
  BY <1>2 DEF Bearers, Idle, At
<1>6. LooksKnow
  BY <1>1, <1>2 DEF LooksKnow, Idle, At
<1> QED
  BY <1>1, <1>3, <1>4, <1>5, <1>6 DEF StewardsInv, Covers, CoverStandsIn

LEMMA StewardsStep ==
  ASSUME StewardsInv, [Next]_vars
  PROVE  StewardsInv'
<1>1. StewardsOK
  BY DEF StewardsInv
<1>2. ASSUME NEW r \in Requests, LookAway(r) \/ StoreAway(r) \/ StartLeave(r) \/ CreateLeave(r)
      PROVE  StewardsInv'
  BY <1>2, LookAwayKeeps, StoreAwayKeeps, StartLeaveKeeps, CreateLeaveKeeps
<1>3. ASSUME NEW r \in Requests,
             InvalidateLeave(r) \/ ReadAway(r) \/ CheckCover(r) \/ CommitCover(r)
      PROVE  StewardsInv'
  BY <1>3, InvalidateLeaveKeeps, ReadAwayKeeps, CheckCoverKeeps, CommitCoverKeeps
<1>4. ASSUME NEW r \in Requests, EndLeave(r) \/ CommitEnd(r) \/ AssignRecruiter(r) \/ CommitAssign(r)
      PROVE  StewardsInv'
  BY <1>4, EndLeaveKeeps, CommitEndKeeps, AssignRecruiterKeeps, CommitAssignKeeps
<1>5. ASSUME NEW r \in Requests, SetCvSources(r)
      PROVE  StewardsInv'
  BY <1>1, <1>5, ElsewhereKeeps DEF SetCvSources, StewardsOK
<1>6. CASE ForgetAway \/ Lapse
  BY <1>6, ForgetAwayKeeps, LapseKeeps
<1>7. CASE SubmitJobAnalysis
  <2>1. stage' \in Stages /\ author' \in Optional(People)
    BY <1>7 DEF SubmitJobAnalysis, Stages, Optional
  <2> QED
    BY <1>1, <1>7, <2>1, ElsewhereKeeps DEF SubmitJobAnalysis, StewardsOK
<1>8. CASE MoveOn
  <2>1. stage' \in Stages
    BY <1>8 DEF MoveOn, Stages
  <2> QED
    BY <1>1, <1>8, <2>1, ElsewhereKeeps DEF MoveOn, StewardsOK
<1>9. CASE UNCHANGED vars
  BY <1>1, <1>9, ElsewhereKeeps DEF vars, StewardsOK
<1> QED
  BY <1>2, <1>3, <1>4, <1>5, <1>6, <1>7, <1>8, <1>9 DEF Next

(* The list and the door ask the same of the rows, however the rows came about. *)
LEMMA ListIsDoor == ListMatchesDoor
<1>1. \A p \in People :
        (\/ p \in Analysts \ OnLeave /\ stage = "analysis"
         \/ p \in Recruiters /\ stage = "analysis" /\ ~UnitNamesWithFactoryHr)
        <=> stage = "analysis" /\ CanCompleteJobAnalysis(p)
  BY DEF UnitNamesWithFactoryHr, CanCompleteJobAnalysis, JobAnalysisOwners, OnDuty
<1> QED
  BY <1>1 DEF ListMatchesDoor, Listed, Opens, IsRecruiter, CvSubmitter

THEOREM StewardsInvariant == Spec => []StewardsInv
<1>1. Init => StewardsInv
  BY StewardsStart
<1>2. StewardsInv /\ [Next]_vars => StewardsInv'
  BY StewardsStep
<1> QED
  BY <1>1, <1>2, PTL DEF Spec

(* Leaves, nominations and looks at who is away keep the types of the columns they
   write (leave.service.ts, requisition.service.ts). *)
THEOREM StewardsTypeTheorem == Spec => []StewardsOK
<1>1. StewardsInv => StewardsOK
  BY DEF StewardsInv
<1> QED
  BY <1>1, StewardsInvariant, PTL

(* Whoever stands in stands in for the recruiter the requisition has, and for a leave
   that is not over, as long as no request is overtaken (leave.service.ts). *)
THEOREM CoverTheorem == Spec => []CoverStandsIn
<1>1. StewardsInv => CoverStandsIn
  BY DEF StewardsInv
<1> QED
  BY <1>1, StewardsInvariant, PTL

(* What is remembered of who is away agrees with the leaves, and each person's list with
   the doors that open (permissions.service.ts, requisition.service.ts). *)
THEOREM SeenTheorem == Spec => []SeenAsItStands
<1>1. StewardsInv => AwayIsKnown
  BY DEF StewardsInv, LooksKnow, AwayIsKnown, Settled, Knows
<1>2. StewardsInv => SeenAsItStands
  BY <1>1, ListIsDoor DEF SeenAsItStands
<1> QED
  BY <1>2, StewardsInvariant, PTL

-----------------------------------------------------------------------------
(* Dossier *)

Carrying == {"workspace", "create", "keep", "upload", "reread", "append"}
Listing == {"append", "discard", "unlist"}

(* An edit of the levels that read what is there leaves no level twice. *)
LevelsFit(v) ==
  v.step = "update" =>
    /\ v.others = {} => v.primary = {}
    /\ \A others \in v.others :
         /\ v.primary = {} /\ v.fresh => post.primary \notin others
         /\ \A p \in v.primary : p \notin others

(* What is about to be written grants nothing that does not count as asked for. *)
GrantsFit(v) ==
  \A next \in v.next : \A f \in Facilities : next[f].status = "confirmed" => next[f].requested

(* Whoever is about to write the list, unless overtaken, saw the list there is. *)
LookFits(v) == v.step \in Listing /\ v.fresh => v.saw = files

Placed == {"reread", "append"}

(* What is stored has a folder to be stored in, and an id once it is. *)
Housed(v) ==
  /\ v.step \in {"keep", "upload"} => v.in # {}
  /\ v.step \in Placed => v.id # 0

(* A request that knows a folder knows that of the row. *)
Homed(v) == v.step \in {"admit", "workspace", "upload"} /\ v.in # {} => v.in = folder

NotYetListed(v) == v.step \in Carrying => v.file \cap NamesIn(files) = {}

(* A file that is uploaded and not yet listed lies in the folder the row names. *)
LiesOn(v, disk) ==
  v.step \in Placed =>
    /\ \E x \in disk : x.id = v.id /\ folder = {x.in}
    /\ \A f \in files : f.id # v.id

(* No two uploads under way have the same name, and the id of one is its own. *)
NamedApart(v, w) == v.step \in Carrying /\ w.step \in Carrying => v.file \cap w.file = {}

Apart(v, w) == v.step \in Placed => w.id # v.id

Fits(v) == LevelsFit(v) /\ GrantsFit(v) /\ LookFits(v) /\ Housed(v)
FitsTidy(v) == Homed(v) /\ NotYetListed(v) /\ LiesOn(v, drive)

JobsFit == \A j \in Jobs : Fits(job[j])

Announced ==
  /\ \A j \in Jobs : job[j].step \in Carrying => job[j].file \subseteq running
  /\ \A i, j \in Jobs : i # j => NamedApart(job[i], job[j])

JobsTidy ==
  tidy => /\ \A j \in Jobs : FitsTidy(job[j])
          /\ \A i, j \in Jobs : i # j => Apart(job[i], job[j])

DossierInv ==
  /\ DossierOK /\ RecordAddsUp /\ FilesStay
  /\ JobsFit /\ Announced /\ JobsTidy

LEMMA NoJobIsJob == NoJob \in Job
BY DossierAssumption DEF NoJob, Job, JobSteps, Maybe

LEMMA NoJobFits == Fits(NoJob) /\ FitsTidy(NoJob)
BY DEF NoJob, Fits, FitsTidy, LevelsFit, GrantsFit, LookFits, Housed, Homed, NotYetListed, LiesOn,
       Listing, Carrying, Placed

LEMMA StoredHaveIds ==
  ASSUME DossierInv
  PROVE  \A i \in Jobs : job[i].step \in Placed => job[i].id # 0
BY DEF DossierInv, JobsFit, Fits, Housed

(* One request moves on, and may take up its name or let it go; Drive keeps what it has. *)
LEMMA JobMoves ==
  ASSUME DossierInv, NEW j \in Jobs, NEW v \in Job,
         job' = [job EXCEPT ![j] = v], ~Has(j, "unlist"),
         Fits(v),
         UNCHANGED <<post, decisions, folder, files, stored>>,
         tidy' \in BOOLEAN, tidy' => tidy,
         drive' \subseteq Stored, drive \subseteq drive',
         running' \subseteq Names,
         \A i \in Jobs : i # j /\ job[i].step \in Carrying => job[i].file \subseteq running',
         v.step \in Carrying => v.file \subseteq running',
         \A i \in Jobs : i # j => NamedApart(job[i], v),
         tidy' => Homed(v) /\ NotYetListed(v) /\ LiesOn(v, drive'),
         tidy' => \A i \in Jobs : i # j => Apart(job[i], v) /\ Apart(v, job[i]),
         analysis' \in BOOLEAN, trees' \in 0 .. MaxTrees, work' \in 0 .. MaxWork
  PROVE  DossierInv'
<1>1. DossierOK /\ RecordAddsUp /\ FilesStay /\ JobsFit /\ Announced /\ JobsTidy
  BY DEF DossierInv
<1>2. job \in [Jobs -> Job]
  BY <1>1 DEF DossierOK
<1>3. \A i \in Jobs : job'[i] = IF i = j THEN v ELSE job[i]
  BY <1>2
<1>4. DossierOK'
  <2>1. job' \in [Jobs -> Job]
    BY <1>2
  <2> QED
    BY <1>1, <2>1 DEF DossierOK
<1>5. RecordAddsUp'
  BY <1>1 DEF RecordAddsUp
<1>6. \A i \in Jobs : Has(i, "unlist") => Has(i, "unlist")' /\ job'[i].id = job[i].id
  BY <1>3 DEF Has
<1>7. FilesStay'
  <2>1. SUFFICES ASSUME tidy'
                 PROVE  FilesStay'
    BY DEF FilesStay
  <2>2. stored' = files' /\ \A f, g \in files' : f.name = g.name => f = g
    BY <1>1, <2>1 DEF FilesStay
  <2>3. ASSUME NEW f \in files'
        PROVE  \/ \E x \in drive' : x.id = f.id /\ folder' = {x.in}
               \/ \E i \in Jobs : Has(i, "unlist")' /\ job'[i].id = f.id
    <3>1. CASE \E x \in drive : x.id = f.id /\ folder = {x.in}
      BY <3>1
    <3>2. CASE \E i \in Jobs : Has(i, "unlist") /\ job[i].id = f.id
      BY <1>6, <3>2
    <3> QED
      BY <1>1, <2>1, <2>3, <3>1, <3>2 DEF FilesStay
  <2> QED
    BY <2>2, <2>3 DEF FilesStay
<1>8. \A w : Fits(w) => Fits(w)'
  BY DEF Fits, LevelsFit, GrantsFit, LookFits, Housed, Placed
<1>9. JobsFit'
  <2>1. ASSUME NEW i \in Jobs
        PROVE  Fits(job[i])'
    <3>1. CASE i = j
      <4>1. Fits(v)'
        BY <1>8
      <4>2. job'[i] = v
        BY <1>3, <3>1
      <4> QED
        BY <4>1, <4>2 DEF Fits, LevelsFit, GrantsFit, LookFits, Housed, Placed
    <3>2. CASE i # j
      <4>1. job'[i] = job[i] /\ Fits(job[i])
        BY <1>1, <1>3, <3>2 DEF JobsFit
      <4> QED
        BY <4>1 DEF Fits, LevelsFit, GrantsFit, LookFits, Housed, Placed
    <3> QED
      BY <3>1, <3>2
  <2> QED
    BY <2>1 DEF JobsFit
<1>10. Announced'
  <2>1. \A i \in Jobs : job'[i].step \in Carrying => job'[i].file \subseteq running'
    BY <1>3
  <2>2. \A i, k \in Jobs : i # k => NamedApart(job'[i], job'[k])
    <3>1. \A i, k \in Jobs : i # k => NamedApart(job[i], job[k])
      BY <1>1 DEF Announced
    <3>2. \A i \in Jobs : i # j => NamedApart(v, job[i])
      BY DEF NamedApart
    <3> QED
      BY <1>3, <3>1, <3>2
  <2> QED
    BY <2>1, <2>2 DEF Announced, NamedApart, Carrying
<1>11. JobsTidy'
  <2>1. SUFFICES ASSUME tidy'
                 PROVE  /\ \A i \in Jobs : FitsTidy(job[i])'
                        /\ \A i, k \in Jobs : i # k => Apart(job'[i], job'[k])
    BY DEF JobsTidy, Apart, Placed
  <2>2. ASSUME NEW i \in Jobs
        PROVE  FitsTidy(job[i])'
    <3>1. CASE i = j
      <4>1. job'[i] = v /\ Homed(v) /\ NotYetListed(v) /\ LiesOn(v, drive')
        BY <1>3, <2>1, <3>1
      <4> QED
        BY <4>1 DEF FitsTidy, Homed, NotYetListed, LiesOn, NamesIn
    <3>2. CASE i # j
      <4>1. job'[i] = job[i] /\ FitsTidy(job[i])
        BY <1>1, <1>3, <2>1, <3>2 DEF JobsTidy
      <4> QED
        BY <4>1 DEF FitsTidy, Homed, NotYetListed, LiesOn, NamesIn
    <3> QED
      BY <3>1, <3>2
  <2>3. \A i, k \in Jobs : i # k => Apart(job'[i], job'[k])
    <3>1. \A i, k \in Jobs : i # k => Apart(job[i], job[k])
      BY <1>1, <2>1 DEF JobsTidy
    <3> QED
      BY <1>3, <2>1, <3>1
  <2> QED
    BY <2>2, <2>3
<1> QED
  BY <1>4, <1>5, <1>7, <1>9, <1>10, <1>11 DEF DossierInv

(* What begins, and whatever is not about files, carries nothing. *)
LEMMA Bystander ==
  ASSUME DossierInv, NEW j \in Jobs, NEW v \in Job,
         job' = [job EXCEPT ![j] = v], ~Has(j, "unlist"),
         Fits(v), v.step \notin Carrying, Homed(v), v.id = job[j].id \/ v.id = 0 \/ \E f \in files : v.id = f.id,
         UNCHANGED <<post, decisions, folder, files, stored, drive, running>>,
         tidy' \in BOOLEAN, tidy' => tidy,
         analysis' \in BOOLEAN, trees' \in 0 .. MaxTrees, work' \in 0 .. MaxWork
  PROVE  DossierInv'
<1>1. DossierOK /\ Announced /\ JobsTidy
  BY DEF DossierInv
<1>2. drive' \subseteq Stored /\ drive \subseteq drive' /\ running' \subseteq Names
  BY <1>1 DEF DossierOK
<1>3. \A i \in Jobs : i # j /\ job[i].step \in Carrying => job[i].file \subseteq running'
  BY <1>1 DEF Announced
<1>4. \A i \in Jobs : i # j => NamedApart(job[i], v)
  BY DEF NamedApart
<1>5. NotYetListed(v) /\ LiesOn(v, drive') /\ v.step \notin Placed
  BY DEF NotYetListed, LiesOn, Placed, Carrying
<1>6. ASSUME tidy', NEW i \in Jobs, i # j
      PROVE  Apart(job[i], v) /\ Apart(v, job[i])
  <2>1. Apart(job[i], job[j]) /\ LiesOn(job[i], drive)
    BY <1>1, <1>6 DEF JobsTidy, FitsTidy
  <2> QED
    BY <1>5, <2>1, StoredHaveIds DEF Apart, LiesOn
<1> QED
  BY <1>2, <1>3, <1>4, <1>5, <1>6, JobMoves

LEMMA UpdateKeeps ==
  ASSUME DossierInv, NEW j \in Jobs, Update(j)
  PROVE  DossierInv'
<1>1. PICK primary \in Maybe(Levels), others \in Maybe(SUBSET Levels) :
        Begin(j, [NoJob EXCEPT !.step = "update", !.primary = primary,
                               !.others = NextAlternates(primary, others)])
  BY DEF Update
<1> DEFINE next == NextAlternates(primary, others)
           v == [NoJob EXCEPT !.step = "update", !.primary = primary, !.others = next]
<1>2. DossierOK
  BY DEF DossierInv
<1>3. next \in Maybe(SUBSET Levels)
  <2>1. CASE primary = {} /\ others = {}
    BY <2>1 DEF NextAlternates, Maybe
  <2>2. CASE ~(primary = {} /\ others = {})
    <3>1. PICK p, o : next = {NormaliseAlternateDesignations(p, o)}
            /\ o = IF others = {} THEN post.others ELSE UNION others
      BY <2>2 DEF NextAlternates
    <3>2. o \in SUBSET Levels
      BY <1>2, <3>1 DEF DossierOK, Post, Maybe
    <3> QED
      BY <3>1, <3>2 DEF NormaliseAlternateDesignations, Maybe
  <2> QED
    BY <2>1, <2>2
<1>4. (next = {} => primary = {}) /\ \A o \in next :
        (primary = {} => post.primary \notin o) /\ \A p \in primary : p \notin o
  BY DEF NextAlternates, NormaliseAlternateDesignations, Maybe
<1> HIDE DEF next
<1>5. /\ v.step = "update" /\ v.primary = primary /\ v.others = next
      /\ v.next = NoJob.next /\ v.id = NoJob.id
  BY NoJobIsJob DEF Job
<1>6. v \in Job
  BY <1>3, NoJobIsJob DEF Job, JobSteps
<1>e. NoJob.next = {} /\ NoJob.id = 0
  BY DEF NoJob
<1>7. Fits(v) /\ Homed(v) /\ v.step = "update" /\ v.id = 0
  BY <1>4, <1>5, <1>e DEF Fits, LevelsFit, GrantsFit, LookFits, Housed, Homed, Listing, Placed
<1>8. Has(j, "none") /\ job' = [job EXCEPT ![j] = v] /\ work' \in 0 .. MaxWork
  BY <1>1, <1>2, DossierAssumption DEF Begin, next, DossierOK
<1> HIDE DEF v
<1>p. /\ UNCHANGED <<post, decisions, folder, files, stored, drive, running>>
      /\ analysis' \in BOOLEAN /\ trees' \in 0 .. MaxTrees /\ tidy' \in BOOLEAN /\ (tidy' => tidy)
  BY <1>2 DEF Update, DossierOK
<1>q. ~Has(j, "unlist") /\ v.step \notin Carrying
  BY <1>7, <1>8 DEF Has, Carrying
<1>s. v.id = job[j].id \/ v.id = 0 \/ \E g \in files : v.id = g.id
  BY <1>7
<1> QED
  BY <1>6, <1>7, <1>8, <1>p, <1>q, <1>s, Bystander

LEMMA UpdateFacilitiesKeeps ==
  ASSUME DossierInv, NEW j \in Jobs, UpdateFacilities(j)
  PROVE  DossierInv'
<1>1. PICK f \in Facilities, status \in {"confirmed", "skipped"} :
        Begin(j, [NoJob EXCEPT !.step = "facilities",
                    !.next = {[decisions EXCEPT ![f] = Decided(@, status)]}])
  BY DEF UpdateFacilities
<1> DEFINE next == [decisions EXCEPT ![f] = Decided(decisions[f], status)]
           v == [NoJob EXCEPT !.step = "facilities", !.next = {next}]
<1>2. DossierOK /\ RecordAddsUp
  BY DEF DossierInv
<1>3. decisions[f] \in Decision /\ Decided(decisions[f], status) \in Decision
  BY <1>2 DEF DossierOK, Decided, Decision
<1>4. next \in [Facilities -> Decision]
  BY <1>2, <1>3 DEF DossierOK
<1>5. \A g \in Facilities : next[g].status = "confirmed" => next[g].requested
  BY <1>2, <1>3 DEF DossierOK, RecordAddsUp, Decided
<1> HIDE DEF next
<1>6. v.step = "facilities" /\ v.next = {next} /\ v.id = NoJob.id
  BY NoJobIsJob DEF Job
<1>7. v \in Job
  <2>1. {next} \in Maybe([Facilities -> Decision])
    BY <1>4 DEF Maybe
  <2> QED
    BY <2>1, NoJobIsJob DEF Job, JobSteps
<1>e. NoJob.id = 0
  BY DEF NoJob
<1>8. Fits(v) /\ Homed(v) /\ v.step = "facilities" /\ v.id = 0
  BY <1>5, <1>6, <1>e DEF Fits, LevelsFit, GrantsFit, LookFits, Housed, Homed, Listing, Placed
<1>9. Has(j, "none") /\ job' = [job EXCEPT ![j] = v] /\ work' \in 0 .. MaxWork
  BY <1>1, <1>2, DossierAssumption DEF Begin, next, DossierOK
<1> HIDE DEF v
<1>p. /\ UNCHANGED <<post, decisions, folder, files, stored, drive, running>>
      /\ analysis' \in BOOLEAN /\ trees' \in 0 .. MaxTrees /\ tidy' \in BOOLEAN /\ (tidy' => tidy)
  BY <1>2 DEF UpdateFacilities, DossierOK
<1>q. ~Has(j, "unlist") /\ v.step \notin Carrying
  BY <1>8, <1>9 DEF Has, Carrying
<1>s. v.id = job[j].id \/ v.id = 0 \/ \E g \in files : v.id = g.id
  BY <1>8
<1> QED
  BY <1>7, <1>8, <1>9, <1>p, <1>q, <1>s, Bystander

LEMMA AddAttachmentKeeps ==
  ASSUME DossierInv, NEW j \in Jobs, AddAttachment(j)
  PROVE  DossierInv'
<1>1. PICK name \in Names :
        Begin(j, [NoJob EXCEPT !.step = "admit", !.file = {name}, !.in = folder, !.saw = files])
  BY DEF AddAttachment
<1> DEFINE u == [NoJob EXCEPT !.step = "admit", !.file = {name}]
           v == [u EXCEPT !.in = folder, !.saw = files]
<1>2. DossierOK
  BY DEF DossierInv
<1>e. NoJob.id = 0 /\ NoJob.next = {}
  BY DEF NoJob
<1>u. u \in Job /\ u.step = "admit" /\ u.id = 0 /\ u.next = {}
  <2>1. {name} \in Maybe(Names)
    BY DEF Maybe
  <2> QED
    BY <1>e, <2>1, NoJobIsJob DEF Job, JobSteps
<1>b. Begin(j, v)
  BY <1>1
<1> HIDE DEF u
<1>3. v.step = "admit" /\ v.id = 0 /\ v.next = {} /\ v.in = folder
  BY <1>u DEF Job
<1>4. v \in Job
  BY <1>2, <1>u DEF Job, DossierOK
<1>5. Fits(v) /\ Homed(v) /\ v.step = "admit" /\ v.id = 0
  BY <1>3 DEF Fits, LevelsFit, GrantsFit, LookFits, Housed, Homed, Listing, Placed
<1>6. Has(j, "none") /\ job' = [job EXCEPT ![j] = v] /\ work' \in 0 .. MaxWork
  BY <1>b, <1>2, DossierAssumption DEF Begin, DossierOK
<1> HIDE DEF v
<1>p. /\ UNCHANGED <<post, decisions, folder, files, stored, drive, running>>
      /\ analysis' \in BOOLEAN /\ trees' \in 0 .. MaxTrees /\ tidy' \in BOOLEAN /\ (tidy' => tidy)
  BY <1>2 DEF AddAttachment, DossierOK
<1>q. ~Has(j, "unlist") /\ v.step \notin Carrying
  BY <1>5, <1>6 DEF Has, Carrying
<1>s. v.id = job[j].id \/ v.id = 0 \/ \E g \in files : v.id = g.id
  BY <1>5
<1> QED
  BY <1>4, <1>5, <1>6, <1>p, <1>q, <1>s, Bystander

LEMMA RemoveAttachmentKeeps ==
  ASSUME DossierInv, NEW j \in Jobs, RemoveAttachment(j)
  PROVE  DossierInv'
<1>1. PICK f \in files :
        Begin(j, [NoJob EXCEPT !.step = "discard", !.file = {f.name}, !.id = f.id, !.saw = files])
  BY DEF RemoveAttachment
<1> DEFINE u == [NoJob EXCEPT !.step = "discard", !.file = {f.name}]
           v == [u EXCEPT !.id = f.id, !.saw = files]
<1>2. DossierOK
  BY DEF DossierInv
<1>4. f.name \in Names /\ f.id \in 0 .. MaxUploads
  BY <1>2, DossierAssumption DEF DossierOK, File
<1>e. NoJob.next = {} /\ NoJob.in = {}
  BY DEF NoJob
<1>u. u \in Job /\ u.step = "discard" /\ u.next = {} /\ u.in = {}
  <2>1. {f.name} \in Maybe(Names)
    BY <1>4 DEF Maybe
  <2> QED
    BY <1>e, <2>1, NoJobIsJob DEF Job, JobSteps
<1>b. Begin(j, v)
  BY <1>1
<1> HIDE DEF u
<1>3. v.step = "discard" /\ v.id = f.id /\ v.next = {} /\ v.in = {} /\ v.saw = files
  BY <1>u DEF Job
<1>5. v \in Job
  BY <1>2, <1>4, <1>u DEF Job, DossierOK
<1>6. Fits(v) /\ Homed(v) /\ v.step = "discard" /\ v.id = f.id
  BY <1>3 DEF Fits, LevelsFit, GrantsFit, LookFits, Housed, Homed, Listing, Placed
<1>7. Has(j, "none") /\ job' = [job EXCEPT ![j] = v] /\ work' \in 0 .. MaxWork
  BY <1>b, <1>2, DossierAssumption DEF Begin, DossierOK
<1> HIDE DEF v
<1>p. /\ UNCHANGED <<post, decisions, folder, files, stored, drive, running>>
      /\ analysis' \in BOOLEAN /\ trees' \in 0 .. MaxTrees /\ tidy' \in BOOLEAN /\ (tidy' => tidy)
  BY <1>2 DEF RemoveAttachment, DossierOK
<1>q. ~Has(j, "unlist") /\ v.step \notin Carrying
  BY <1>6, <1>7 DEF Has, Carrying
<1>s. v.id = job[j].id \/ v.id = 0 \/ \E g \in files : v.id = g.id
  BY <1>6
<1> QED
  BY <1>5, <1>6, <1>7, <1>p, <1>q, <1>s, Bystander

(* An upload goes on under the name it has. *)
LEMMA Onward ==
  ASSUME DossierInv, NEW j \in Jobs, NEW v \in Job,
         job' = [job EXCEPT ![j] = v], ~Has(j, "unlist"),
         v.file = {} \/ (job[j].step \in Carrying /\ v.file \subseteq job[j].file),
         Fits(v), tidy => Homed(v) /\ LiesOn(v, drive'),
         v.id = job[j].id \/ v.id = 0 \/ \A i \in Jobs : job[i].id # v.id,
         tidy /\ v.step \in Placed => \A i \in Jobs : i # j => job[i].id # v.id,
         UNCHANGED <<post, decisions, folder, files, stored, running, tidy>>,
         drive' \subseteq Stored, drive \subseteq drive',
         analysis' \in BOOLEAN, trees' \in 0 .. MaxTrees, work' \in 0 .. MaxWork
  PROVE  DossierInv'
<1>1. DossierOK /\ Announced /\ JobsTidy
  BY DEF DossierInv
<1>2. running' \subseteq Names /\ tidy' \in BOOLEAN /\ (tidy' => tidy)
  BY <1>1 DEF DossierOK
<1>3. \A i \in Jobs : i # j /\ job[i].step \in Carrying => job[i].file \subseteq running'
  BY <1>1 DEF Announced
<1>4. v.step \in Carrying => v.file \subseteq running'
  BY <1>1 DEF Announced
<1>5. \A i \in Jobs : i # j => NamedApart(job[i], v)
  BY <1>1 DEF Announced, NamedApart
<1>6. tidy' => NotYetListed(v)
  <2>1. tidy => NotYetListed(job[j])
    BY <1>1 DEF JobsTidy, FitsTidy
  <2> QED
    BY <1>2, <2>1 DEF NotYetListed
<1>7. ASSUME tidy', NEW i \in Jobs, i # j
      PROVE  Apart(job[i], v) /\ Apart(v, job[i])
  <2>1. Apart(job[i], job[j]) /\ LiesOn(job[i], drive)
    BY <1>1, <1>2, <1>7 DEF JobsTidy, FitsTidy
  <2> QED
    BY <1>2, <1>7, <2>1, StoredHaveIds DEF Apart, LiesOn
<1> QED
  BY <1>2, <1>3, <1>4, <1>5, <1>6, <1>7, JobMoves

LEMMA SetupDriveWorkspaceKeeps ==
  ASSUME DossierInv, NEW j \in Jobs, SetupDriveWorkspace(j)
  PROVE  DossierInv'
<1> DEFINE v == [NoJob EXCEPT !.step = "workspace", !.in = folder]
<1>1. DossierOK
  BY DEF DossierInv
<1>2. NoJob.file = {} /\ NoJob.id = 0 /\ NoJob.next = {}
  BY DEF NoJob
<1>3. v.step = "workspace" /\ v.in = folder /\ v.file = {} /\ v.id = 0 /\ v.next = {}
  BY <1>2, NoJobIsJob DEF Job
<1>4. v \in Job
  BY <1>1, NoJobIsJob DEF Job, JobSteps, DossierOK
<1>5. Fits(v) /\ Homed(v) /\ LiesOn(v, drive') /\ v.step \notin Placed
  BY <1>3 DEF Fits, LevelsFit, GrantsFit, LookFits, Housed, Homed, LiesOn, Listing, Placed
<1>6. ~Has(j, "unlist") /\ job' = [job EXCEPT ![j] = v] /\ work' \in 0 .. MaxWork
  BY <1>1, DossierAssumption DEF SetupDriveWorkspace, Begin, Has, DossierOK
<1>7. /\ UNCHANGED <<post, decisions, folder, files, stored, running, tidy>>
      /\ drive' \subseteq Stored /\ drive \subseteq drive'
      /\ analysis' \in BOOLEAN /\ trees' \in 0 .. MaxTrees
  BY <1>1 DEF SetupDriveWorkspace, DossierOK
<1> HIDE DEF v
<1> QED
  BY <1>3, <1>4, <1>5, <1>6, <1>7, Onward

(* With its folder at hand: the request ends, or uploads into that folder. *)
LEMMA InFolderFits ==
  ASSUME NEW as \in Job, as.in # {}, as.step \notin Listing, GrantsFit(as)
  PROVE  /\ InFolder(as) \in Job
         /\ InFolder(as).file \subseteq as.file
         /\ InFolder(as).id = as.id \/ InFolder(as).id = 0
         /\ InFolder(as).step \in {"none", "upload"}
         /\ InFolder(as).step = "upload" => InFolder(as).in = as.in
         /\ Fits(InFolder(as))
<1>1. CASE as.file = {}
  <2>1. InFolder(as) = NoJob
    BY <1>1 DEF InFolder
  <2> QED
    BY <2>1, NoJobIsJob, NoJobFits DEF NoJob
<1>2. CASE as.file # {}
  <2> DEFINE v == [as EXCEPT !.step = "upload"]
  <2>1. InFolder(as) = v
    BY <1>2 DEF InFolder
  <2>2. v \in Job
    BY DEF Job, JobSteps
  <2>3. v.step = "upload" /\ v.in = as.in /\ v.file = as.file /\ v.id = as.id /\ v.next = as.next
    BY DEF Job
  <2>4. Fits(v)
    BY <2>3 DEF Fits, LevelsFit, GrantsFit, LookFits, Housed, Listing, Placed
  <2> QED
    BY <2>1, <2>2, <2>3, <2>4
<1> QED
  BY <1>1, <1>2

LEMMA FindFolderKeeps ==
  ASSUME DossierInv, NEW j \in Jobs, FindFolder(j)
  PROVE  DossierInv'
<1>1. DossierOK /\ JobsFit /\ JobsTidy
  BY DEF DossierInv
<1>2. job[j] \in Job /\ Fits(job[j]) /\ (tidy => Homed(job[j])) /\ job[j].step = "workspace"
  BY <1>1 DEF DossierOK, JobsFit, JobsTidy, FitsTidy, FindFolder, Has
<1>3. /\ UNCHANGED <<post, decisions, folder, files, stored, running, tidy>>
      /\ drive' \subseteq Stored /\ drive \subseteq drive'
      /\ analysis' \in BOOLEAN /\ trees' \in 0 .. MaxTrees /\ work' \in 0 .. MaxWork
      /\ ~Has(j, "unlist") /\ job[j].step \in Carrying
  BY <1>1, <1>2 DEF FindFolder, DossierOK, Has, Carrying
<1>4. CASE job[j].in # {} /\ job' = [job EXCEPT ![j] = InFolder(job[j])]
  <2> DEFINE v == InFolder(job[j])
  <2>1. /\ v \in Job /\ Fits(v) /\ v.file \subseteq job[j].file
        /\ v.id = job[j].id \/ v.id = 0
        /\ v.step \in {"none", "upload"} /\ (v.step = "upload" => v.in = job[j].in)
    BY <1>2, <1>4, InFolderFits DEF Listing, Fits
  <2>2. tidy => Homed(v)
    BY <1>2, <2>1 DEF Homed
  <2>3. LiesOn(v, drive') /\ v.step \notin Placed
    BY <2>1 DEF LiesOn, Placed
  <2> HIDE DEF v
  <2> QED
    BY <1>3, <1>4, <2>1, <2>2, <2>3, Onward DEF v
<1>5. ASSUME NEW t \in 1 .. trees, job' = [job EXCEPT ![j].step = "keep", ![j].in = {t}]
      PROVE  DossierInv'
  <2> DEFINE v == [job[j] EXCEPT !.step = "keep", !.in = {t}]
  <2>1. {t} \in Maybe(Trees)
    BY <1>1, DossierAssumption DEF DossierOK, Maybe, Trees
  <2>2. v \in Job
    BY <1>2, <2>1 DEF Job, JobSteps
  <2>3. v.step = "keep" /\ v.in = {t} /\ v.file = job[j].file /\ v.id = job[j].id
          /\ v.next = job[j].next
    BY <1>2 DEF Job
  <2>4. job' = [job EXCEPT ![j] = v]
    BY <1>5
  <2> HIDE DEF v
  <2>5. Fits(v) /\ Homed(v) /\ LiesOn(v, drive') /\ v.step \notin Placed
    BY <1>2, <2>3 DEF Fits, LevelsFit, GrantsFit, LookFits, Housed, Homed, LiesOn, Listing, Placed
  <2> QED
    BY <1>3, <2>2, <2>3, <2>4, <2>5, Onward
<1>6. CASE Proceed(j, "create")
  <2> DEFINE v == [job[j] EXCEPT !.step = "create"]
  <2>1. v \in Job
    BY <1>2 DEF Job, JobSteps
  <2>2. v.step = "create" /\ v.file = job[j].file /\ v.id = job[j].id /\ v.next = job[j].next
    BY <1>2 DEF Job
  <2>3. job' = [job EXCEPT ![j] = v]
    BY <1>6 DEF Proceed
  <2> HIDE DEF v
  <2>4. Fits(v) /\ Homed(v) /\ LiesOn(v, drive') /\ v.step \notin Placed
    BY <1>2, <2>2 DEF Fits, LevelsFit, GrantsFit, LookFits, Housed, Homed, LiesOn, Listing, Placed
  <2> QED
    BY <1>3, <2>1, <2>2, <2>3, <2>4, Onward
<1> QED
  BY <1>4, <1>5, <1>6 DEF FindFolder

LEMMA CreateFolderKeeps ==
  ASSUME DossierInv, NEW j \in Jobs, CreateFolder(j)
  PROVE  DossierInv'
<1>1. DossierOK /\ JobsFit
  BY DEF DossierInv
<1>2. job[j] \in Job /\ Fits(job[j]) /\ job[j].step = "create"
  BY <1>1 DEF DossierOK, JobsFit, CreateFolder, Has
<1>3. trees' = trees + 1 /\ trees' \in 1 .. MaxTrees
  BY <1>1, DossierAssumption DEF CreateFolder, DossierOK
<1>4. /\ UNCHANGED <<post, decisions, folder, files, stored, running, tidy>>
      /\ drive' \subseteq Stored /\ drive \subseteq drive'
      /\ analysis' \in BOOLEAN /\ trees' \in 0 .. MaxTrees /\ work' \in 0 .. MaxWork
      /\ ~Has(j, "unlist") /\ job[j].step \in Carrying
  BY <1>1, <1>2, <1>3 DEF CreateFolder, DossierOK, Has, Carrying
<1> DEFINE v == [job[j] EXCEPT !.step = "keep", !.in = {trees'}]
<1>5. {trees'} \in Maybe(Trees)
  BY <1>3 DEF Maybe, Trees
<1>6. v \in Job
  BY <1>2, <1>5 DEF Job, JobSteps
<1>7. v.step = "keep" /\ v.in = {trees'} /\ v.file = job[j].file /\ v.id = job[j].id
        /\ v.next = job[j].next
  BY <1>2 DEF Job
<1>8. job' = [job EXCEPT ![j] = v]
  BY DEF CreateFolder
<1> HIDE DEF v
<1>9. Fits(v) /\ Homed(v) /\ LiesOn(v, drive') /\ v.step \notin Placed
  BY <1>2, <1>7 DEF Fits, LevelsFit, GrantsFit, LookFits, Housed, Homed, LiesOn, Listing, Placed
<1> QED
  BY <1>4, <1>6, <1>7, <1>8, <1>9, Onward

LEMMA UploadKeeps ==
  ASSUME DossierInv, NEW j \in Jobs, Upload(j)
  PROVE  DossierInv'
<1>1. DossierOK /\ JobsFit /\ JobsTidy /\ FilesStay
  BY DEF DossierInv
<1>2. job[j] \in Job /\ Fits(job[j]) /\ (tidy => Homed(job[j])) /\ job[j].step = "upload"
  BY <1>1 DEF DossierOK, JobsFit, JobsTidy, FitsTidy, Upload, Has
<1>3. PICK id \in 1 .. MaxUploads :
        /\ \A x \in drive \cup stored : x.id # id
        /\ \A i \in Jobs : job[i].id # id
        /\ drive' = drive \cup {[id |-> id, in |-> t] : t \in job[j].in}
        /\ job' = [job EXCEPT ![j].step = "reread", ![j].id = id]
  BY DEF Upload
<1>4. PICK t \in Trees : job[j].in = {t}
  BY <1>2 DEF Job, Maybe, Fits, Housed, Placed
<1>5. drive' = drive \cup {[id |-> id, in |-> t]} /\ [id |-> id, in |-> t] \in Stored
  BY <1>3, <1>4 DEF Stored
<1>6. /\ UNCHANGED <<post, decisions, folder, files, stored, running, tidy>>
      /\ drive' \subseteq Stored /\ drive \subseteq drive'
      /\ analysis' \in BOOLEAN /\ trees' \in 0 .. MaxTrees /\ work' \in 0 .. MaxWork
      /\ ~Has(j, "unlist") /\ job[j].step \in Carrying
  BY <1>1, <1>2, <1>5 DEF Upload, DossierOK, Has, Carrying
<1> DEFINE v == [job[j] EXCEPT !.step = "reread", !.id = id]
<1>7. v \in Job
  <2>1. id \in 0 .. MaxUploads
    BY DossierAssumption
  <2> QED
    BY <1>2, <2>1 DEF Job, JobSteps
<1>8. v.step = "reread" /\ v.id = id /\ v.file = job[j].file /\ v.next = job[j].next
  BY <1>2 DEF Job
<1>9. job' = [job EXCEPT ![j] = v]
  BY <1>3
<1> HIDE DEF v
<1>10. Fits(v) /\ Homed(v)
  BY <1>2, <1>8 DEF Fits, LevelsFit, GrantsFit, LookFits, Housed, Homed, Listing, Placed
<1>11. tidy => LiesOn(v, drive')
  <2>1. ASSUME tidy
        PROVE  /\ folder = {t}
               /\ \A f \in files : f.id # id
    BY <1>1, <1>2, <1>3, <1>4, <2>1 DEF Homed, FilesStay
  <2>2. id # 0
    OBVIOUS
  <2> QED
    BY <1>5, <1>8, <2>1, <2>2 DEF LiesOn
<1> QED
  BY <1>3, <1>6, <1>7, <1>8, <1>9, <1>10, <1>11, Onward

LEMMA RereadKeeps ==
  ASSUME DossierInv, NEW j \in Jobs, Reread(j)
  PROVE  DossierInv'
<1>1. DossierOK /\ JobsFit /\ JobsTidy
  BY DEF DossierInv
<1>2. job[j] \in Job /\ Fits(job[j]) /\ job[j].step = "reread"
  BY <1>1 DEF DossierOK, JobsFit, Reread, Has
<1>3. /\ UNCHANGED <<post, decisions, folder, files, stored, running, tidy>>
      /\ drive' \subseteq Stored /\ drive \subseteq drive' /\ drive' = drive
      /\ analysis' \in BOOLEAN /\ trees' \in 0 .. MaxTrees /\ work' \in 0 .. MaxWork
      /\ ~Has(j, "unlist") /\ job[j].step \in Carrying /\ job[j].step \in Placed
  BY <1>1, <1>2 DEF Reread, DossierOK, Has, Carrying, Placed
<1> DEFINE v == [job[j] EXCEPT !.step = "append", !.saw = files, !.fresh = TRUE]
<1>4. v \in Job
  BY <1>1, <1>2 DEF Job, JobSteps, DossierOK
<1>5. /\ v.step = "append" /\ v.saw = files
      /\ v.id = job[j].id /\ v.file = job[j].file /\ v.next = job[j].next
  BY <1>2 DEF Job
<1>6. job' = [job EXCEPT ![j] = v]
  BY DEF Reread, ListNow
<1> HIDE DEF v
<1>7. Fits(v) /\ Homed(v)
  BY <1>2, <1>5 DEF Fits, LevelsFit, GrantsFit, LookFits, Housed, Homed, Listing, Placed
<1>8. tidy => LiesOn(v, drive') /\ \A i \in Jobs : i # j => job[i].id # v.id
  BY <1>1, <1>3, <1>5 DEF JobsTidy, FitsTidy, LiesOn, Apart
<1> QED
  BY <1>3, <1>4, <1>5, <1>6, <1>7, <1>8, Onward

(* A new upload has a name that none under way has. *)
LEMMA AdmitKeeps ==
  ASSUME DossierInv, NEW j \in Jobs, Admit(j)
  PROVE  DossierInv'
<1>1. DossierOK /\ JobsFit /\ JobsTidy /\ Announced
  BY DEF DossierInv
<1>2. job[j] \in Job /\ Fits(job[j]) /\ (tidy => Homed(job[j])) /\ job[j].step = "admit"
  BY <1>1 DEF DossierOK, JobsFit, JobsTidy, FitsTidy, Admit, Has
<1>3. /\ UNCHANGED <<post, decisions, folder, files, stored, drive>>
      /\ drive' \subseteq Stored /\ drive \subseteq drive'
      /\ analysis' \in BOOLEAN /\ trees' \in 0 .. MaxTrees /\ work' \in 0 .. MaxWork
      /\ ~Has(j, "unlist") /\ tidy' \in BOOLEAN /\ (tidy' => tidy)
  BY <1>1, <1>2 DEF Admit, Tidy, DossierOK, Has
<1>4. \A i \in Jobs : i # j => (tidy => LiesOn(job[i], drive) /\ Apart(job[i], job[j]))
  BY <1>1 DEF JobsTidy, FitsTidy
<1>5. CASE Again(j)
  <2>1. NoJob \in Job /\ Fits(NoJob) /\ Homed(NoJob) /\ NoJob.step = "none" /\ NoJob.id = 0
    BY NoJobIsJob, NoJobFits DEF NoJob, FitsTidy
  <2>2. job' = [job EXCEPT ![j] = NoJob] /\ running' = running
    BY <1>5 DEF Admit, Done
  <2> QED
    BY <1>3, <2>1, <2>2, Bystander DEF Carrying
<1>6. CASE ~Again(j)
  <2> DEFINE v == [job[j] EXCEPT !.step = "workspace"]
  <2>1. v \in Job
    BY <1>2 DEF Job, JobSteps
  <2>2. /\ v.step = "workspace" /\ v.file = job[j].file /\ v.id = job[j].id
        /\ v.in = job[j].in /\ v.next = job[j].next
    BY <1>2 DEF Job
  <2>3. job' = [job EXCEPT ![j] = v] /\ running' = running \cup job[j].file
    BY <1>6 DEF Admit, Proceed
  <2> HIDE DEF v
  <2>4. Fits(v) /\ (tidy => Homed(v)) /\ LiesOn(v, drive') /\ v.step \notin Placed
    BY <1>2, <2>2 DEF Fits, LevelsFit, GrantsFit, LookFits, Housed, Homed, LiesOn, Listing, Placed
  <2>5. job[j].file \cap running = {}
    BY <1>6 DEF Again
  <2>6. \A i \in Jobs : i # j /\ job[i].step \in Carrying =>
          job[i].file \subseteq running' /\ job[i].file \cap v.file = {}
    BY <1>1, <2>2, <2>3, <2>5 DEF Announced
  <2>7. \A i \in Jobs : i # j => NamedApart(job[i], v)
    BY <2>6 DEF NamedApart
  <2>8. running' \subseteq Names /\ v.file \subseteq running'
    <3>1. job[j].file \subseteq Names
      BY <1>2 DEF Job, Maybe
    <3> QED
      BY <1>1, <2>2, <2>3, <3>1 DEF DossierOK
  <2>9. tidy' => NotYetListed(v)
    BY <1>6, <2>2 DEF Admit, Tidy, NotYetListed
  <2>10. ASSUME tidy', NEW i \in Jobs, i # j
         PROVE  Apart(job[i], v) /\ Apart(v, job[i])
    BY <1>3, <1>4, <2>2, <2>4, <2>10 DEF Apart
  <2> QED
    BY <1>3, <2>1, <2>3, <2>4, <2>6, <2>7, <2>8, <2>9, <2>10, JobMoves
<1> QED
  BY <1>5, <1>6

LEMMA DriveFailsKeeps ==
  ASSUME DossierInv, NEW j \in Jobs, DriveFails(j)
  PROVE  DossierInv'
<1>1. DossierOK /\ JobsTidy /\ Announced
  BY DEF DossierInv
<1>2. /\ UNCHANGED <<post, decisions, folder, files, stored, drive, tidy>>
      /\ drive' \subseteq Stored /\ drive \subseteq drive'
      /\ analysis' \in BOOLEAN /\ trees' \in 0 .. MaxTrees /\ work' \in 0 .. MaxWork
      /\ tidy' \in BOOLEAN /\ (tidy' => tidy)
      /\ running' = running \ job[j].file /\ running' \subseteq Names
      /\ job[j].step \in Carrying /\ ~Has(j, "unlist")
      /\ job' = [job EXCEPT ![j] = NoJob]
  BY <1>1 DEF DriveFails, Done, DossierOK, Carrying, Has
<1>3. /\ NoJob \in Job /\ Fits(NoJob) /\ Homed(NoJob) /\ NotYetListed(NoJob)
      /\ NoJob.step = "none" /\ NoJob.id = 0
  BY NoJobIsJob, NoJobFits DEF NoJob, FitsTidy
<1>4. LiesOn(NoJob, drive') /\ NoJob.step \notin Carrying /\ NoJob.step \notin Placed
  BY <1>3 DEF LiesOn, Carrying, Placed
<1>5. \A i \in Jobs : i # j /\ job[i].step \in Carrying => job[i].file \subseteq running'
  BY <1>1, <1>2 DEF Announced, NamedApart
<1>6. \A i \in Jobs : i # j => NamedApart(job[i], NoJob)
  BY <1>4 DEF NamedApart
<1>7. ASSUME tidy', NEW i \in Jobs, i # j
      PROVE  Apart(job[i], NoJob) /\ Apart(NoJob, job[i])
  BY <1>3, <1>4, StoredHaveIds DEF Apart
<1> QED
  BY <1>2, <1>3, <1>4, <1>5, <1>6, <1>7, JobMoves

(* The first to find a folder names it in the row; later ones have found the same, or
   overtook it. *)
LEMMA KeepFolderKeeps ==
  ASSUME DossierInv, NEW j \in Jobs, KeepFolder(j)
  PROVE  DossierInv'
<1>1. DossierOK /\ RecordAddsUp /\ FilesStay /\ JobsFit /\ Announced /\ JobsTidy
  BY DEF DossierInv
<1>2. job[j] \in Job /\ Fits(job[j]) /\ job[j].step = "keep" /\ job \in [Jobs -> Job]
  BY <1>1 DEF DossierOK, JobsFit, KeepFolder, Has
<1>3. job[j].in # {} /\ job[j].in \in Maybe(Trees)
  BY <1>2 DEF Fits, Housed, Job, Placed
<1> DEFINE v == InFolder(job[j])
<1>4. /\ v \in Job /\ Fits(v) /\ v.file \subseteq job[j].file
      /\ v.id = job[j].id \/ v.id = 0
      /\ v.step \in {"none", "upload"} /\ (v.step = "upload" => v.in = job[j].in)
  BY <1>2, <1>3, InFolderFits DEF Listing, Fits
<1>5. /\ folder' = job[j].in /\ job' = [job EXCEPT ![j] = v]
      /\ tidy' = (tidy /\ folder \subseteq job[j].in)
      /\ UNCHANGED <<analysis, post, decisions, files, drive, trees, running, stored, work>>
  BY DEF KeepFolder, Kept, Tidy
<1> HIDE DEF v
<1>6. \A i \in Jobs : job'[i] = IF i = j THEN v ELSE job[i]
  BY <1>2, <1>5
<1>7. DossierOK'
  <2>1. job' \in [Jobs -> Job] /\ tidy' \in BOOLEAN
    BY <1>2, <1>4, <1>5
  <2> QED
    BY <1>1, <1>3, <1>5, <2>1 DEF DossierOK
<1>8. RecordAddsUp'
  BY <1>1, <1>5 DEF RecordAddsUp
<1>9. tidy' => tidy /\ (folder = {} \/ folder' = folder)
  <2>1. folder \in Maybe(Trees)
    BY <1>1 DEF DossierOK
  <2> QED
    BY <1>3, <1>5, <2>1 DEF Maybe
<1>10. \A i \in Jobs : Has(i, "unlist") => Has(i, "unlist")' /\ job'[i].id = job[i].id
  BY <1>2, <1>6 DEF Has
<1>11. FilesStay'
  <2>1. ASSUME tidy', NEW f \in files
        PROVE  \/ \E x \in drive : x.id = f.id /\ folder' = {x.in}
               \/ \E i \in Jobs : Has(i, "unlist")' /\ job'[i].id = f.id
    <3>1. \/ \E x \in drive : x.id = f.id /\ folder = {x.in}
          \/ \E i \in Jobs : Has(i, "unlist") /\ job[i].id = f.id
      BY <1>1, <1>9, <2>1 DEF FilesStay
    <3>2. CASE \E x \in drive : x.id = f.id /\ folder = {x.in}
      BY <1>9, <2>1, <3>2
    <3>3. CASE \E i \in Jobs : Has(i, "unlist") /\ job[i].id = f.id
      BY <1>10, <3>3
    <3> QED
      BY <3>1, <3>2, <3>3
  <2>2. tidy' => stored' = files' /\ \A f, g \in files' : f.name = g.name => f = g
    BY <1>1, <1>5, <1>9 DEF FilesStay
  <2> QED
    BY <1>5, <2>1, <2>2 DEF FilesStay
<1>12. \A i \in Jobs : Fits(job'[i])
  BY <1>1, <1>4, <1>6 DEF JobsFit
<1>13. JobsFit'
  BY <1>5, <1>12 DEF JobsFit, Fits, LevelsFit, GrantsFit, LookFits, Housed, Placed
<1>14. Announced'
  <2>1. \A i \in Jobs : job'[i].step \in Carrying => job'[i].file \subseteq running
    BY <1>1, <1>2, <1>4, <1>6 DEF Announced, Carrying
  <2>2. \A i \in Jobs : i # j => NamedApart(job[i], v) /\ NamedApart(v, job[i])
    <3>1. job[j].step \in Carrying
      BY <1>2 DEF Carrying
    <3> QED
      BY <1>1, <1>4, <3>1 DEF Announced, NamedApart
  <2>3. \A i, k \in Jobs : i # k => NamedApart(job'[i], job'[k])
    BY <1>1, <1>6, <2>2 DEF Announced
  <2> QED
    BY <1>5, <2>1, <2>3 DEF Announced, NamedApart
<1>15. JobsTidy'
  <2>1. SUFFICES ASSUME tidy'
                 PROVE  /\ \A i \in Jobs : FitsTidy(job[i])'
                        /\ \A i, k \in Jobs : i # k => Apart(job'[i], job'[k])
    BY DEF JobsTidy, Apart, Placed
  <2>2. /\ \A i \in Jobs : Homed(job[i]) /\ NotYetListed(job[i]) /\ LiesOn(job[i], drive)
        /\ \A i, k \in Jobs : i # k => Apart(job[i], job[k])
    BY <1>1, <1>9, <2>1 DEF JobsTidy, FitsTidy
  <2>3. ASSUME NEW i \in Jobs
        PROVE  FitsTidy(job[i])'
    <3>1. CASE i = j
      <4>1. Homed(job[i])'
        BY <1>4, <1>5, <1>6, <3>1 DEF Homed
      <4>2. NotYetListed(job[i])'
        <5>1. NotYetListed(v)
          <6>1. NotYetListed(job[j]) /\ job[j].step \in Carrying
            BY <1>2, <2>2 DEF Carrying
          <6> QED
            BY <1>4, <6>1 DEF NotYetListed
        <5>2. job'[i] = v
          BY <1>6, <3>1
        <5> QED
          BY <1>5, <5>1, <5>2 DEF NotYetListed, NamesIn
      <4>3. LiesOn(job[i], drive)'
        BY <1>4, <1>6, <3>1 DEF LiesOn, Placed
      <4> QED
        BY <4>1, <4>2, <4>3 DEF FitsTidy
    <3>2. CASE i # j
      <4>1. job'[i] = job[i]
        BY <1>6, <3>2
      <4>2. Homed(job[i])'
        BY <1>9, <2>1, <2>2, <4>1 DEF Homed
      <4>3. NotYetListed(job[i])'
        BY <1>5, <2>2, <4>1 DEF NotYetListed, NamesIn
      <4>4. LiesOn(job[i], drive)'
        BY <1>5, <1>9, <2>1, <2>2, <4>1 DEF LiesOn
      <4> QED
        BY <4>2, <4>3, <4>4 DEF FitsTidy
    <3> QED
      BY <3>1, <3>2
  <2>4. \A i \in Jobs : i # j => Apart(job[i], v) /\ Apart(v, job[i])
    BY <1>4, <2>2, StoredHaveIds DEF Apart, Placed
  <2>5. \A i, k \in Jobs : i # k => Apart(job'[i], job'[k])
    BY <1>6, <2>2, <2>4
  <2> QED
    BY <2>3, <2>5
<1> QED
  BY <1>7, <1>8, <1>11, <1>13, <1>14, <1>15 DEF DossierInv

(* A request ends by writing: of the others only their freshness is lost. *)
LEMMA OthersOvertaken ==
  ASSUME job \in [Jobs -> Job], NEW j \in Jobs, NEW steps, Overtakes(j, steps)
  PROVE  /\ job' \in [Jobs -> Job]
         /\ job'[j] = NoJob
         /\ \A i \in Jobs : i # j =>
              /\ job'[i].step = job[i].step /\ job'[i].primary = job[i].primary
              /\ job'[i].others = job[i].others /\ job'[i].next = job[i].next
              /\ job'[i].file = job[i].file /\ job'[i].id = job[i].id
              /\ job'[i].in = job[i].in /\ job'[i].saw = job[i].saw
              /\ job'[i].fresh => job[i].fresh /\ job[i].step \notin steps
<1>1. ASSUME NEW v \in Job
      PROVE  /\ [v EXCEPT !.fresh = FALSE] \in Job
             /\ ~[v EXCEPT !.fresh = FALSE].fresh
             /\ [v EXCEPT !.fresh = FALSE].step = v.step
             /\ [v EXCEPT !.fresh = FALSE].primary = v.primary
             /\ [v EXCEPT !.fresh = FALSE].others = v.others
             /\ [v EXCEPT !.fresh = FALSE].next = v.next
             /\ [v EXCEPT !.fresh = FALSE].file = v.file
             /\ [v EXCEPT !.fresh = FALSE].id = v.id
             /\ [v EXCEPT !.fresh = FALSE].in = v.in
             /\ [v EXCEPT !.fresh = FALSE].saw = v.saw
  BY DEF Job
<1>2. \A i \in Jobs : job'[i] = IF i = j THEN NoJob
                                ELSE IF job[i].step \in steps THEN [job[i] EXCEPT !.fresh = FALSE]
                                ELSE job[i]
  BY DEF Overtakes
<1>3. \A i \in Jobs : job'[i] \in Job
  BY <1>1, <1>2, NoJobIsJob
<1>4. job' \in [Jobs -> Job]
  BY <1>3 DEF Overtakes
<1>5. ASSUME NEW i \in Jobs, i # j
      PROVE  /\ job'[i].step = job[i].step /\ job'[i].primary = job[i].primary
             /\ job'[i].others = job[i].others /\ job'[i].next = job[i].next
             /\ job'[i].file = job[i].file /\ job'[i].id = job[i].id
             /\ job'[i].in = job[i].in /\ job'[i].saw = job[i].saw
             /\ job'[i].fresh => job[i].fresh /\ job[i].step \notin steps
  <2>1. job[i] \in Job
    OBVIOUS
  <2>2. CASE job[i].step \in steps
    <3>1. job'[i] = [job[i] EXCEPT !.fresh = FALSE]
      BY <1>2, <1>5, <2>2
    <3> QED
      BY <1>1, <2>1, <3>1
  <2>3. CASE job[i].step \notin steps
    <3>1. job'[i] = job[i]
      BY <1>2, <1>5, <2>3
    <3> QED
      BY <2>3, <3>1
  <2> QED
    BY <2>2, <2>3
<1>6. job'[j] = NoJob
  BY <1>2
<1> QED
  BY <1>4, <1>5, <1>6

(* Where what was written is not what another is about to write, or that one is overtaken,
   all the others go on. *)
LEMMA WriteKeepsJobs ==
  ASSUME DossierInv, NEW j \in Jobs, NEW steps, Overtakes(j, steps),
         UNCHANGED <<folder, drive>>,
         post' = post \/ "update" \in steps,
         files' = files \/ Listing \subseteq steps,
         running' = running \/ (running' = running \ job[j].file /\ job[j].step \in Carrying),
         tidy' => tidy,
         tidy' => \A i \in Jobs : i # j /\ job[i].step \in Carrying =>
                    job[i].file \cap NamesIn(files') = {},
         tidy' => \A i \in Jobs : i # j /\ job[i].step \in Placed =>
                    \A f \in files' : f.id # job[i].id
  PROVE  job' \in [Jobs -> Job] /\ JobsFit' /\ Announced' /\ JobsTidy'
<1>1. DossierOK /\ JobsFit /\ Announced /\ JobsTidy /\ job \in [Jobs -> Job]
  BY DEF DossierInv, DossierOK
<1>2. job' \in [Jobs -> Job] /\ job'[j] = NoJob
  BY <1>1, OthersOvertaken
<1>3. \A i \in Jobs : i # j =>
              /\ job'[i].step = job[i].step /\ job'[i].primary = job[i].primary
              /\ job'[i].others = job[i].others /\ job'[i].next = job[i].next
              /\ job'[i].file = job[i].file /\ job'[i].id = job[i].id
              /\ job'[i].in = job[i].in /\ job'[i].saw = job[i].saw
              /\ job'[i].fresh => job[i].fresh /\ job[i].step \notin steps
  BY <1>1, OthersOvertaken
<1>4. NoJob.step = "none" /\ NoJob.next = {} /\ NoJob.id = 0
  BY DEF NoJob
<1>5. ASSUME NEW i \in Jobs
      PROVE  Fits(job[i])'
  <2>1. CASE i = j
    BY <1>2, <1>4, <2>1 DEF Fits, LevelsFit, GrantsFit, LookFits, Housed, Listing, Placed
  <2>2. CASE i # j
    <3>1. Fits(job[i])
      BY <1>1 DEF JobsFit
    <3>2. LevelsFit(job[i])'
      BY <1>3, <2>2, <3>1 DEF Fits, LevelsFit
    <3>3. GrantsFit(job[i])'
      BY <1>3, <2>2, <3>1 DEF Fits, GrantsFit
    <3>4. LookFits(job[i])'
      BY <1>3, <2>2, <3>1 DEF Fits, LookFits
    <3>5. Housed(job[i])'
      BY <1>3, <2>2, <3>1 DEF Fits, Housed, Placed
    <3> QED
      BY <3>2, <3>3, <3>4, <3>5 DEF Fits
  <2> QED
    BY <2>1, <2>2
<1>6. Announced'
  <2>1. ASSUME NEW i \in Jobs, job'[i].step \in Carrying
        PROVE  job'[i].file \subseteq running'
    <3>1. i # j
      BY <1>2, <1>4, <2>1 DEF Carrying
    <3>2. job[i].step \in Carrying /\ job'[i].file = job[i].file
      BY <1>3, <2>1, <3>1
    <3>3. job[i].file \subseteq running /\ NamedApart(job[i], job[j])
      BY <1>1, <3>1, <3>2 DEF Announced
    <3> QED
      BY <3>2, <3>3 DEF NamedApart
  <2>2. ASSUME NEW i \in Jobs, NEW k \in Jobs, i # k
        PROVE  NamedApart(job'[i], job'[k])
    <3>1. NamedApart(job[i], job[k])
      BY <1>1, <2>2 DEF Announced
    <3> QED
      BY <1>2, <1>3, <1>4, <3>1 DEF NamedApart, Carrying
  <2> QED
    BY <2>1, <2>2 DEF Announced, NamedApart
<1>7. JobsTidy'
  <2>1. SUFFICES ASSUME tidy'
                 PROVE  /\ \A i \in Jobs : FitsTidy(job[i])'
                        /\ \A i, k \in Jobs : i # k => Apart(job'[i], job'[k])
    BY DEF JobsTidy, Apart, Placed
  <2>2. /\ \A i \in Jobs : Homed(job[i]) /\ NotYetListed(job[i]) /\ LiesOn(job[i], drive)
        /\ \A i, k \in Jobs : i # k => Apart(job[i], job[k])
    BY <1>1, <2>1 DEF JobsTidy, FitsTidy
  <2>3. ASSUME NEW i \in Jobs
        PROVE  FitsTidy(job[i])'
    <3>1. CASE i = j
      BY <1>2, <1>4, <3>1 DEF FitsTidy, Homed, NotYetListed, LiesOn, Carrying, Placed
    <3>2. CASE i # j
      <4>1. Homed(job[i])'
        BY <1>3, <2>2, <3>2 DEF Homed
      <4>2. NotYetListed(job[i])'
        BY <1>3, <2>1, <3>2 DEF NotYetListed, NamesIn
      <4>3. LiesOn(job[i], drive)'
        BY <1>3, <2>1, <2>2, <3>2 DEF LiesOn
      <4> QED
        BY <4>1, <4>2, <4>3 DEF FitsTidy
    <3> QED
      BY <3>1, <3>2
  <2>4. ASSUME NEW i \in Jobs, NEW k \in Jobs, i # k
        PROVE  Apart(job'[i], job'[k])
    <3>1. Apart(job[i], job[k])
      BY <2>2, <2>4
    <3>2. CASE i = j
      BY <1>2, <1>4, <3>2 DEF Apart, Placed
    <3>3. CASE i # j /\ k = j
      BY <1>2, <1>3, <1>4, <3>3, StoredHaveIds DEF Apart
    <3>4. CASE i # j /\ k # j
      BY <1>3, <3>1, <3>4 DEF Apart
    <3> QED
      BY <3>2, <3>3, <3>4
  <2> QED
    BY <2>3, <2>4
<1> QED
  BY <1>2, <1>5, <1>6, <1>7 DEF JobsFit

(* What is written about the levels and the facilities is not about the files. *)
LEMMA FilesElsewhere ==
  ASSUME DossierInv, NEW j \in Jobs, NEW steps, Overtakes(j, steps), ~Has(j, "unlist"),
         UNCHANGED <<folder, files, drive, stored>>, tidy' => tidy
  PROVE  FilesStay'
<1>1. FilesStay /\ job \in [Jobs -> Job]
  BY DEF DossierInv, DossierOK
<1>2. \A i \in Jobs : i # j => job'[i].step = job[i].step /\ job'[i].id = job[i].id
  BY <1>1, OthersOvertaken
<1>3. \A i \in Jobs : Has(i, "unlist") => Has(i, "unlist")' /\ job'[i].id = job[i].id
  BY <1>2 DEF Has
<1>4. ASSUME tidy', NEW f \in files
      PROVE  \/ \E x \in drive : x.id = f.id /\ folder' = {x.in}
             \/ \E i \in Jobs : Has(i, "unlist")' /\ job'[i].id = f.id
  <2>1. \/ \E x \in drive : x.id = f.id /\ folder = {x.in}
        \/ \E i \in Jobs : Has(i, "unlist") /\ job[i].id = f.id
    BY <1>1, <1>4 DEF FilesStay
  <2>2. CASE \E x \in drive : x.id = f.id /\ folder = {x.in}
    BY <2>2
  <2>3. CASE \E i \in Jobs : Has(i, "unlist") /\ job[i].id = f.id
    BY <1>3, <2>3
  <2> QED
    BY <2>1, <2>2, <2>3
<1>5. tidy' => stored' = files' /\ \A f, g \in files' : f.name = g.name => f = g
  BY <1>1 DEF FilesStay
<1> QED
  BY <1>4, <1>5 DEF FilesStay

LEMMA TidyStays ==
  ASSUME DossierInv
  PROVE  /\ tidy => \A i \in Jobs : job[i].step \in Carrying => job[i].file \cap NamesIn(files) = {}
         /\ tidy => \A i \in Jobs : job[i].step \in Placed => \A f \in files : f.id # job[i].id
BY DEF DossierInv, JobsTidy, FitsTidy, NotYetListed, LiesOn

LEMMA CommitUpdateKeeps ==
  ASSUME DossierInv, NEW j \in Jobs, CommitUpdate(j)
  PROVE  DossierInv'
<1>1. DossierOK /\ RecordAddsUp /\ JobsFit
  BY DEF DossierInv
<1>2. job[j] \in Job /\ LevelsFit(job[j]) /\ job[j].step = "update"
  BY <1>1 DEF DossierOK, JobsFit, Fits, CommitUpdate, Has
<1>3. /\ Overtakes(j, {"update"}) /\ ~Has(j, "unlist")
      /\ UNCHANGED <<analysis, decisions, folder, files, drive, trees, running, stored, work>>
      /\ tidy' = (tidy /\ job[j].fresh)
  BY <1>2 DEF CommitUpdate, Tidy, Has
<1>4. job' \in [Jobs -> Job] /\ JobsFit' /\ Announced' /\ JobsTidy'
  <2>1. NamesIn(files') = NamesIn(files) /\ (tidy' => tidy) /\ "update" \in {"update"}
    BY <1>3 DEF NamesIn
  <2> QED
    BY <1>3, <2>1, TidyStays, WriteKeepsJobs
<1>5. FilesStay'
  BY <1>3, FilesElsewhere
<1>6. post.primary \in Levels /\ post.others \subseteq Levels
  BY <1>1 DEF DossierOK, Post
<1>7. job[j].primary = {} \/ \E x \in Levels : job[j].primary = {x}
  BY <1>2 DEF Job, Maybe
<1>8. job[j].others = {} \/ \E o \in SUBSET Levels : job[j].others = {o}
  BY <1>2 DEF Job, Maybe
<1>9. /\ post'.primary = IF job[j].primary = {} THEN post.primary
                                                 ELSE CHOOSE x \in job[j].primary : TRUE
      /\ post'.others = IF job[j].others = {} THEN post.others ELSE UNION job[j].others
      /\ post' = [primary |-> post'.primary, others |-> post'.others]
  BY DEF CommitUpdate
<1>10. post' \in Post
  <2>1. post'.primary \in Levels
    BY <1>6, <1>7, <1>9
  <2>2. post'.others \subseteq Levels
    BY <1>6, <1>8, <1>9
  <2> QED
    BY <1>9, <2>1, <2>2 DEF Post
<1>11. ASSUME tidy'
       PROVE  post'.primary \notin post'.others
  <2>1. tidy /\ job[j].fresh /\ post.primary \notin post.others
    BY <1>1, <1>3, <1>11 DEF RecordAddsUp
  <2>2. CASE job[j].others = {}
    BY <1>2, <1>9, <2>1, <2>2 DEF LevelsFit
  <2>3. CASE job[j].others # {}
    <3>1. PICK o : job[j].others = {o}
      BY <1>8, <2>3
    <3>2. post'.others = o
      BY <1>9, <3>1
    <3>3. CASE job[j].primary = {}
      BY <1>2, <1>9, <2>1, <3>1, <3>2, <3>3 DEF LevelsFit
    <3>4. CASE job[j].primary # {}
      <4>1. PICK x : job[j].primary = {x}
        BY <1>7, <3>4
      <4>2. post'.primary = x
        BY <1>9, <4>1
      <4> QED
        BY <1>2, <3>1, <3>2, <4>1, <4>2 DEF LevelsFit
    <3> QED
      BY <3>3, <3>4
  <2> QED
    BY <2>2, <2>3
<1>12. RecordAddsUp'
  BY <1>1, <1>3, <1>11 DEF RecordAddsUp
<1>13. DossierOK'
  BY <1>1, <1>3, <1>4, <1>10 DEF DossierOK
<1> QED
  BY <1>4, <1>5, <1>12, <1>13 DEF DossierInv

LEMMA CommitFacilitiesKeeps ==
  ASSUME DossierInv, NEW j \in Jobs, CommitFacilities(j)
  PROVE  DossierInv'
<1>1. DossierOK /\ RecordAddsUp /\ JobsFit
  BY DEF DossierInv
<1>2. job[j] \in Job /\ GrantsFit(job[j]) /\ job[j].step = "facilities"
  BY <1>1 DEF DossierOK, JobsFit, Fits, CommitFacilities, Has
<1>3. /\ Overtakes(j, {"facilities"}) /\ ~Has(j, "unlist")
      /\ UNCHANGED <<analysis, post, folder, files, drive, trees, running, stored, work>>
      /\ tidy' = (tidy /\ job[j].fresh)
  BY <1>2 DEF CommitFacilities, Tidy, Has
<1>4. job' \in [Jobs -> Job] /\ JobsFit' /\ Announced' /\ JobsTidy'
  <2>1. NamesIn(files') = NamesIn(files) /\ (tidy' => tidy)
    BY <1>3 DEF NamesIn
  <2> QED
    BY <1>3, <2>1, TidyStays, WriteKeepsJobs
<1>5. FilesStay'
  BY <1>3, FilesElsewhere
<1>6. PICK next \in job[j].next : decisions' = next
  BY DEF CommitFacilities
<1>7. next \in [Facilities -> Decision]
  BY <1>2, <1>6 DEF Job, Maybe
<1>8. RecordAddsUp'
  BY <1>1, <1>2, <1>3, <1>6 DEF RecordAddsUp, GrantsFit
<1>9. DossierOK'
  BY <1>1, <1>3, <1>4, <1>6, <1>7 DEF DossierOK
<1> QED
  BY <1>4, <1>5, <1>8, <1>9 DEF DossierInv

LEMMA AppendFileKeeps ==
  ASSUME DossierInv, NEW j \in Jobs, AppendFile(j)
  PROVE  DossierInv'
<1>1. DossierOK /\ RecordAddsUp /\ FilesStay /\ JobsFit /\ Announced /\ JobsTidy
  BY DEF DossierInv
<1>2. job[j] \in Job /\ LookFits(job[j]) /\ job[j].step = "append" /\ job \in [Jobs -> Job]
  BY <1>1 DEF DossierOK, JobsFit, Fits, AppendFile, Has
<1>3. /\ Overtakes(j, Listing) /\ tidy' = (tidy /\ job[j].fresh)
      /\ files' = job[j].saw \cup Added(j) /\ stored' = stored \cup Added(j)
      /\ running' = running \ job[j].file
      /\ UNCHANGED <<analysis, post, decisions, folder, drive, trees, work>>
  BY DEF AppendFile, Tidy, Listing
<1>4. job[j].step \in Carrying /\ job[j].step \in Placed /\ ~Has(j, "unlist")
  BY <1>2 DEF Carrying, Placed, Has
<1>5. \A f \in Added(j) : f.name \in job[j].file /\ f.id = job[j].id
  BY DEF Added
<1>6. ASSUME tidy'
      PROVE  /\ tidy /\ files' = files \cup Added(j) /\ stored = files
             /\ \A f, g \in files : f.name = g.name => f = g
             /\ job[j].file \cap NamesIn(files) = {}
             /\ LiesOn(job[j], drive)
  BY <1>1, <1>2, <1>3, <1>4, <1>6 DEF LookFits, Listing, FilesStay, JobsTidy, FitsTidy, NotYetListed
<1>7. ASSUME tidy', NEW i \in Jobs, i # j, job[i].step \in Carrying
      PROVE  job[i].file \cap NamesIn(files') = {}
  <2>1. job[i].file \cap NamesIn(files) = {} /\ NamedApart(job[i], job[j])
    BY <1>1, <1>6, <1>7, TidyStays DEF Announced
  <2>2. job[i].file \cap job[j].file = {}
    BY <1>4, <1>7, <2>1 DEF NamedApart
  <2> QED
    BY <1>5, <1>6, <1>7, <2>1, <2>2 DEF NamesIn
<1>8. ASSUME tidy', NEW i \in Jobs, i # j, job[i].step \in Placed
      PROVE  \A f \in files' : f.id # job[i].id
  <2>1. Apart(job[i], job[j]) /\ \A f \in files : f.id # job[i].id
    BY <1>1, <1>6, <1>8, TidyStays DEF JobsTidy
  <2> QED
    BY <1>5, <1>6, <1>8, <2>1 DEF Apart
<1>9. job' \in [Jobs -> Job] /\ JobsFit' /\ Announced' /\ JobsTidy'
  <2>1. UNCHANGED <<folder, drive>> /\ post' = post /\ (tidy' => tidy) /\ Listing \subseteq Listing
    BY <1>3
  <2> QED
    BY <1>3, <1>4, <1>7, <1>8, <2>1, WriteKeepsJobs
<1>10. RecordAddsUp'
  BY <1>1, <1>3 DEF RecordAddsUp
<1>11. Added(j) \subseteq File
  <2>1. ASSUME NEW f \in Added(j)
        PROVE  f \in File
    <3>1. PICK n \in job[j].file : f = [name |-> n, id |-> job[j].id]
      BY DEF Added
    <3>2. n \in Names /\ job[j].id \in 0 .. MaxUploads
      BY <1>2 DEF Job, Maybe
    <3>3. job[j].id # 0
      BY <1>4, StoredHaveIds
    <3> QED
      BY <3>1, <3>2, <3>3 DEF File
  <2> QED
    BY <2>1
<1>12. DossierOK'
  <2>1. job[j].saw \subseteq File
    BY <1>2 DEF Job
  <2>2. files' \subseteq File /\ stored' \subseteq File /\ running' \subseteq Names /\ tidy' \in BOOLEAN
    BY <1>1, <1>3, <1>11, <2>1 DEF DossierOK
  <2> QED
    BY <1>1, <1>3, <1>9, <2>2 DEF DossierOK
<1>13. FilesStay'
  <2>1. SUFFICES ASSUME tidy'
                 PROVE  FilesStay'
    BY DEF FilesStay
  <2>2. stored' = files'
    BY <1>3, <1>6, <2>1
  <2>3. \A f, g \in files' : f.name = g.name => f = g
    <3>1. \A f, g \in Added(j) : f.name = g.name => f = g
      BY DEF Added
    <3>2. \A f \in files, g \in Added(j) : f.name # g.name
      BY <1>5, <1>6, <2>1 DEF NamesIn
    <3> QED
      BY <1>6, <2>1, <3>1, <3>2
  <2>4. ASSUME NEW f \in files'
        PROVE  \/ \E x \in drive : x.id = f.id /\ folder = {x.in}
               \/ \E i \in Jobs : Has(i, "unlist")' /\ job'[i].id = f.id
    <3>1. CASE f \in Added(j)
      BY <1>4, <1>5, <1>6, <2>1, <3>1 DEF LiesOn
    <3>2. CASE f \in files
      <4>1. \/ \E x \in drive : x.id = f.id /\ folder = {x.in}
            \/ \E i \in Jobs : Has(i, "unlist") /\ job[i].id = f.id
        BY <1>1, <1>6, <2>1, <3>2 DEF FilesStay
      <4>2. CASE \E i \in Jobs : Has(i, "unlist") /\ job[i].id = f.id
        <5>1. PICK i \in Jobs : Has(i, "unlist") /\ job[i].id = f.id
          BY <4>2
        <5>2. job'[i].step = job[i].step /\ job'[i].id = job[i].id
          BY <1>2, <1>3, <1>4, <5>1, OthersOvertaken
        <5> QED
          BY <5>1, <5>2 DEF Has
      <4> QED
        BY <4>1, <4>2
    <3> QED
      BY <1>6, <2>1, <2>4, <3>1, <3>2
  <2> QED
    BY <1>3, <2>2, <2>3, <2>4 DEF FilesStay
<1> QED
  BY <1>9, <1>10, <1>12, <1>13 DEF DossierInv

(* What is discarded is about to be taken off the list; no upload under way has its id. *)
LEMMA DiscardKeeps ==
  ASSUME DossierInv, NEW j \in Jobs, Discard(j)
  PROVE  DossierInv'
<1>1. DossierOK /\ RecordAddsUp /\ FilesStay /\ JobsFit /\ Announced /\ JobsTidy
  BY DEF DossierInv
<1>2. job[j] \in Job /\ Fits(job[j]) /\ job[j].step = "discard" /\ job \in [Jobs -> Job]
  BY <1>1 DEF DossierOK, JobsFit, Discard, Has
<1> DEFINE v == [job[j] EXCEPT !.step = "unlist"]
<1>3. v \in Job
  BY <1>2 DEF Job, JobSteps
<1>4. /\ v.step = "unlist" /\ v.id = job[j].id /\ v.next = job[j].next
      /\ v.saw = job[j].saw /\ v.fresh = job[j].fresh
  BY <1>2 DEF Job
<1>5. job' = [job EXCEPT ![j] = v]
  BY DEF Discard, Proceed
<1> HIDE DEF v
<1>6. \A i \in Jobs : job'[i] = IF i = j THEN v ELSE job[i]
  BY <1>2, <1>5
<1>7. /\ UNCHANGED <<analysis, post, decisions, folder, files, trees, running, stored, work, tidy>>
      /\ drive' \subseteq drive /\ \A x \in drive : x.id # job[j].id => x \in drive'
  BY DEF Discard
<1>8. DossierOK'
  <2>1. job' \in [Jobs -> Job]
    BY <1>2, <1>3, <1>5
  <2> QED
    BY <1>1, <1>7, <2>1 DEF DossierOK
<1>9. RecordAddsUp'
  BY <1>1, <1>7 DEF RecordAddsUp
<1>10. FilesStay'
  <2>1. ASSUME tidy, NEW f \in files
        PROVE  \/ \E x \in drive' : x.id = f.id /\ folder = {x.in}
               \/ \E i \in Jobs : Has(i, "unlist")' /\ job'[i].id = f.id
    <3>1. CASE f.id = job[j].id
      BY <1>4, <1>6, <3>1 DEF Has
    <3>2. CASE f.id # job[j].id
      <4>1. \/ \E x \in drive : x.id = f.id /\ folder = {x.in}
            \/ \E i \in Jobs : Has(i, "unlist") /\ job[i].id = f.id
        BY <1>1, <2>1 DEF FilesStay
      <4>2. CASE \E x \in drive : x.id = f.id /\ folder = {x.in}
        BY <1>7, <3>2, <4>2
      <4>3. CASE \E i \in Jobs : Has(i, "unlist") /\ job[i].id = f.id
        BY <1>6, <3>2, <4>3 DEF Has
      <4> QED
        BY <4>1, <4>2, <4>3
    <3> QED
      BY <3>1, <3>2
  <2> QED
    BY <1>1, <1>7, <2>1 DEF FilesStay
<1>11. JobsFit'
  <2>1. Fits(v)
    BY <1>2, <1>4 DEF Fits, LevelsFit, GrantsFit, LookFits, Housed, Listing, Placed
  <2>2. \A i \in Jobs : Fits(job'[i])
    BY <1>1, <1>6, <2>1 DEF JobsFit
  <2> QED
    BY <1>7, <2>2 DEF JobsFit, Fits, LevelsFit, GrantsFit, LookFits, Housed
<1>12. Announced'
  <2>1. v.step \notin Carrying
    BY <1>4 DEF Carrying
  <2>2. \A i \in Jobs : job'[i].step \in Carrying => job'[i].file \subseteq running
    BY <1>1, <1>6, <2>1 DEF Announced
  <2>3. \A i, k \in Jobs : i # k => NamedApart(job'[i], job'[k])
    BY <1>1, <1>6, <2>1 DEF Announced, NamedApart
  <2> QED
    BY <1>7, <2>2, <2>3 DEF Announced, NamedApart
<1>13. JobsTidy'
  <2>1. SUFFICES ASSUME tidy
                 PROVE  /\ \A i \in Jobs : FitsTidy(job[i])'
                        /\ \A i, k \in Jobs : i # k => Apart(job'[i], job'[k])
    BY <1>7 DEF JobsTidy, Apart, Placed
  <2>2. /\ \A i \in Jobs : Homed(job[i]) /\ NotYetListed(job[i]) /\ LiesOn(job[i], drive)
        /\ \A i, k \in Jobs : i # k => Apart(job[i], job[k])
    BY <1>1, <2>1 DEF JobsTidy, FitsTidy
  <2>3. ASSUME NEW i \in Jobs
        PROVE  FitsTidy(job[i])'
    <3>1. CASE i = j
      BY <1>4, <1>6, <3>1 DEF FitsTidy, Homed, NotYetListed, LiesOn, Carrying, Placed
    <3>2. CASE i # j
      <4>1. job'[i] = job[i] /\ Apart(job[i], job[j])
        BY <1>6, <2>2, <3>2
      <4>2. Homed(job[i])' /\ NotYetListed(job[i])'
        BY <1>7, <2>2, <4>1 DEF Homed, NotYetListed, NamesIn
      <4>3. LiesOn(job[i], drive)'
        BY <1>7, <2>2, <4>1 DEF LiesOn, Apart
      <4> QED
        BY <4>2, <4>3 DEF FitsTidy
    <3> QED
      BY <3>1, <3>2
  <2>4. \A i, k \in Jobs : i # k => Apart(job'[i], job'[k])
    BY <1>4, <1>6, <2>2 DEF Apart, Placed
  <2> QED
    BY <2>3, <2>4
<1> QED
  BY <1>8, <1>9, <1>10, <1>11, <1>12, <1>13 DEF DossierInv

LEMMA UnlistKeeps ==
  ASSUME DossierInv, NEW j \in Jobs, Unlist(j)
  PROVE  DossierInv'
<1>1. DossierOK /\ RecordAddsUp /\ FilesStay /\ JobsFit /\ Announced /\ JobsTidy
  BY DEF DossierInv
<1>2. job[j] \in Job /\ LookFits(job[j]) /\ job[j].step = "unlist" /\ job \in [Jobs -> Job]
  BY <1>1 DEF DossierOK, JobsFit, Fits, Unlist, Has
<1>3. /\ Overtakes(j, Listing) /\ tidy' = (tidy /\ job[j].fresh)
      /\ files' = {f \in job[j].saw : f.id # job[j].id}
      /\ stored' = {f \in stored : f.id # job[j].id}
      /\ UNCHANGED <<analysis, post, decisions, folder, drive, trees, running, work>>
  BY DEF Unlist, Tidy, Listing
<1>4. ASSUME tidy'
      PROVE  /\ tidy /\ stored = files /\ files' = {f \in files : f.id # job[j].id}
             /\ \A f, g \in files : f.name = g.name => f = g
  BY <1>1, <1>2, <1>3, <1>4 DEF LookFits, Listing, FilesStay
<1>5. tidy' => NamesIn(files') \subseteq NamesIn(files)
  BY <1>4 DEF NamesIn
<1>6. job' \in [Jobs -> Job] /\ JobsFit' /\ Announced' /\ JobsTidy'
  <2>1. tidy' => \A i \in Jobs : i # j /\ job[i].step \in Carrying =>
                   job[i].file \cap NamesIn(files') = {}
    BY <1>4, <1>5, TidyStays
  <2>2. tidy' => \A i \in Jobs : i # j /\ job[i].step \in Placed =>
                   \A f \in files' : f.id # job[i].id
    BY <1>4, TidyStays
  <2>3. UNCHANGED <<folder, drive>> /\ post' = post /\ running' = running /\ (tidy' => tidy)
          /\ Listing \subseteq Listing
    BY <1>3
  <2> QED
    BY <1>3, <2>1, <2>2, <2>3, WriteKeepsJobs
<1>7. RecordAddsUp'
  BY <1>1, <1>3 DEF RecordAddsUp
<1>8. DossierOK'
  <2>1. job[j].saw \subseteq File
    BY <1>2 DEF Job
  <2> QED
    BY <1>1, <1>3, <1>6, <2>1 DEF DossierOK
<1>9. FilesStay'
  <2>1. SUFFICES ASSUME tidy'
                 PROVE  FilesStay'
    BY DEF FilesStay
  <2>2. stored' = files' /\ \A f, g \in files' : f.name = g.name => f = g
    BY <1>3, <1>4, <2>1
  <2>3. ASSUME NEW f \in files'
        PROVE  \/ \E x \in drive : x.id = f.id /\ folder = {x.in}
               \/ \E i \in Jobs : Has(i, "unlist")' /\ job'[i].id = f.id
    <3>1. f \in files /\ f.id # job[j].id
      BY <1>4, <2>1, <2>3
    <3>2. \/ \E x \in drive : x.id = f.id /\ folder = {x.in}
          \/ \E i \in Jobs : Has(i, "unlist") /\ job[i].id = f.id
      BY <1>1, <1>4, <2>1, <3>1 DEF FilesStay
    <3>3. CASE \E i \in Jobs : Has(i, "unlist") /\ job[i].id = f.id
      <4>1. PICK i \in Jobs : Has(i, "unlist") /\ job[i].id = f.id
        BY <3>3
      <4>2. job'[i].step = job[i].step /\ job'[i].id = job[i].id
        BY <1>2, <1>3, <3>1, <4>1, OthersOvertaken
      <4> QED
        BY <4>1, <4>2 DEF Has
    <3> QED
      BY <3>2, <3>3
  <2> QED
    BY <1>3, <2>2, <2>3 DEF FilesStay
<1> QED
  BY <1>6, <1>7, <1>8, <1>9 DEF DossierInv

LEMMA StopKeeps ==
  ASSUME DossierInv, Stop
  PROVE  DossierInv'
<1>1. DossierOK /\ RecordAddsUp /\ FilesStay
  BY DEF DossierInv
<1>2. /\ UNCHANGED <<analysis, post, decisions, folder, files, drive, trees, stored, work>>
      /\ running' = {} /\ job' = [j \in Jobs |-> NoJob]
      /\ tidy' = (tidy /\ \A j \in Jobs : ~Has(j, "unlist"))
  BY DEF Stop, Tidy
<1>3. \A j \in Jobs : job'[j] = NoJob
  BY <1>2
<1>4. NoJob.step = "none" /\ NoJob.next = {} /\ NoJob.id = 0
  BY DEF NoJob
<1>5. DossierOK'
  <2>1. job' \in [Jobs -> Job] /\ running' \subseteq Names /\ tidy' \in BOOLEAN
    BY <1>2, NoJobIsJob
  <2> QED
    BY <1>1, <1>2, <2>1 DEF DossierOK
<1>6. RecordAddsUp' /\ FilesStay'
  BY <1>1, <1>2 DEF RecordAddsUp, FilesStay
<1>7. JobsFit'
  BY <1>3, <1>4 DEF JobsFit, Fits, LevelsFit, GrantsFit, LookFits, Housed, Listing, Placed
<1>8. Announced'
  BY <1>3, <1>4 DEF Announced, NamedApart, Carrying
<1>9. JobsTidy'
  BY <1>3, <1>4 DEF JobsTidy, FitsTidy, Homed, NotYetListed, LiesOn, Apart, Carrying, Placed
<1> QED
  BY <1>5, <1>6, <1>7, <1>8, <1>9 DEF DossierInv

(* Nothing else is about the job analysis. *)
LEMMA NothingKeeps ==
  ASSUME DossierInv, analysis' \in BOOLEAN,
         UNCHANGED <<post, decisions, folder, files, drive, trees, running, job, stored, work, tidy>>
  PROVE  DossierInv'
<1>1. DossierOK' /\ RecordAddsUp' /\ FilesStay'
  BY DEF DossierInv, DossierOK, RecordAddsUp, FilesStay, Has
<1>2. JobsFit'
  BY DEF DossierInv, JobsFit, Fits, LevelsFit, GrantsFit, LookFits, Housed
<1>3. Announced' /\ JobsTidy'
  BY DEF DossierInv, Announced, NamedApart, JobsTidy, FitsTidy, Homed, NotYetListed, NamesIn,
         LiesOn, Apart
<1> QED
  BY <1>1, <1>2, <1>3 DEF DossierInv

LEMMA DossierStarts ==
  ASSUME DossierInit
  PROVE  DossierInv
<1>1. \A j \in Jobs : job[j] = NoJob
  BY DEF DossierInit
<1>2. NoJob.step = "none" /\ NoJob.next = {} /\ NoJob.id = 0
  BY DEF NoJob
<1>3. decisions \in [Facilities -> Decision] /\ \A f \in Facilities : decisions[f].status = "pending"
  BY DEF DossierInit, Decision
<1>4. DossierOK
  <2>1. job \in [Jobs -> Job] /\ post \in Post
    BY NoJobIsJob DEF DossierInit
  <2>2. folder \in Maybe(Trees) /\ trees \in 0 .. MaxTrees /\ work \in 0 .. MaxWork
    BY DossierAssumption DEF DossierInit, Maybe
  <2> QED
    BY <1>3, <2>1, <2>2 DEF DossierInit, DossierOK
<1>5. RecordAddsUp /\ FilesStay
  BY <1>3 DEF DossierInit, RecordAddsUp, FilesStay
<1>6. JobsFit
  BY <1>1, <1>2 DEF JobsFit, Fits, LevelsFit, GrantsFit, LookFits, Housed, Listing, Placed
<1>7. Announced
  BY <1>1, <1>2 DEF Announced, NamedApart, Carrying
<1>8. JobsTidy
  BY <1>1, <1>2 DEF JobsTidy, FitsTidy, Homed, NotYetListed, LiesOn, Apart, Carrying, Placed
<1> QED
  BY <1>4, <1>5, <1>6, <1>7, <1>8 DEF DossierInv

LEMMA DossierStep ==
  ASSUME DossierInv, [DossierNext]_dvars
  PROVE  DossierInv'
<1>1. DossierOK
  BY DEF DossierInv
<1>2. ASSUME NEW j \in Jobs,
             \/ Update(j) \/ CommitUpdate(j) \/ UpdateFacilities(j) \/ CommitFacilities(j)
             \/ SetupDriveWorkspace(j) \/ FindFolder(j)
      PROVE  DossierInv'
  BY <1>2, UpdateKeeps, CommitUpdateKeeps, UpdateFacilitiesKeeps, CommitFacilitiesKeeps,
     SetupDriveWorkspaceKeeps, FindFolderKeeps
<1>3. ASSUME NEW j \in Jobs,
             \/ CreateFolder(j) \/ KeepFolder(j) \/ AddAttachment(j) \/ Admit(j) \/ Upload(j)
             \/ Reread(j)
      PROVE  DossierInv'
  BY <1>3, CreateFolderKeeps, KeepFolderKeeps, AddAttachmentKeeps, AdmitKeeps, UploadKeeps,
     RereadKeeps
<1>4. ASSUME NEW j \in Jobs,
             \/ AppendFile(j) \/ RemoveAttachment(j) \/ Discard(j) \/ Unlist(j) \/ DriveFails(j)
      PROVE  DossierInv'
  BY <1>4, AppendFileKeeps, RemoveAttachmentKeeps, DiscardKeeps, UnlistKeeps, DriveFailsKeeps
<1>5. CASE Submitted
  BY <1>5, NothingKeeps DEF Submitted
<1>6. CASE Stop
  BY <1>6, StopKeeps
<1>7. CASE UNCHANGED dvars
  BY <1>1, <1>7, NothingKeeps DEF dvars, DossierOK
<1> QED
  BY <1>2, <1>3, <1>4, <1>5, <1>6, <1>7 DEF DossierNext

THEOREM DossierInvariant == DossierSpec => []DossierInv
<1>1. DossierInit => DossierInv
  BY DossierStarts
<1>2. DossierInv /\ [DossierNext]_dvars => DossierInv'
  BY DossierStep
<1> QED
  BY <1>1, <1>2, PTL DEF DossierSpec

(* The sheet offers no level twice and lists all that was granted; every file people added
   and did not remove is listed once, on Drive, in the folder the row names
   (requisition.service.ts, single-flight.ts). *)
THEOREM DossierTheorem == DossierSpec => []DossierInOrder
<1>1. DossierInv => DossierInOrder
  BY DEF DossierInv, DossierInOrder
<1> QED
  BY <1>1, DossierInvariant, PTL
=============================================================================
