--------------------------- MODULE AccountProofs ---------------------------
(***************************************************************************)
(* Theorems of Account for any number of requests, of wrong passwords that *)
(* lock the account and of wrong guesses that cancel a code.               *)
(*                                                                         *)
(* `AccountInv` adds to the properties what a request in flight may rely   *)
(* on (`Fits`) and where a reset code has been: it is in force, or it has  *)
(* become one token, or that token's password is no longer the newest      *)
(* (`CodesKept`).  Most of it holds only as long as every write landed on  *)
(* what its handler had read (`inOrder`).                                  *)
(*                                                                         *)
(* The second part has the theorem of Access for any number of requests,   *)
(* approvers, departments and levels.  `AccessInv` says what every request *)
(* knows of its errand (`Sense`), that a load nobody overtook saw what is  *)
(* held or on its way out (`LoadsHold`), that a gap in a path is being     *)
(* closed (`GapsClosed`), that the raiser's role goes after the paths it   *)
(* holds up (`PathsDropped`) and comes with them (`RaiserGranted`).        *)
(***************************************************************************)
EXTENDS Account, Access, FiniteSetTheorems, TLAPS

(* What a request in flight remembers agrees with the row and with itself; `made` is
   how many requests there have been, and `tokens` are those out to set a password. *)
Fits(v, row, made, tokens) ==
  /\ v.saw.tv <= row.tv
  /\ v.write \in {"clear", "admit"} => v.second \/ v.proved = v.saw.tv
  /\ v.write = "clear" => v.second \/ v.saw.lock # "on"
  /\ v.write = "spend" => v.then = "email" \/ (v.then \in {"clear", "admit"} /\ v.second)
  /\ v.write = "resign" => v.proved = v.saw.tv
  /\ v.write = "totp" => v.saw.secret # 0
  /\ v.write \in {"sign", "unsign"} => v.as = "self" \/ v.saw.signed # "self"
  /\ v.write = "accept" => v.code = v.saw.code /\ v.code # 0 /\ v.code < made
  /\ v.write = "reset" => \E t \in tokens : t.code = v.code /\ t.tv = v.saw.tv

Errands == \A r \in Visitors : Fits(visit[r], user, acts, resets)

SessionsKept == inOrder => \A s \in sessions : s.second \/ s.proved = s.tv

(* Codes and tokens name calls and passwords of the past, a code in force has become
   no token yet, and a token whose code has set a password is of an older one. *)
CodesKept ==
  /\ user.code <= acts
  /\ \A t \in resets : t.code < acts /\ t.tv <= user.tv
  /\ \A c \in spent : c < acts
  /\ inOrder =>
       /\ user.code # 0 => user.code \notin spent /\ \A t \in resets : t.code # user.code
       /\ \A t, u \in resets : t.code = u.code => t = u
       /\ \A t \in resets : t.code \in spent => t.tv < user.tv

AccountInv ==
  /\ AccountTypeOK
  /\ Errands
  /\ SessionsKept
  /\ SecondFactorUsable
  /\ CodesKept

-----------------------------------------------------------------------------
(* What the actions are built from *)

(* What a request remembers goes on fitting a row whose version has not gone back. *)
LEMMA FitsOn ==
  ASSUME NEW v \in Visit, NEW row \in User, NEW made \in Nat, NEW tokens,
         NEW row2 \in User, NEW made2 \in Nat, NEW tokens2,
         Fits(v, row, made, tokens),
         row.tv <= row2.tv, made <= made2, tokens \subseteq tokens2
  PROVE  Fits(v, row2, made2, tokens2)
<1>1. v.saw.tv \in Nat /\ row.tv \in Nat /\ row2.tv \in Nat /\ v.code \in Nat
  BY DEF Visit, User
<1>2. v.saw.tv <= row2.tv
  BY <1>1 DEF Fits
<1>3. v.write = "accept" => v.code < made2
  BY <1>1 DEF Fits
<1>4. v.write = "reset" => \E t \in tokens2 : t.code = v.code /\ t.tv = v.saw.tv
  BY DEF Fits
<1> QED
  BY <1>2, <1>3, <1>4 DEF Fits

(* A row whose version has not gone back, with the tokens that were there, is one every
   request still fits if the one that moved does. *)
LEMMA ErrandsGoOn ==
  ASSUME AccountTypeOK, Errands, NEW r \in Visitors, NEW v \in Visit,
         Fits(v, user', acts', resets'),
         visit' = [visit EXCEPT ![r] = v],
         user' \in User, user.tv <= user'.tv,
         acts' \in Nat, acts <= acts', resets \subseteq resets'
  PROVE  visit' \in [Visitors -> Visit] /\ Errands'
<1>1. visit \in [Visitors -> Visit] /\ user \in User /\ acts \in Nat
  BY DEF AccountTypeOK
<1>2. visit' \in [Visitors -> Visit]
  BY <1>1
<1>3. ASSUME NEW q \in Visitors
      PROVE  Fits(visit'[q], user', acts', resets')
  <2>1. visit'[q] = IF q = r THEN v ELSE visit[q]
    BY <1>1
  <2>2. Fits(visit[q], user', acts', resets')
    BY <1>1, FitsOn DEF Errands
  <2> QED
    BY <2>1, <2>2
<1> QED
  BY <1>2, <1>3 DEF Errands

(* The same, when no request moved. *)
LEMMA ErrandsStay ==
  ASSUME AccountTypeOK, Errands, visit' = visit,
         user' \in User, user.tv <= user'.tv,
         acts' \in Nat, acts <= acts', resets \subseteq resets'
  PROVE  Errands'
<1>1. visit \in [Visitors -> Visit] /\ user \in User /\ acts \in Nat
  BY DEF AccountTypeOK
<1>2. \A q \in Visitors : Fits(visit[q], user', acts', resets')
  BY <1>1, FitsOn DEF Errands
<1> QED
  BY <1>2 DEF Errands

(* No token and no code that has set a password is lost or made, and the code in force
   is the same or none. *)
LEMMA CodesGoOn ==
  ASSUME AccountTypeOK, CodesKept, user' \in User, user.tv <= user'.tv,
         user'.code \in {user.code, 0}, acts' \in Nat, acts <= acts',
         resets' = resets, spent' = spent, inOrder' => inOrder
  PROVE  CodesKept'
<1>1. /\ user \in User /\ acts \in Nat /\ user.tv \in Nat /\ user'.tv \in Nat /\ user.code \in Nat
      /\ spent \subseteq Nat /\ \A t \in resets : t.code \in Nat /\ t.tv \in Nat
  BY DEF AccountTypeOK, User, ResetToken
<1>2. user'.code <= acts'
  BY <1>1 DEF CodesKept
<1>3. \A t \in resets' : t.code < acts' /\ t.tv <= user'.tv
  BY <1>1 DEF CodesKept
<1>4. \A c \in spent' : c < acts'
  BY <1>1 DEF CodesKept
<1>5. ASSUME inOrder'
      PROVE  /\ user'.code # 0 => /\ user'.code \notin spent'
                                  /\ \A t \in resets' : t.code # user'.code
             /\ \A t, u \in resets' : t.code = u.code => t = u
             /\ \A t \in resets' : t.code \in spent' => t.tv < user'.tv
  BY <1>1, <1>5 DEF CodesKept
<1> QED
  BY <1>2, <1>3, <1>4, <1>5 DEF CodesKept

LEMMA NoErrandType == NewUser \in User /\ NoErrand \in Visit
<1>1. 0 \in 0..MaxFailures
  BY AttemptsAssumption
<1>2. NewUser \in User
  BY <1>1 DEF NewUser, User
<1> QED
  BY <1>2 DEF NoErrand, Visit, WriteSteps

(* A request that only asks. *)
LEMMA AsksKeeps ==
  ASSUME AccountInv, NEW r \in Visitors, NEW request \in Visit, Asks(r, request),
         Fits([request EXCEPT !.saw = user], user, acts + 1, resets)
  PROVE  AccountInv'
<1>1. /\ user \in User /\ acts \in Nat /\ acts' = acts + 1 /\ acts' \in Nat /\ acts <= acts'
      /\ UNCHANGED <<user, sessions, challenges, resets, spent, inOrder>>
      /\ user.tv \in Nat /\ user.tv <= user'.tv
  BY DEF AccountInv, AccountTypeOK, User, Asks, Act
<1>2. [request EXCEPT !.saw = user] \in Visit
  BY <1>1 DEF Visit
<1>3. visit' \in [Visitors -> Visit] /\ Errands'
  BY <1>1, <1>2, ErrandsGoOn DEF AccountInv, Asks
<1>4. CodesKept'
  BY <1>1, CodesGoOn DEF AccountInv
<1>5. AccountTypeOK'
  BY <1>1, <1>3 DEF AccountInv, AccountTypeOK
<1>6. SessionsKept' /\ SecondFactorUsable'
  BY <1>1 DEF AccountInv, SessionsKept, SecondFactorUsable
<1> QED
  BY <1>3, <1>4, <1>5, <1>6 DEF AccountInv

(* A request that writes a row and goes on, or is over. *)
LEMMA WriteKeepsErrands ==
  ASSUME AccountTypeOK, Errands, NEW r \in Visitors, NEW row \in User, NEW next \in WriteSteps,
         Write(r, row, next), user.tv <= row.tv,
         acts' = acts, resets \subseteq resets',
         next # "none" => Fits([visit[r] EXCEPT !.write = next], row, acts, resets')
  PROVE  user' \in User /\ visit' \in [Visitors -> Visit] /\ Errands'
<1>1. /\ user \in User /\ acts \in Nat /\ user' = row /\ row.tv \in Nat
      /\ visit \in [Visitors -> Visit] /\ acts <= acts'
  BY DEF AccountTypeOK, Write, User
<1> DEFINE v == IF next = "none" THEN NoErrand ELSE [visit[r] EXCEPT !.write = next]
<1>4. v \in Visit
  BY <1>1, NoErrandType DEF Visit
<1>5. Fits(NoErrand, row, acts, resets')
  BY <1>1 DEF NoErrand, NewUser, Fits
<1>6. Fits(v, user', acts', resets')
  BY <1>1, <1>5
<1>7. visit' = [visit EXCEPT ![r] = v]
  BY DEF Write
<1> QED
  BY <1>1, <1>4, <1>6, <1>7, ErrandsGoOn

(* A write that touches no session, token or spent code. *)
LEMMA RowWriteKeeps ==
  ASSUME AccountInv, NEW r \in Visitors, NEW row \in User, NEW next \in WriteSteps,
         Write(r, row, next), user.tv <= row.tv, row.code \in {user.code, 0},
         UNCHANGED <<sessions, challenges, resets, spent, acts>>,
         inOrder' \in BOOLEAN, inOrder' => inOrder,
         inOrder' => Answerable(row),
         next # "none" => Fits([visit[r] EXCEPT !.write = next], row, acts, resets)
  PROVE  AccountInv'
<1>1. user' = row /\ resets' = resets /\ acts' = acts /\ acts \in Nat /\ acts <= acts'
  BY DEF Write, AccountInv, AccountTypeOK
<1>2. user' \in User /\ visit' \in [Visitors -> Visit] /\ Errands'
  BY <1>1, WriteKeepsErrands DEF AccountInv
<1>3. AccountTypeOK'
  BY <1>2 DEF AccountInv, AccountTypeOK
<1>4. CodesKept'
  BY <1>1, CodesGoOn DEF AccountInv
<1>5. SessionsKept' /\ SecondFactorUsable'
  BY <1>1 DEF AccountInv, SessionsKept, SecondFactorUsable
<1> QED
  BY <1>2, <1>3, <1>4, <1>5 DEF AccountInv

(* A write of a handler that has read nothing, or of time. *)
LEMMA RowAloneKeeps ==
  ASSUME AccountInv, user' \in User, user.tv <= user'.tv, user'.code \in {user.code, 0},
         UNCHANGED <<sessions, resets, visit, spent, inOrder>>,
         challenges' \subseteq challenges, acts' \in Nat, acts <= acts',
         inOrder => Answerable(user')
  PROVE  AccountInv'
<1>1. Errands'
  BY ErrandsStay DEF AccountInv
<1>2. CodesKept'
  BY CodesGoOn DEF AccountInv
<1>3. AccountTypeOK'
  BY DEF AccountInv, AccountTypeOK
<1>4. SessionsKept' /\ SecondFactorUsable'
  BY DEF AccountInv, SessionsKept, SecondFactorUsable
<1> QED
  BY <1>1, <1>2, <1>3, <1>4 DEF AccountInv

-----------------------------------------------------------------------------
(* Each action *)

LEMMA InitKeeps == ASSUME AccountInit PROVE AccountInv
<1>1. NewUser \in User /\ NoErrand \in Visit
  BY NoErrandType
<1>2. /\ user \in User /\ user.tv = 0 /\ user.code = 0
      /\ Answerable(user)
  <2>1. CASE user = [NewUser EXCEPT !.mustChange = TRUE]
    BY <1>1, <2>1 DEF NewUser, User, Answerable
  <2>2. ASSUME NEW by \in {"off", "email"}, user = [NewUser EXCEPT !.second = by]
        PROVE  user \in User /\ user.tv = 0 /\ user.code = 0 /\ Answerable(user)
    BY <1>1, <2>2 DEF NewUser, User, Answerable
  <2>3. CASE user = [NewUser EXCEPT !.second = "totp", !.secret = 1, !.held = 1]
    <3>1. user \in User
      BY <1>1, <2>3 DEF User
    <3>2. user.tv = 0 /\ user.code = 0 /\ user.secret = 1 /\ user.held = 1
      BY <2>3 DEF NewUser
    <3> QED
      BY <3>1, <3>2 DEF Answerable
  <2> QED
    BY <2>1, <2>2, <2>3 DEF AccountInit
<1>3. AccountTypeOK
  BY <1>1, <1>2 DEF AccountInit, AccountTypeOK
<1>4. Errands
  <2>1. Fits(NoErrand, user, acts, resets)
    BY <1>2 DEF Fits, NoErrand, NewUser
  <2> QED
    BY <2>1 DEF AccountInit, Errands
<1>5. SessionsKept /\ SecondFactorUsable /\ CodesKept
  BY <1>2 DEF AccountInit, SessionsKept, SecondFactorUsable, CodesKept
<1> QED
  BY <1>3, <1>4, <1>5 DEF AccountInv

(* Requests that ask: what they remember fits the row they have just read. *)
LEMMA AskingKeeps ==
  ASSUME AccountInv, NEW r \in Visitors,
         \/ LoginWrong(r) \/ LoginRight(r) \/ VerifyLoginTwoFactor(r) \/ EnableTotp(r)
         \/ EnableEmail(r) \/ DisableTwoFactor(r) \/ ChangePassword(r) \/ RequestCode(r)
         \/ GuessWrong(r) \/ GuessRight(r) \/ Reset(r) \/ UploadSignature(r)
         \/ DeleteSignature(r)
  PROVE  AccountInv'
<1>1. /\ user \in User /\ user.tv \in Nat /\ user.tv <= user.tv /\ user.code \in Nat
      /\ acts \in Nat /\ user.code <= acts /\ challenges \subseteq Nat
      /\ resets \subseteq ResetToken
  BY DEF AccountInv, AccountTypeOK, User, CodesKept
<1>2. NoErrand \in Visit
  BY NoErrandType
<1>3. CASE LoginWrong(r)
  <2> DEFINE q == [NoErrand EXCEPT !.write = "failure"]
  <2>1. q \in Visit /\ Fits([q EXCEPT !.saw = user], user, acts + 1, resets)
    BY <1>1, <1>2 DEF NoErrand, Visit, WriteSteps, Fits
  <2> QED
    BY <1>3, <2>1, AsksKeeps DEF LoginWrong
<1>4. CASE LoginRight(r)
  <2> DEFINE q == [NoErrand EXCEPT !.write = Clearing, !.proved = user.tv]
  <2>1. q \in Visit
    BY <1>1, <1>2 DEF NoErrand, Visit, WriteSteps, Clearing
  <2>2. Fits([q EXCEPT !.saw = user], user, acts + 1, resets)
    BY <1>1, <1>2, <1>4 DEF NoErrand, Clearing, LoginRight, MayTry, Fits
  <2> QED
    BY <1>4, <2>1, <2>2, AsksKeeps DEF LoginRight
<1>5. CASE VerifyLoginTwoFactor(r)
  <2>1. PICK proved \in challenges :
          LET request == [NoErrand EXCEPT !.proved = proved, !.second = TRUE] IN
          \/ Asks(r, [request EXCEPT !.write = Clearing])
          \/ Asks(r, [request EXCEPT !.write = "spend", !.then = Clearing])
    BY <1>5 DEF VerifyLoginTwoFactor
  <2> DEFINE q1 == [NoErrand EXCEPT !.proved = proved, !.second = TRUE, !.write = Clearing]
             q2 == [NoErrand EXCEPT !.proved = proved, !.second = TRUE, !.write = "spend", !.then = Clearing]
  <2>2. q1 \in Visit /\ q2 \in Visit
    BY <1>1, <1>2 DEF NoErrand, Visit, WriteSteps, Clearing
  <2>3. /\ Fits([q1 EXCEPT !.saw = user], user, acts + 1, resets)
        /\ Fits([q2 EXCEPT !.saw = user], user, acts + 1, resets)
    BY <1>1, <1>2 DEF NoErrand, Clearing, Fits
  <2>4. Asks(r, q1) \/ Asks(r, q2)
    BY <2>1, <1>2 DEF NoErrand
  <2> QED
    BY <2>2, <2>3, <2>4, AsksKeeps
<1>6. CASE EnableTotp(r)
  <2> DEFINE q == [NoErrand EXCEPT !.write = "totp"]
  <2>1. q \in Visit
    BY <1>1, <1>2 DEF NoErrand, Visit, WriteSteps
  <2>2. Fits([q EXCEPT !.saw = user], user, acts + 1, resets)
    BY <1>1, <1>2, <1>6 DEF NoErrand, EnableTotp, Fits
  <2> QED
    BY <1>6, <2>1, <2>2, AsksKeeps DEF EnableTotp
<1>7. CASE EnableEmail(r)
  <2> DEFINE q == [NoErrand EXCEPT !.write = "spend", !.then = "email"]
  <2>1. q \in Visit /\ Fits([q EXCEPT !.saw = user], user, acts + 1, resets)
    BY <1>1, <1>2 DEF NoErrand, Visit, WriteSteps, Fits
  <2> QED
    BY <1>7, <2>1, AsksKeeps DEF EnableEmail
<1>8. CASE DisableTwoFactor(r)
  <2> DEFINE q == [NoErrand EXCEPT !.write = "disable"]
  <2>1. q \in Visit /\ Fits([q EXCEPT !.saw = user], user, acts + 1, resets)
    BY <1>1, <1>2 DEF NoErrand, Visit, WriteSteps, Fits
  <2> QED
    BY <1>8, <2>1, AsksKeeps DEF DisableTwoFactor
<1>9. CASE ChangePassword(r)
  <2> DEFINE q == [NoErrand EXCEPT !.write = "change"]
  <2>1. q \in Visit /\ Fits([q EXCEPT !.saw = user], user, acts + 1, resets)
    BY <1>1, <1>2 DEF NoErrand, Visit, WriteSteps, Fits
  <2> QED
    BY <1>9, <2>1, AsksKeeps DEF ChangePassword
<1>10. CASE RequestCode(r)
  <2> DEFINE q == [NoErrand EXCEPT !.write = "code"]
  <2>1. q \in Visit /\ Fits([q EXCEPT !.saw = user], user, acts + 1, resets)
    BY <1>1, <1>2 DEF NoErrand, Visit, WriteSteps, Fits
  <2> QED
    BY <1>10, <2>1, AsksKeeps DEF RequestCode
<1>11. CASE GuessWrong(r)
  <2> DEFINE q == [NoErrand EXCEPT !.write = "guess"]
  <2>1. q \in Visit /\ Fits([q EXCEPT !.saw = user], user, acts + 1, resets)
    BY <1>1, <1>2 DEF NoErrand, Visit, WriteSteps, Fits
  <2> QED
    BY <1>11, <2>1, AsksKeeps DEF GuessWrong
<1>12. CASE GuessRight(r)
  <2> DEFINE q == [NoErrand EXCEPT !.write = "accept", !.code = user.code]
  <2>1. q \in Visit
    BY <1>1, <1>2 DEF NoErrand, Visit, WriteSteps
  <2>2. Fits([q EXCEPT !.saw = user], user, acts + 1, resets)
    BY <1>1, <1>2, <1>12 DEF NoErrand, GuessRight, CodeTaken, Fits
  <2> QED
    BY <1>12, <2>1, <2>2, AsksKeeps DEF GuessRight
<1>13. CASE Reset(r)
  <2>1. PICK token \in resets :
          StillValid(token) /\ Asks(r, [NoErrand EXCEPT !.write = "reset", !.code = token.code])
    BY <1>13 DEF Reset
  <2> DEFINE q == [NoErrand EXCEPT !.write = "reset", !.code = token.code]
  <2>2. token.tv = user.tv /\ token.code \in Nat
    BY <1>1, <2>1 DEF StillValid, ResetToken
  <2>3. q \in Visit
    BY <1>2, <2>2 DEF NoErrand, Visit, WriteSteps
  <2>4. Fits([q EXCEPT !.saw = user], user, acts + 1, resets)
    BY <1>1, <1>2, <2>2 DEF NoErrand, Fits
  <2> QED
    BY <2>1, <2>3, <2>4, AsksKeeps
<1>14. CASE UploadSignature(r)
  <2>1. PICK as \in {"self", "hr"} :
          MaySign(as) /\ Asks(r, [NoErrand EXCEPT !.write = "sign", !.as = as])
    BY <1>14 DEF UploadSignature
  <2> DEFINE q == [NoErrand EXCEPT !.write = "sign", !.as = as]
  <2>2. q \in Visit
    BY <1>2 DEF NoErrand, Visit, WriteSteps
  <2>3. Fits([q EXCEPT !.saw = user], user, acts + 1, resets)
    BY <1>1, <1>2, <2>1 DEF NoErrand, MaySign, Fits
  <2> QED
    BY <2>1, <2>2, <2>3, AsksKeeps
<1>15. CASE DeleteSignature(r)
  <2>1. PICK as \in {"self", "hr"} :
          MaySign(as) /\ Asks(r, [NoErrand EXCEPT !.write = "unsign", !.as = as])
    BY <1>15 DEF DeleteSignature
  <2> DEFINE q == [NoErrand EXCEPT !.write = "unsign", !.as = as]
  <2>2. q \in Visit
    BY <1>2 DEF NoErrand, Visit, WriteSteps
  <2>3. Fits([q EXCEPT !.saw = user], user, acts + 1, resets)
    BY <1>1, <1>2, <2>1 DEF NoErrand, MaySign, Fits
  <2> QED
    BY <2>1, <2>2, <2>3, AsksKeeps
<1> QED
  BY <1>3, <1>4, <1>5, <1>6, <1>7, <1>8, <1>9, <1>10, <1>11, <1>12, <1>13, <1>14, <1>15

(* Requests that write no more than the row. *)
LEMMA RowWritesKeep ==
  ASSUME AccountInv, NEW r \in Visitors,
         \/ RecordFailedLogin(r) \/ ClearFailedLogins(r) \/ SpendOtp(r) \/ CommitTotp(r)
         \/ CommitEmail(r) \/ CommitDisable(r) \/ CommitGuess(r) \/ CancelCode(r)
         \/ CommitSignature(r) \/ CommitUnsign(r)
  PROVE  AccountInv'
<1>1. /\ user \in User /\ user.tv \in Nat /\ user.tv <= user.tv /\ user.code \in Nat
      /\ visit[r] \in Visit /\ Fits(visit[r], user, acts, resets)
      /\ inOrder \in BOOLEAN /\ (inOrder => Answerable(user))
  BY DEF AccountInv, AccountTypeOK, User, Errands, SecondFactorUsable
<1>2. CASE RecordFailedLogin(r)
  <2> DEFINE row == Counted(user, visit[r].saw)
  <2>1. row \in User /\ row.tv = user.tv /\ row.code = user.code
        /\ (Answerable(user) => Answerable(row))
    <3>1. 0 \in 0..MaxFailures
      BY AttemptsAssumption
    <3>2. visit[r].saw.failed + 1 < MaxFailures => visit[r].saw.failed + 1 \in 0..MaxFailures
      BY <1>1, AttemptsAssumption DEF Visit, User
    <3>3. visit[r].saw.failed + 1 >= MaxFailures \/ visit[r].saw.failed + 1 < MaxFailures
      BY <1>1, AttemptsAssumption DEF Visit, User
    <3>4. visit[r].saw.lock \in {"none", "on", "over"}
      BY <1>1 DEF Visit, User
    <3> QED
      BY <1>1, <3>1, <3>2, <3>3, <3>4 DEF Counted, User, Answerable
  <2>2. inOrder' \in BOOLEAN /\ (inOrder' => inOrder)
    BY <1>1, <1>2 DEF RecordFailedLogin, StaysPut
  <2> QED
    BY <1>1, <1>2, <2>1, <2>2, RowWriteKeeps DEF RecordFailedLogin, WriteSteps
<1>3. CASE ClearFailedLogins(r)
  <2> DEFINE row == [user EXCEPT !.failed = 0, !.lock = "none"]
  <2>1. row \in User /\ row.tv = user.tv /\ row.code = user.code
        /\ (Answerable(user) => Answerable(row))
    <3>1. 0 \in 0..MaxFailures
      BY AttemptsAssumption
    <3> QED
      BY <1>1, <3>1 DEF User, Answerable
  <2>2. inOrder' \in BOOLEAN /\ (inOrder' => inOrder)
    BY <1>1, <1>3 DEF ClearFailedLogins, StaysPut
  <2>3. Fits([visit[r] EXCEPT !.write = "admit"], row, acts, resets)
    BY <1>1, <1>3, <2>1 DEF ClearFailedLogins, Now, Fits, Visit
  <2> QED
    BY <1>1, <1>3, <2>1, <2>2, <2>3, RowWriteKeeps DEF ClearFailedLogins, WriteSteps
<1>4. CASE SpendOtp(r)
  <2> DEFINE row == [user EXCEPT !.otp = FALSE]
  <2>1. row \in User /\ row.tv = user.tv /\ row.code = user.code
        /\ (Answerable(user) => Answerable(row))
    BY <1>1 DEF User, Answerable
  <2>2. inOrder' \in BOOLEAN /\ (inOrder' => inOrder)
    BY <1>1, <1>4 DEF SpendOtp, StaysPut
  <2>3. Fits([visit[r] EXCEPT !.write = visit[r].then], row, acts, resets)
    BY <1>1, <1>4, <2>1 DEF SpendOtp, Now, Fits, Visit
  <2>4. visit[r].then \in WriteSteps
    BY <1>1 DEF Visit
  <2> QED
    BY <1>1, <1>4, <2>1, <2>2, <2>3, <2>4, RowWriteKeeps DEF SpendOtp
<1>5. CASE CommitTotp(r)
  <2> DEFINE row == [user EXCEPT !.second = "totp", !.held = visit[r].saw.secret]
  <2>1. /\ row \in User /\ row.tv = user.tv /\ row.code = user.code
        /\ row.secret = user.secret /\ row.held = visit[r].saw.secret
    BY <1>1 DEF User, Visit
  <2>2. inOrder' \in BOOLEAN /\ (inOrder' => inOrder)
    BY <1>1, <1>5 DEF CommitTotp, StaysPut
  <2>3. inOrder' => Answerable(row)
    BY <1>1, <1>5, <2>1 DEF CommitTotp, StaysPut, Now, Fits, Answerable
  <2> QED
    BY <1>1, <1>5, <2>1, <2>2, <2>3, RowWriteKeeps DEF CommitTotp, WriteSteps
<1>6. CASE CommitEmail(r)
  <2> DEFINE row == ByEmail(user)
  <2>1. row \in User /\ row.tv = user.tv /\ row.code = user.code /\ Answerable(row)
    BY <1>1 DEF ByEmail, User, Answerable
  <2>2. inOrder' \in BOOLEAN /\ (inOrder' => inOrder)
    BY <1>1, <1>6 DEF CommitEmail, StaysPut
  <2> QED
    BY <1>1, <1>6, <2>1, <2>2, RowWriteKeeps DEF CommitEmail, WriteSteps
<1>7. CASE CommitDisable(r)
  <2> DEFINE row == Without(user)
  <2>1. row \in User /\ row.tv = user.tv /\ row.code = user.code /\ Answerable(row)
    BY <1>1 DEF Without, User, Answerable
  <2>2. inOrder' \in BOOLEAN /\ (inOrder' => inOrder)
    BY <1>1, <1>7 DEF CommitDisable, StaysPut
  <2> QED
    BY <1>1, <1>7, <2>1, <2>2, RowWriteKeeps DEF CommitDisable, WriteSteps
<1>8. CASE CommitGuess(r)
  <2> DEFINE row == [user EXCEPT !.tries = @ + 1]
             next == IF user.tries + 1 >= MaxTries THEN "cancel" ELSE "none"
  <2>1. row \in User /\ row.tv = user.tv /\ row.code = user.code
        /\ (Answerable(user) => Answerable(row))
    BY <1>1 DEF User, Answerable
  <2>2. Fits([visit[r] EXCEPT !.write = "cancel"], row, acts, resets)
    BY <1>1, <2>1 DEF Fits, Visit
  <2>3. next \in WriteSteps
    BY DEF WriteSteps
  <2> QED
    BY <1>1, <1>8, <2>1, <2>2, <2>3, RowWriteKeeps DEF CommitGuess
<1>9. CASE CancelCode(r)
  <2> DEFINE row == [user EXCEPT !.code = 0]
  <2>1. row \in User /\ row.tv = user.tv /\ row.code = 0
        /\ (Answerable(user) => Answerable(row))
    BY <1>1 DEF User, Answerable
  <2> QED
    BY <1>1, <1>9, <2>1, RowWriteKeeps DEF CancelCode, WriteSteps
<1>10. CASE CommitSignature(r)
  <2> DEFINE row == [user EXCEPT !.signed = visit[r].as]
  <2>1. row \in User /\ row.tv = user.tv /\ row.code = user.code
        /\ (Answerable(user) => Answerable(row))
    BY <1>1 DEF User, Answerable, Visit
  <2>2. inOrder' \in BOOLEAN /\ (inOrder' => inOrder)
    BY <1>1, <1>10 DEF CommitSignature, StaysPut
  <2> QED
    BY <1>1, <1>10, <2>1, <2>2, RowWriteKeeps DEF CommitSignature, WriteSteps
<1>11. CASE CommitUnsign(r)
  <2> DEFINE row == [user EXCEPT !.signed = "none"]
  <2>1. row \in User /\ row.tv = user.tv /\ row.code = user.code
        /\ (Answerable(user) => Answerable(row))
    BY <1>1 DEF User, Answerable
  <2>2. inOrder' \in BOOLEAN /\ (inOrder' => inOrder)
    BY <1>1, <1>11 DEF CommitUnsign, StaysPut
  <2> QED
    BY <1>1, <1>11, <2>1, <2>2, RowWriteKeeps DEF CommitUnsign, WriteSteps
<1> QED
  BY <1>2, <1>3, <1>4, <1>5, <1>6, <1>7, <1>8, <1>9, <1>10, <1>11

(* A session is signed for what was proved, or a challenge made of it. *)
LEMMA AdmitKeeps ==
  ASSUME AccountInv, NEW r \in Visitors, Admit(r)
  PROVE  AccountInv'
<1> DEFINE mailed == IF visit[r].saw.second = "email" THEN Mailed(user) ELSE user
           row == IF visit[r].saw.second # "off" /\ ~visit[r].second THEN mailed ELSE user
<1>1. /\ user \in User /\ user.tv \in Nat /\ user.tv <= user.tv /\ acts \in Nat /\ acts <= acts
      /\ visit[r] \in Visit /\ Fits(visit[r], user, acts, resets)
  BY DEF AccountInv, AccountTypeOK, User, Errands
<1>2. row \in User /\ row.tv = user.tv /\ row.code = user.code
      /\ (Answerable(user) => Answerable(row))
  BY <1>1 DEF Mailed, User, Answerable
<1>3. Write(r, row, "none") /\ UNCHANGED <<resets, spent, acts, inOrder>>
  BY DEF Admit
<1>4. user' \in User /\ visit' \in [Visitors -> Visit] /\ Errands' /\ user' = row
  BY <1>1, <1>2, <1>3, WriteKeepsErrands DEF AccountInv, WriteSteps, Write
<1>5. CodesKept'
  BY <1>1, <1>2, <1>3, <1>4, CodesGoOn DEF AccountInv
<1>6. SecondFactorUsable'
  BY <1>2, <1>3, <1>4 DEF AccountInv, SecondFactorUsable
<1>7. /\ Sign(r) \in Session
      /\ Sign(r).second \/ Sign(r).proved = Sign(r).tv
  BY <1>1 DEF Admit, Now, Sign, Session, Visit, User, Fits
<1>8. /\ sessions' \subseteq sessions \cup {Sign(r)}
      /\ challenges' \subseteq challenges \cup {visit[r].proved}
  BY DEF Admit
<1>9. SessionsKept'
  BY <1>3, <1>7, <1>8 DEF AccountInv, SessionsKept
<1>10. AccountTypeOK'
  BY <1>1, <1>3, <1>4, <1>7, <1>8 DEF AccountInv, AccountTypeOK, Visit
<1> QED
  BY <1>4, <1>5, <1>6, <1>9, <1>10 DEF AccountInv

(* What a new password does to the row. *)
LEMMA NewPasswordRow ==
  ASSUME NEW row \in User
  PROVE  /\ NewPassword(row) \in User
         /\ NewPassword(row).tv = row.tv + 1
         /\ NewPassword(row).code = row.code
         /\ NewPassword(row).second = row.second
         /\ NewPassword(row).secret = row.secret
         /\ NewPassword(row).held = row.held
<1>1. 0 \in 0..MaxFailures
  BY AttemptsAssumption
<1>2. /\ row.tv + 1 \in Nat /\ row.second \in {"off", "totp", "email"} /\ row.secret \in Nat
      /\ row.held \in Nat
      /\ row.otp \in BOOLEAN /\ row.code \in Nat /\ row.tries \in Nat /\ row.recent \in BOOLEAN
      /\ row.signed \in {"none", "self", "hr"}
  BY DEF User
<1> DEFINE a == [row EXCEPT !.tv = row.tv + 1, !.mustChange = FALSE]
           b == [a EXCEPT !.failed = 0, !.lock = "none"]
<1>3. /\ a \in User /\ a.tv = row.tv + 1 /\ a.code = row.code
      /\ a.second = row.second /\ a.secret = row.secret /\ a.held = row.held
  BY <1>2 DEF User
<1>4. /\ b \in User /\ b.tv = a.tv /\ b.code = a.code
      /\ b.second = a.second /\ b.secret = a.secret /\ b.held = a.held
  BY <1>1, <1>3 DEF User
<1>5. NewPassword(row) = b
  BY DEF NewPassword, User
<1> QED
  BY <1>3, <1>4, <1>5

(* A row without its code. *)
LEMMA CodeSpentRow ==
  ASSUME NEW row \in User
  PROVE  /\ [row EXCEPT !.code = 0, !.tries = 0] \in User
         /\ [row EXCEPT !.code = 0, !.tries = 0].tv = row.tv
         /\ [row EXCEPT !.code = 0, !.tries = 0].code = 0
         /\ [row EXCEPT !.code = 0, !.tries = 0].second = row.second
         /\ [row EXCEPT !.code = 0, !.tries = 0].secret = row.secret
         /\ [row EXCEPT !.code = 0, !.tries = 0].held = row.held
  BY DEF User

LEMMA CommitChangeKeeps ==
  ASSUME AccountInv, NEW r \in Visitors, CommitChange(r)
  PROVE  AccountInv'
<1> DEFINE v == [visit[r] EXCEPT !.write = "resign", !.saw = user', !.proved = user'.tv]
<1>1. /\ user \in User /\ user.tv \in Nat /\ acts \in Nat /\ visit[r] \in Visit
      /\ visit \in [Visitors -> Visit] /\ inOrder \in BOOLEAN
  BY DEF AccountInv, AccountTypeOK, User
<1>2. /\ user' = NewPassword(user) /\ UNCHANGED <<sessions, challenges, resets, spent, acts>>
      /\ inOrder' \in BOOLEAN /\ (inOrder' => inOrder)
  BY <1>1 DEF CommitChange, StaysPut
<1>3. /\ user' \in User /\ user'.tv = user.tv + 1 /\ user'.code = user.code
      /\ (Answerable(user) => Answerable(user'))
  BY <1>1, <1>2, NewPasswordRow DEF Answerable
<1>4. user'.tv \in Nat /\ user.tv <= user'.tv /\ user'.tv <= user'.tv /\ acts <= acts'
  BY <1>1, <1>2, <1>3
<1>5. visit' = [visit EXCEPT ![r] = v]
  BY <1>1 DEF CommitChange, Visit
<1>6. v \in Visit /\ Fits(v, user', acts', resets')
  BY <1>1, <1>3, <1>4 DEF Visit, WriteSteps, Fits
<1>7. visit' \in [Visitors -> Visit] /\ Errands'
  BY <1>1, <1>2, <1>3, <1>4, <1>5, <1>6, ErrandsGoOn DEF AccountInv
<1>8. CodesKept'
  BY <1>1, <1>2, <1>3, <1>4, CodesGoOn DEF AccountInv
<1>9. AccountTypeOK'
  BY <1>2, <1>3, <1>7 DEF AccountInv, AccountTypeOK
<1>10. SessionsKept' /\ SecondFactorUsable'
  BY <1>2, <1>3 DEF AccountInv, SessionsKept, SecondFactorUsable
<1> QED
  BY <1>7, <1>8, <1>9, <1>10 DEF AccountInv

(* The session signed after a change is of the password just set, if nobody set another. *)
LEMMA SignAgainKeeps ==
  ASSUME AccountInv, NEW r \in Visitors, SignAgain(r)
  PROVE  AccountInv'
<1> DEFINE s == [tv |-> user.tv, proved |-> visit[r].proved, second |-> FALSE]
<1>1. /\ user \in User /\ user.tv \in Nat /\ user.tv <= user.tv /\ acts \in Nat /\ acts <= acts
      /\ visit[r] \in Visit /\ Fits(visit[r], user, acts, resets) /\ inOrder \in BOOLEAN
  BY DEF AccountInv, AccountTypeOK, User, Errands
<1>2. /\ Write(r, user, "none") /\ user' = user
      /\ UNCHANGED <<challenges, resets, spent, acts>> /\ sessions' = sessions \cup {s}
  BY DEF SignAgain, Write
<1>3. /\ inOrder' \in BOOLEAN /\ (inOrder' => inOrder)
      /\ inOrder' => visit[r].saw.tv = user.tv
  BY <1>1 DEF SignAgain, StaysPut
<1>4. user' \in User /\ visit' \in [Visitors -> Visit] /\ Errands'
  BY <1>1, <1>2, WriteKeepsErrands DEF AccountInv, WriteSteps
<1>5. CodesKept'
  BY <1>1, <1>2, <1>3, <1>4, CodesGoOn DEF AccountInv
<1>6. SecondFactorUsable'
  BY <1>2, <1>3 DEF AccountInv, SecondFactorUsable
<1>7. s \in Session /\ (inOrder' => s.proved = s.tv)
  BY <1>1, <1>3 DEF SignAgain, Now, Session, Visit, Fits
<1>8. SessionsKept'
  BY <1>2, <1>3, <1>7 DEF AccountInv, SessionsKept
<1>9. AccountTypeOK'
  BY <1>2, <1>3, <1>4, <1>7 DEF AccountInv, AccountTypeOK
<1> QED
  BY <1>4, <1>5, <1>6, <1>8, <1>9 DEF AccountInv

(* A new code has the number of the latest call: no token and no spent code has it. *)
LEMMA CommitCodeKeeps ==
  ASSUME AccountInv, NEW r \in Visitors, CommitCode(r)
  PROVE  AccountInv'
<1> DEFINE row == [user EXCEPT !.code = acts, !.tries = 0, !.recent = TRUE]
<1>1. /\ user \in User /\ user.tv \in Nat /\ user.tv <= user.tv /\ acts \in Nat /\ acts <= acts
      /\ spent \subseteq Nat /\ resets \subseteq ResetToken
  BY DEF AccountInv, AccountTypeOK, User
<1>2. row \in User /\ row.tv = user.tv /\ row.code = acts
      /\ (Answerable(user) => Answerable(row))
  BY <1>1 DEF User, Answerable
<1>3. /\ Write(r, row, "none") /\ user' = row
      /\ UNCHANGED <<sessions, challenges, resets, spent, acts, inOrder>>
  BY DEF CommitCode, Write
<1>4. user' \in User /\ visit' \in [Visitors -> Visit] /\ Errands'
  BY <1>1, <1>2, <1>3, WriteKeepsErrands DEF AccountInv, WriteSteps
<1>5. CodesKept'
  BY <1>1, <1>2, <1>3 DEF AccountInv, CodesKept, ResetToken
<1>6. SessionsKept' /\ SecondFactorUsable'
  BY <1>2, <1>3 DEF AccountInv, SessionsKept, SecondFactorUsable
<1>7. AccountTypeOK'
  BY <1>3, <1>4 DEF AccountInv, AccountTypeOK
<1> QED
  BY <1>4, <1>5, <1>6, <1>7 DEF AccountInv

(* A code becomes a token once: it is no longer the one in force. *)
LEMMA AcceptKeeps ==
  ASSUME AccountInv, NEW r \in Visitors, Accept(r)
  PROVE  AccountInv'
<1> DEFINE row == [user EXCEPT !.code = 0, !.tries = 0]
           token == [tv |-> visit[r].saw.tv, code |-> visit[r].code]
<1>1. /\ user \in User /\ user.tv \in Nat /\ user.tv <= user.tv /\ acts \in Nat /\ acts <= acts
      /\ visit[r] \in Visit /\ Fits(visit[r], user, acts, resets) /\ inOrder \in BOOLEAN
      /\ resets \subseteq ResetToken
  BY DEF AccountInv, AccountTypeOK, User, Errands
<1>2. row \in User /\ row.tv = user.tv /\ row.code = 0
      /\ (Answerable(user) => Answerable(row))
  BY <1>1 DEF User, Answerable
<1>3. /\ Write(r, row, "none") /\ user' = row /\ resets' = resets \cup {token}
      /\ UNCHANGED <<sessions, challenges, spent, acts>>
  BY DEF Accept, Write
<1>4. /\ inOrder' \in BOOLEAN /\ (inOrder' => inOrder)
      /\ inOrder' => visit[r].saw.code = user.code
  BY <1>1 DEF Accept, StaysPut
<1>5. user' \in User /\ visit' \in [Visitors -> Visit] /\ Errands'
  BY <1>1, <1>2, <1>3, WriteKeepsErrands DEF AccountInv, WriteSteps
<1>6. /\ token.tv <= user.tv /\ token.code = visit[r].saw.code /\ token.code # 0
      /\ token.code < acts /\ token \in ResetToken
  BY <1>1 DEF Accept, Now, Fits, Visit, User, ResetToken
<1>7. CodesKept'
  <2>1. inOrder' => token.code \notin spent /\ \A t \in resets : t.code # token.code
    BY <1>4, <1>6 DEF AccountInv, CodesKept
  <2> QED
    BY <1>1, <1>2, <1>3, <1>4, <1>6, <2>1 DEF AccountInv, CodesKept
<1>8. SessionsKept' /\ SecondFactorUsable'
  BY <1>2, <1>3, <1>4 DEF AccountInv, SessionsKept, SecondFactorUsable
<1>9. AccountTypeOK'
  BY <1>3, <1>4, <1>5, <1>6 DEF AccountInv, AccountTypeOK
<1> QED
  BY <1>5, <1>7, <1>8, <1>9 DEF AccountInv

(* The token that sets a password is of the one in force, so its code has set none. *)
LEMMA CodeUnspent ==
  ASSUME AccountInv, NEW r \in Visitors, CommitReset(r), inOrder'
  PROVE  visit[r].code \notin spent
<1>1. user.tv \in Nat /\ visit[r].saw.tv = user.tv /\ inOrder /\ Fits(visit[r], user, acts, resets)
  BY DEF AccountInv, AccountTypeOK, User, Errands, CommitReset, StaysPut
<1>2. PICK t \in resets : t.code = visit[r].code /\ t.tv = user.tv
  BY <1>1 DEF CommitReset, Now, Fits
<1> QED
  BY <1>1, <1>2 DEF AccountInv, CodesKept

LEMMA CommitResetKeeps ==
  ASSUME AccountInv, NEW r \in Visitors, CommitReset(r)
  PROVE  AccountInv'
<1> DEFINE row == [NewPassword(user) EXCEPT !.code = 0, !.tries = 0]
<1>1. /\ user \in User /\ user.tv \in Nat /\ acts \in Nat
      /\ visit[r] \in Visit /\ Fits(visit[r], user, acts, resets) /\ inOrder \in BOOLEAN
      /\ resets \subseteq ResetToken /\ spent \subseteq Nat
  BY DEF AccountInv, AccountTypeOK, User, Errands
<1>2. row \in User /\ row.tv = user.tv + 1 /\ row.code = 0 /\ user.tv <= row.tv
      /\ (Answerable(user) => Answerable(row))
  <2>1. /\ NewPassword(user) \in User /\ NewPassword(user).tv = user.tv + 1
        /\ NewPassword(user).second = user.second /\ NewPassword(user).secret = user.secret
        /\ NewPassword(user).held = user.held
    BY <1>1, NewPasswordRow
  <2>2. user.tv <= user.tv + 1
    BY <1>1
  <2> QED
    BY <2>1, <2>2, CodeSpentRow DEF Answerable
<1>3. /\ Write(r, row, "none") /\ user' = row /\ spent' = spent \cup {visit[r].code}
      /\ UNCHANGED <<sessions, challenges, resets, acts>>
      /\ inOrder' \in BOOLEAN /\ (inOrder' => inOrder)
  BY <1>1 DEF CommitReset, Write, StaysPut
<1>4. user' \in User /\ visit' \in [Visitors -> Visit] /\ Errands'
  BY <1>2, <1>3, WriteKeepsErrands DEF AccountInv, WriteSteps
<1>5. visit[r].code \in Nat /\ visit[r].code < acts
  <2>1. PICK t \in resets : t.code = visit[r].code
    BY <1>1 DEF CommitReset, Now, Fits
  <2> QED
    BY <1>1, <2>1 DEF AccountInv, CodesKept, Visit
<1>6. CodesKept'
  <2>1. \A t \in resets : t.tv \in Nat /\ t.tv < user'.tv
    BY <1>1, <1>2, <1>3 DEF AccountInv, CodesKept, ResetToken
  <2> QED
    BY <1>1, <1>2, <1>3, <1>5, <2>1 DEF AccountInv, CodesKept
<1>7. SessionsKept' /\ SecondFactorUsable'
  BY <1>2, <1>3 DEF AccountInv, SessionsKept, SecondFactorUsable
<1>8. AccountTypeOK'
  BY <1>3, <1>4, <1>5 DEF AccountInv, AccountTypeOK
<1> QED
  BY <1>4, <1>6, <1>7, <1>8 DEF AccountInv

(* Writes of no request, and time. *)
LEMMA AlonesKeep ==
  ASSUME AccountInv,
         Logout \/ SetupTotp \/ StartEmailSetup \/ ResetPasswordToDefault \/ Lapse
  PROVE  AccountInv'
<1>1. /\ user \in User /\ user.tv \in Nat /\ user.tv <= user.tv /\ acts \in Nat
      /\ acts <= acts /\ acts + 1 \in Nat /\ acts <= acts + 1
      /\ (inOrder => Answerable(user))
  BY DEF AccountInv, AccountTypeOK, User, SecondFactorUsable
<1>2. CASE Logout
  <2>1. sessions' \subseteq sessions /\ UNCHANGED <<user, challenges, resets, visit, spent, acts, inOrder>>
    BY <1>2 DEF Logout
  <2> QED
    BY <2>1 DEF AccountInv, AccountTypeOK, Errands, SessionsKept, SecondFactorUsable, CodesKept
<1>3. CASE SetupTotp
  <2>1. PICK made \in Nat \ {0} : user' = [user EXCEPT !.secret = made, !.held = 0]
    <3>1. acts' + 1 \in Nat \ {0}
      BY <1>1, <1>3 DEF SetupTotp, Act
    <3>2. user' = [user EXCEPT !.secret = acts' + 1, !.held = 0]
      BY <1>3 DEF SetupTotp
    <3> QED
      BY <3>1, <3>2
  <2>2. /\ user' \in User /\ user'.tv = user.tv /\ user'.code = user.code
        /\ user'.secret = made /\ user'.held = 0
    BY <1>1, <2>1 DEF User
  <2>3. Answerable(user')
    BY <2>2 DEF Answerable
  <2> QED
    BY <1>1, <1>3, <2>2, <2>3, RowAloneKeeps DEF SetupTotp, Act
<1>4. CASE StartEmailSetup
  <2>1. user' \in User /\ user'.tv = user.tv /\ user'.code = user.code
        /\ (Answerable(user) => Answerable(user'))
    BY <1>1, <1>4 DEF StartEmailSetup, Mailed, User, Answerable
  <2> QED
    BY <1>1, <1>4, <2>1, RowAloneKeeps DEF StartEmailSetup, Act
<1>5. CASE ResetPasswordToDefault
  <2>1. user' \in User /\ user'.tv = user.tv + 1 /\ user'.code = user.code /\ user'.second = "off"
    BY ZenonT(60), <1>1, <1>5, NewPasswordRow DEF ResetPasswordToDefault, Without, User
  <2>2. Answerable(user')
    BY <2>1 DEF Answerable
  <2> QED
    BY <1>1, <1>5, <2>1, <2>2, RowAloneKeeps DEF ResetPasswordToDefault, Act
<1>6. CASE Lapse
  <2>1. /\ user' \in User /\ user'.tv = user.tv /\ user'.code \in {user.code, 0}
        /\ (Answerable(user) => Answerable(user'))
    <3>1. CASE user' = user
      BY <1>1, <3>1
    <3>2. CASE user.lock = "on" /\ user' = [user EXCEPT !.lock = "over"]
      BY <1>1, <3>2 DEF User, Answerable
    <3>3. CASE user' = [user EXCEPT !.code = 0]
      BY <1>1, <3>3 DEF User, Answerable
    <3>4. CASE user' = [user EXCEPT !.otp = FALSE]
      BY <1>1, <3>4 DEF User, Answerable
    <3>5. CASE user' = [user EXCEPT !.recent = FALSE]
      BY <1>1, <3>5 DEF User, Answerable
    <3> QED
      BY <1>6, <3>1, <3>2, <3>3, <3>4, <3>5 DEF Lapse
  <2>2. challenges' \subseteq challenges /\ UNCHANGED <<sessions, resets, visit, spent, acts, inOrder>>
    BY <1>6 DEF Lapse
  <2> QED
    BY <1>1, <2>1, <2>2, RowAloneKeeps
<1> QED
  BY <1>2, <1>3, <1>4, <1>5, <1>6

-----------------------------------------------------------------------------
(* The theorems *)

LEMMA StepKeeps ==
  ASSUME AccountInv, [AccountNext]_avars
  PROVE  AccountInv'
<1>1. CASE UNCHANGED avars
  BY <1>1 DEF avars, AccountInv, AccountTypeOK, Errands, SessionsKept, SecondFactorUsable, CodesKept
<1>2. CASE Logout \/ SetupTotp \/ StartEmailSetup \/ ResetPasswordToDefault \/ Lapse
  BY <1>2, AlonesKeep
<1>3. ASSUME NEW r \in Visitors,
             \/ LoginWrong(r) \/ LoginRight(r) \/ VerifyLoginTwoFactor(r) \/ EnableTotp(r)
             \/ EnableEmail(r) \/ DisableTwoFactor(r) \/ ChangePassword(r) \/ RequestCode(r)
             \/ GuessWrong(r) \/ GuessRight(r) \/ Reset(r) \/ UploadSignature(r)
             \/ DeleteSignature(r)
      PROVE  AccountInv'
  BY <1>3, AskingKeeps
<1>4. ASSUME NEW r \in Visitors,
             \/ RecordFailedLogin(r) \/ ClearFailedLogins(r) \/ SpendOtp(r) \/ CommitTotp(r)
             \/ CommitEmail(r) \/ CommitDisable(r) \/ CommitGuess(r) \/ CancelCode(r)
             \/ CommitSignature(r) \/ CommitUnsign(r)
      PROVE  AccountInv'
  BY <1>4, RowWritesKeep
<1>5. ASSUME NEW r \in Visitors,
             Admit(r) \/ CommitChange(r) \/ SignAgain(r) \/ CommitCode(r) \/ Accept(r) \/ CommitReset(r)
      PROVE  AccountInv'
  BY <1>5, AdmitKeeps, CommitChangeKeeps, SignAgainKeeps, CommitCodeKeeps, AcceptKeeps, CommitResetKeeps
<1> QED
  BY <1>1, <1>2, <1>3, <1>4, <1>5 DEF AccountNext

LEMMA InvHolds == AccountSpec => []AccountInv
<1>1. AccountInit => AccountInv
  BY InitKeeps
<1>2. AccountInv /\ [AccountNext]_avars => AccountInv'
  BY StepKeeps
<1> QED
  BY <1>1, <1>2, PTL DEF AccountSpec

(* Every variable has its type (auth.service, password-reset.service, account.service). *)
THEOREM AccountTypeTheorem == AccountSpec => []AccountTypeOK
<1>1. AccountInv => AccountTypeOK
  BY DEF AccountInv
<1> QED
  BY <1>1, InvHolds, PTL

(* A session that still works was opened with the password in force or past a second
   factor, and the second factor that is asked for is there (sign, enableTotp). *)
THEOREM SignInTheorem == AccountSpec => []SignInHolds
<1>1. AccountInv => SignInHolds
  BY DEF AccountInv, SignInHolds, SessionsKept, SessionOfPassword
<1> QED
  BY <1>1, InvHolds, PTL

(* What one request's move can be, as far as its write goes: the request in hand is
   the only one that moves. *)
LEMMA OthersStay ==
  ASSUME AccountInv, NEW q \in Visitors, NEW v, visit' = [visit EXCEPT ![q] = v],
         NEW r \in Visitors, r # q
  PROVE  visit'[r] = visit[r]
  BY DEF AccountInv, AccountTypeOK

(* Only a reset ends a request that was to set a password by a code. *)
LEMMA ResetsAlone ==
  ASSUME AccountInv, [AccountNext]_avars, NEW r \in Visitors,
         Now(r, "reset"), ~Now(r, "reset")'
  PROVE  CommitReset(r)
<1>1. visit \in [Visitors -> Visit] /\ visit[r].write = "reset" /\ visit' # visit
  BY DEF AccountInv, AccountTypeOK, Now
<1>2. PICK q \in Visitors :
        \/ LoginWrong(q)       \/ RecordFailedLogin(q)
        \/ LoginRight(q)       \/ ClearFailedLogins(q)
        \/ Admit(q)
        \/ VerifyLoginTwoFactor(q) \/ SpendOtp(q)
        \/ EnableTotp(q)       \/ CommitTotp(q)
        \/ EnableEmail(q)      \/ CommitEmail(q)
        \/ DisableTwoFactor(q) \/ CommitDisable(q)
        \/ ChangePassword(q)   \/ CommitChange(q)  \/ SignAgain(q)
        \/ RequestCode(q)      \/ CommitCode(q)
        \/ GuessWrong(q)       \/ CommitGuess(q)   \/ CancelCode(q)
        \/ GuessRight(q)       \/ Accept(q)
        \/ Reset(q)            \/ CommitReset(q)
        \/ UploadSignature(q)  \/ CommitSignature(q)
        \/ DeleteSignature(q)  \/ CommitUnsign(q)
  BY <1>1 DEF AccountNext, avars, Logout, SetupTotp, StartEmailSetup, ResetPasswordToDefault, Lapse
<1>3. PICK v : visit' = [visit EXCEPT ![q] = v]
  <2>1. CASE CommitChange(q)
    <3>1. visit' = [visit EXCEPT ![q] =
                     [visit[q] EXCEPT !.write = "resign", !.saw = user', !.proved = user'.tv]]
      BY <1>1, <2>1 DEF CommitChange
    <3> QED
      BY <3>1
  <2>2. CASE ~CommitChange(q)
    BY <1>2, <2>2 DEF LoginWrong, RecordFailedLogin, LoginRight, ClearFailedLogins, Admit,
         VerifyLoginTwoFactor, SpendOtp, EnableTotp, CommitTotp, EnableEmail, CommitEmail,
         DisableTwoFactor, CommitDisable, ChangePassword, SignAgain, RequestCode, CommitCode,
         GuessWrong, CommitGuess, CancelCode, GuessRight, Accept, Reset, CommitReset,
         UploadSignature, CommitSignature, DeleteSignature, CommitUnsign, Asks, Write
  <2> QED
    BY <2>1, <2>2
<1>4. q = r
  BY <1>1, <1>3, OthersStay DEF Now
<1> QED
  BY <1>1, <1>2, <1>4 DEF LoginWrong, RecordFailedLogin, LoginRight, ClearFailedLogins, Admit,
       VerifyLoginTwoFactor, SpendOtp, EnableTotp, CommitTotp, EnableEmail, CommitEmail,
       DisableTwoFactor, CommitDisable, ChangePassword, CommitChange, SignAgain, RequestCode,
       CommitCode, GuessWrong, CommitGuess, CancelCode, GuessRight, Accept, Reset,
       UploadSignature, CommitSignature, DeleteSignature, CommitUnsign, Asks, Now

(* The code a password is set by has set none before. *)
LEMMA CodeStep ==
  ASSUME AccountInv, [AccountNext]_avars, NEW r \in Visitors,
         Now(r, "reset"), ~Now(r, "reset")', inOrder'
  PROVE  visit[r].code \notin spent
  BY ResetsAlone, CodeUnspent

(* The steps that leave the lock, the signature and the version alone. *)
Resting(r) ==
  \/ LoginWrong(r) \/ LoginRight(r) \/ VerifyLoginTwoFactor(r) \/ EnableTotp(r)
  \/ EnableEmail(r) \/ DisableTwoFactor(r) \/ ChangePassword(r) \/ RequestCode(r)
  \/ GuessWrong(r) \/ GuessRight(r) \/ Reset(r) \/ UploadSignature(r) \/ DeleteSignature(r)
  \/ Admit(r) \/ SpendOtp(r) \/ CommitTotp(r) \/ CommitEmail(r) \/ CommitDisable(r)
  \/ SignAgain(r) \/ CommitCode(r) \/ CommitGuess(r) \/ CancelCode(r) \/ Accept(r)

LEMMA RestingStep ==
  ASSUME AccountInv, NEW r \in Visitors, Resting(r)
  PROVE  user'.lock = user.lock /\ user'.signed = user.signed
<1>1. user \in User
  BY DEF AccountInv, AccountTypeOK
<1>2. CASE user' = user
  BY <1>2
<1>3. CASE \E request : Asks(r, request)
  BY <1>3 DEF Asks
<1>4. CASE Admit(r)
  BY <1>1, <1>4 DEF Admit, Write, Mailed, User
<1>5. CASE SpendOtp(r) \/ CommitTotp(r) \/ CommitCode(r) \/ CommitGuess(r) \/ CancelCode(r) \/ Accept(r)
  BY <1>1, <1>5 DEF SpendOtp, CommitTotp, CommitCode, CommitGuess, CancelCode, Accept, Write, User
<1>6. CASE CommitEmail(r) \/ CommitDisable(r)
  BY <1>1, <1>6 DEF CommitEmail, CommitDisable, ByEmail, Without, Write, User
<1>7. CASE SignAgain(r)
  BY <1>7 DEF SignAgain, Write
<1> QED
  BY <1>3, <1>4, <1>5, <1>6, <1>7 DEF Resting, LoginWrong, LoginRight, VerifyLoginTwoFactor,
       EnableTotp, EnableEmail, DisableTwoFactor, ChangePassword, RequestCode, GuessWrong,
       GuessRight, Reset, UploadSignature, DeleteSignature

LEMMA NewPasswordLocks ==
  ASSUME NEW row \in User
  PROVE  NewPassword(row).tv > row.tv /\ NewPassword(row).signed = row.signed
<1>1. NewPassword(row).tv = row.tv + 1 /\ row.tv \in Nat
  BY NewPasswordRow DEF User
<1>2. NewPassword(row).signed = row.signed
  BY DEF NewPassword, User
<1> QED
  BY <1>1, <1>2

(* A lock gives way to time, to a new password or to a second factor, and a signature of
   the owner's own to the owner. *)
LEMMA OwnerOrTimeStep ==
  ASSUME AccountInv, [AccountNext]_avars, inOrder'
  PROVE  /\ user.lock = "on" /\ user'.lock # "on"
              => \/ user'.lock = "over" \/ user'.tv > user.tv
                 \/ \E r \in Visitors : Now(r, "clear") /\ visit[r].second
         /\ user.signed = "self" /\ user'.signed # "self"
              => \E r \in Visitors : Now(r, "unsign") /\ visit[r].as = "self"
<1> DEFINE Goal == /\ user.lock = "on" /\ user'.lock # "on"
                        => \/ user'.lock = "over" \/ user'.tv > user.tv
                           \/ \E r \in Visitors : Now(r, "clear") /\ visit[r].second
                   /\ user.signed = "self" /\ user'.signed # "self"
                        => \E r \in Visitors : Now(r, "unsign") /\ visit[r].as = "self"
<1>1. user \in User /\ visit \in [Visitors -> Visit] /\ user.tv \in Nat /\ inOrder \in BOOLEAN
  BY DEF AccountInv, AccountTypeOK, User
<1>2. CASE UNCHANGED avars
  BY <1>2 DEF avars
<1>3. CASE Logout \/ SetupTotp \/ StartEmailSetup \/ Lapse
  <2>1. user'.signed = user.signed /\ (user'.lock = user.lock \/ user'.lock = "over")
    BY <1>1, <1>3 DEF Logout, SetupTotp, StartEmailSetup, Lapse, Mailed, User
  <2> QED
    BY <2>1
<1>4. CASE ResetPasswordToDefault
  <2>1. user'.tv = NewPassword(user).tv /\ user'.signed = NewPassword(user).signed
    BY <1>1, <1>4, NewPasswordRow DEF ResetPasswordToDefault, Without, User
  <2> QED
    BY <1>1, <2>1, NewPasswordLocks
<1>5. ASSUME NEW r \in Visitors, Resting(r)
      PROVE  Goal
  BY <1>5, RestingStep
<1>6. ASSUME NEW r \in Visitors, RecordFailedLogin(r)
      PROVE  Goal
  <2>1. visit[r].saw.lock = user.lock
    BY <1>6 DEF RecordFailedLogin, StaysPut
  <2>2. user' = Counted(user, visit[r].saw)
    BY <1>6 DEF RecordFailedLogin, Write
  <2>3. user'.lock \in {"on", user.lock} /\ user'.signed = user.signed
    BY <1>1, <2>1, <2>2 DEF Counted, User
  <2> QED
    BY <2>3
<1>7. ASSUME NEW r \in Visitors, ClearFailedLogins(r)
      PROVE  Goal
  <2>1. visit[r].saw.lock = user.lock /\ Now(r, "clear")
    BY <1>7 DEF ClearFailedLogins, StaysPut
  <2>2. user.lock = "on" => visit[r].second
    BY <2>1 DEF AccountInv, Errands, Fits, Now
  <2>3. user'.signed = user.signed
    BY <1>1, <1>7 DEF ClearFailedLogins, Write, User
  <2> QED
    BY <2>1, <2>2, <2>3
<1>8. ASSUME NEW r \in Visitors, CommitChange(r)
      PROVE  Goal
  BY <1>1, <1>8, NewPasswordLocks DEF CommitChange
<1>9. ASSUME NEW r \in Visitors, CommitReset(r)
      PROVE  Goal
  <2>1. user'.tv = NewPassword(user).tv /\ user'.signed = NewPassword(user).signed
    BY <1>1, <1>9, NewPasswordRow DEF CommitReset, Write, User
  <2> QED
    BY <1>1, <2>1, NewPasswordLocks
<1>10. ASSUME NEW r \in Visitors, CommitSignature(r)
       PROVE  Goal
  <2>1. visit[r].saw.signed = user.signed /\ Now(r, "sign")
    BY <1>10 DEF CommitSignature, StaysPut
  <2>2. user.signed = "self" => visit[r].as = "self"
    BY <2>1 DEF AccountInv, Errands, Fits, Now
  <2>3. user'.signed = visit[r].as /\ user'.lock = user.lock
    BY <1>1, <1>10 DEF CommitSignature, Write, User
  <2> QED
    BY <2>2, <2>3
<1>11. ASSUME NEW r \in Visitors, CommitUnsign(r)
       PROVE  Goal
  <2>1. visit[r].saw.signed = user.signed /\ Now(r, "unsign")
    BY <1>11 DEF CommitUnsign, StaysPut
  <2>2. user.signed = "self" => visit[r].as = "self"
    BY <2>1 DEF AccountInv, Errands, Fits, Now
  <2>3. user'.lock = user.lock
    BY <1>1, <1>11 DEF CommitUnsign, Write, User
  <2> QED
    BY <2>1, <2>2, <2>3
<1> QED
  BY <1>2, <1>3, <1>4, <1>5, <1>6, <1>7, <1>8, <1>9, <1>10, <1>11 DEF AccountNext, Resting

(* Whatever the interleaving of requests, as long as every write landed on what its
   handler had read: sign-in rests on the password in force, a mailed code sets one
   password, a lock and an own signature give way to their owner or to time. *)
THEOREM AccountTheorem == AccountSpec => AccountStands
<1>1. AccountInv /\ [AccountNext]_avars
        => [\A r \in Visitors :
              Now(r, "reset") /\ ~Now(r, "reset")' /\ inOrder' => visit[r].code \notin spent]_avars
  BY CodeStep
<1>2. AccountInv /\ [AccountNext]_avars
        => [user.lock = "on" /\ user'.lock # "on" /\ inOrder'
              => \/ user'.lock = "over" \/ user'.tv > user.tv
                 \/ \E r \in Visitors : Now(r, "clear") /\ visit[r].second]_avars
  BY OwnerOrTimeStep
<1>3. AccountInv /\ [AccountNext]_avars
        => [user.signed = "self" /\ user'.signed # "self" /\ inOrder'
              => \E r \in Visitors : Now(r, "unsign") /\ visit[r].as = "self"]_avars
  BY OwnerOrTimeStep
<1>4. AccountSpec => [][AccountNext]_avars
  BY PTL DEF AccountSpec
<1>5. AccountSpec => CodeSetsOnePassword
  BY <1>1, <1>4, InvHolds, PTL DEF CodeSetsOnePassword
<1>6. AccountSpec => LockStands
  BY <1>2, <1>4, InvHolds, PTL DEF LockStands
<1>7. AccountSpec => OwnSignatureKept
  BY <1>3, <1>4, InvHolds, PTL DEF OwnSignatureKept
<1> QED
  BY <1>5, <1>6, <1>7, SignInTheorem, PTL DEF AccountStands, OwnerOrTime, SignInHolds

-----------------------------------------------------------------------------
(***************************************************************************)
(* Access Control                                                          *)
(***************************************************************************)

(* A request knows what it is doing: for whom, to which role, in which path. *)
Sense(v) ==
  /\ v.step \in {"path", "levels"} => \E s \in Scopes : v.scopes = {s}
  /\ v.step = "path" => v.role = "raiser"
  /\ v.step \in {"levels", "dropLevels", "reindex"} => v.role = "approver"
  /\ v.step \in {"path", "grant", "grantRow"} /\ v.role = "raiser" => v.todo = <<Raiser>>
  /\ v.step = "invalidate" /\ v.role = "raiser" => v.todo = << >>
  /\ v.step \in {"dropPaths", "dropLevels", "reindex", "dropRow"} => v.todo = << >>
  /\ v.step \in {"grant", "grantRow"} => v.todo # << >>
  /\ v.step = "levels" => v.todo \in Lists

(* A load nobody has overtaken saw what is held, or what is just being taken away. *)
LoadsHold ==
  \A r \in Requests, p \in People : At(r, "load") /\ req[r].who = p /\ req[r].fresh =>
    req[r].saw \subseteq held[p] \cup Leaving(p)

(* Levels are finitely many and no two stand at one number. *)
Ranked(levels) ==
  /\ IsFiniteSet(levels)
  /\ \A k, l \in levels : k.at = l.at => k = l

(* They are numbered from 0 without a gap. *)
Gapless(levels) == \E n \in Nat : {l.at : l \in levels} = 0..(n - 1)

GapsClosed ==
  inTurn => \A s \in Scopes :
    Gapless(path[s].levels) \/ \E r \in Requests : At(r, "reindex") /\ s \in req[r].scopes

(* Whoever is about to lose the raiser's role has no path, unless one came back. *)
PathsDropped ==
  \A r \in Requests :
    At(r, "dropRow") /\ req[r].role = "raiser" /\ req[r].who = Raiser /\ req[r].fresh
      => \A s \in Scopes : ~path[s].on

Granting(r) == req[r].step \in {"grant", "grantRow"} /\ req[r].role = "raiser"

RaiserGranted ==
  inTurn /\ (\E s \in Scopes : path[s].on) =>
    "raiser" \in held[Raiser] \/ \E r \in Requests : Granting(r)

AccessInv ==
  /\ TypeOK
  /\ \A r \in Requests : Sense(req[r])
  /\ LoadsHold
  /\ RevokedIsGone
  /\ \A s \in Scopes : Ranked(path[s].levels)
  /\ GapsClosed
  /\ ChainContiguous
  /\ PathsDropped
  /\ RaiserGranted
-----------------------------------------------------------------------------
(* Levels in their order *)

Below(levels, l) == {k \in levels : k.at < l.at}

(* The places of the levels are the numbers below their count, one each. *)
LEMMA PlacesCount ==
  ASSUME NEW L \in SUBSET Level, Ranked(L)
  PROVE  /\ Cardinality(L) \in Nat
         /\ \A l \in L : Cardinality(Below(L, l)) \in 0..(Cardinality(L) - 1)
         /\ \A k, l \in L : Cardinality(Below(L, k)) = Cardinality(Below(L, l)) => k = l
         /\ \A i \in 0..(Cardinality(L) - 1) : \E l \in L : Cardinality(Below(L, l)) = i
<1> DEFINE n == Cardinality(L)
           Place == [l \in L |-> Cardinality(Below(L, l))]
<1>1. n \in Nat /\ IsFiniteSet(L) /\ \A l \in L : l.at \in Nat
  BY FS_CardinalityType DEF Ranked, Level
<1>2. ASSUME NEW l \in L
      PROVE  Place[l] \in 0..(n - 1)
  <2>1. Below(L, l) \in SUBSET L /\ l \notin Below(L, l)
    BY <1>1 DEF Below
  <2>2. IsFiniteSet(Below(L, l)) /\ Cardinality(Below(L, l)) <= n /\ Cardinality(Below(L, l)) # n
    BY <1>1, <2>1, FS_Subset
  <2>3. Cardinality(Below(L, l)) \in Nat
    BY <2>2, FS_CardinalityType
  <2> QED
    BY <1>1, <2>2, <2>3
<1>3. ASSUME NEW k \in L, NEW l \in L, k.at < l.at
      PROVE  Place[k] < Place[l]
  <2>1. /\ Below(L, k) \in SUBSET Below(L, l) /\ Below(L, k) # Below(L, l)
        /\ Below(L, l) \in SUBSET L
    <3>1. k \in Below(L, l) /\ k \notin Below(L, k)
      BY <1>1, <1>3 DEF Below
    <3>2. \A m \in Below(L, k) : m \in Below(L, l)
      BY <1>1, <1>3 DEF Below
    <3> QED
      BY <3>1, <3>2 DEF Below
  <2>2. IsFiniteSet(Below(L, l))
    BY <1>1, <2>1, FS_Subset
  <2>3. /\ Cardinality(Below(L, k)) <= Cardinality(Below(L, l))
        /\ Cardinality(Below(L, l)) # Cardinality(Below(L, k))
    BY <2>1, <2>2, FS_Subset
  <2> QED
    BY <1>2, <2>3
<1>4. ASSUME NEW k \in L, NEW l \in L, Place[k] = Place[l]
      PROVE  k = l
  <2>1. Place[k] \in Nat /\ ~(k.at < l.at) /\ ~(l.at < k.at)
    BY <1>2, <1>3, <1>4
  <2> QED
    BY <1>1, <2>1 DEF Ranked
<1>5. Place \in Injection(L, 0..(n - 1))
  BY <1>2, <1>4 DEF Injection, IsInjective
<1>6. IsFiniteSet(0..(n - 1)) /\ Cardinality(0..(n - 1)) = n
  BY <1>1, FS_Interval
<1>7. Place \in Surjection(L, 0..(n - 1))
  <2> HIDE DEF Place, n
  <2> QED
    BY <1>5, <1>6, FS_Injection DEF n
<1> QED
  BY <1>1, <1>2, <1>4, <1>7 DEF Surjection

(* A level numbered without a gap has as many before it as its number says. *)
LEMMA NumberIsPlace ==
  ASSUME NEW L \in SUBSET Level, Ranked(L), Gapless(L)
  PROVE  \A l \in L : Cardinality(Below(L, l)) = l.at
<1>1. PICK n \in Nat : {l.at : l \in L} = 0..(n - 1)
  BY DEF Gapless
<1>2. \A l \in L : l.at \in Nat
  BY DEF Level
<1> SUFFICES ASSUME NEW l \in L
             PROVE  Cardinality(Below(L, l)) = l.at
  OBVIOUS
<1> DEFINE f == [k \in Below(L, l) |-> k.at]
<1>3. f \in Injection(Below(L, l), 0..(l.at - 1))
  <2>1. \A k \in Below(L, l) : k \in L /\ k.at \in 0..(l.at - 1)
    BY <1>2 DEF Below
  <2> QED
    BY <2>1 DEF Injection, IsInjective, Ranked
<1>4. f \in Surjection(Below(L, l), 0..(l.at - 1))
  <2>1. ASSUME NEW i \in 0..(l.at - 1)
        PROVE  \E k \in Below(L, l) : f[k] = i
    <3>1. l.at \in 0..(n - 1)
      BY <1>1
    <3>2. i \in 0..(n - 1)
      BY <2>1, <3>1
    <3>3. PICK k \in L : k.at = i
      BY <1>1, <3>2
    <3>4. k \in Below(L, l)
      BY <1>2, <2>1, <3>3 DEF Below
    <3> QED
      BY <3>3, <3>4
  <2> QED
    BY <1>3, <2>1 DEF Surjection, Injection
<1>5. IsFiniteSet(0..(l.at - 1)) /\ Cardinality(0..(l.at - 1)) = l.at
  BY <1>2, FS_Interval
<1> QED
  <2> HIDE DEF f
  <2> QED
    BY <1>3, <1>4, <1>5, FS_Injection

(* The step appended to a chain without a gap is the next one. *)
LEMMA StepsInOrder ==
  ASSUME NEW L \in SUBSET Level, Ranked(L)
  PROVE  /\ BuildStepsForRaiser(L) \in Seq(Nat)
         /\ Gapless(L) => \A i \in DOMAIN BuildStepsForRaiser(L) :
                             BuildStepsForRaiser(L)[i] = i - 1
<1> DEFINE n == Cardinality(L)
           ats == [i \in 1..n |-> InOrder(L)[i].at]
<1>1. n \in Nat /\ \A l \in L : l.at \in Nat
  BY PlacesCount DEF Level
<1>2. ASSUME NEW i \in 1..n
      PROVE  InOrder(L)[i] \in L /\ Cardinality(Below(L, InOrder(L)[i])) = i - 1
  <2>1. i - 1 \in 0..(n - 1)
    BY <1>1
  <2>2. \E l \in L : Cardinality(Below(L, l)) = i - 1
    BY <2>1, PlacesCount
  <2>3. InOrder(L)[i] = CHOOSE l \in L : Cardinality(Below(L, l)) = i - 1
    BY DEF InOrder, Below
  <2> QED
    BY <2>2, <2>3
<1>3. ats \in Seq(Nat) /\ Len(ats) = n
  BY <1>1, <1>2
<1>4. BuildStepsForRaiser(L) = Append(ats, n)
  BY DEF BuildStepsForRaiser
<1>5. ASSUME Gapless(L), NEW i \in 1..n
      PROVE  ats[i] = i - 1
  BY <1>2, <1>5, NumberIsPlace
<1> HIDE DEF ats, n
<1>6. Append(ats, n) \in Seq(Nat) /\ DOMAIN Append(ats, n) = 1..(n + 1)
  BY <1>1, <1>3
<1>7. ASSUME Gapless(L), NEW i \in 1..(n + 1)
      PROVE  Append(ats, n)[i] = i - 1
  <2>1. CASE i = n + 1
    BY <1>1, <1>3, <2>1
  <2>2. CASE i \in 1..n
    BY <1>1, <1>3, <1>5, <1>7, <2>2
  <2>3. i = n + 1 \/ i \in 1..n
    BY <1>1, <1>7
  <2> QED
    BY <2>1, <2>2, <2>3
<1> QED
  BY <1>4, <1>6, <1>7

(* Renumbering closes every gap and leaves the levels apart. *)
LEMMA RenumberedGapless ==
  ASSUME NEW L \in SUBSET Level, Ranked(L)
  PROVE  /\ Renumbered(L) \in SUBSET Level
         /\ Ranked(Renumbered(L))
         /\ Gapless(Renumbered(L))
<1> DEFINE f == [l \in L |-> [l EXCEPT !.at = Cardinality(Below(L, l))]]
           n == Cardinality(L)
<1>1. Renumbered(L) = {f[l] : l \in L}
  BY DEF Renumbered, Below
<1>2. \A l \in L : f[l] \in Level /\ f[l].at = Cardinality(Below(L, l))
  <2> SUFFICES ASSUME NEW l \in L
               PROVE  f[l] \in Level /\ f[l].at = Cardinality(Below(L, l))
    OBVIOUS
  <2>1. l \in Level /\ Cardinality(Below(L, l)) \in Nat
    BY PlacesCount
  <2>2. f[l] = [l EXCEPT !.at = Cardinality(Below(L, l))]
    OBVIOUS
  <2> HIDE DEF f
  <2> QED
    BY <2>1, <2>2 DEF Level
<1>3. DOMAIN f = L
  OBVIOUS
<1>4. f \in [L -> Renumbered(L)]
  BY <1>1
<1> HIDE DEF f
<1>5. IsFiniteSet(Renumbered(L))
  <2>1. f \in Surjection(L, Renumbered(L))
    BY <1>1, <1>4 DEF Surjection
  <2> QED
    BY <2>1, FS_Surjection DEF Ranked
<1>6. \A k, l \in Renumbered(L) : k.at = l.at => k = l
  BY <1>1, <1>2, PlacesCount
<1>7. {l.at : l \in Renumbered(L)} = 0..(n - 1)
  <2>1. \A l \in Renumbered(L) : l.at \in 0..(n - 1)
    BY <1>1, <1>2, PlacesCount
  <2>2. ASSUME NEW i \in 0..(n - 1)
        PROVE  \E l \in Renumbered(L) : l.at = i
    <3>1. PICK l \in L : Cardinality(Below(L, l)) = i
      BY PlacesCount
    <3> QED
      BY <1>1, <1>2, <3>1
  <2> HIDE DEF n
  <2> QED
    BY <2>1, <2>2
<1>8. n \in Nat
  BY PlacesCount
<1> HIDE DEF n
<1> QED
  BY <1>1, <1>2, <1>5, <1>6, <1>7, <1>8 DEF Ranked, Gapless

(* A list of people makes levels without a gap. *)
LEMMA ListNumbered ==
  ASSUME NEW list \in Lists
  PROVE  /\ list \in Seq(People)
         /\ Numbered(list) \in SUBSET Level
         /\ Ranked(Numbered(list))
         /\ Gapless(Numbered(list))
<1>1. PICK n \in 0..MaxLevels : list \in [1..n -> Approvers]
  BY DEF Lists
<1>2. n \in Nat /\ DOMAIN list = 1..n /\ \A i \in 1..n : list[i] \in Approvers
  BY <1>1, BoundsAssumption
<1>3. list \in Seq(People)
  BY <1>1, <1>2 DEF People
<1> DEFINE New(i) == [at |-> i - 1, who |-> list[i]]
           f == [i \in 1..n |-> New(i)]
<1>4. Numbered(list) = {New(i) : i \in 1..n}
  BY <1>2 DEF Numbered
<1>5. \A i \in 1..n : New(i) \in Level /\ New(i).at = i - 1
  BY <1>2 DEF Level
<1>6. IsFiniteSet(Numbered(list))
  <2>1. f \in Surjection(1..n, Numbered(list))
    BY <1>4 DEF Surjection
  <2>2. IsFiniteSet(1..n)
    BY <1>2, FS_Interval
  <2> HIDE DEF f
  <2> QED
    BY <2>1, <2>2, FS_Surjection
<1>7. \A k, l \in Numbered(list) : k.at = l.at => k = l
  <2> SUFFICES ASSUME NEW i \in 1..n, NEW j \in 1..n, New(i).at = New(j).at
               PROVE  i = j
    BY <1>4
  <2> QED
    BY <1>5
<1>8. {l.at : l \in Numbered(list)} = 0..(n - 1)
  <2>1. \A l \in Numbered(list) : l.at \in 0..(n - 1)
    BY <1>2, <1>4, <1>5
  <2>2. ASSUME NEW m \in 0..(n - 1)
        PROVE  \E l \in Numbered(list) : l.at = m
    <3>1. m + 1 \in 1..n /\ New(m + 1).at = m
      BY <1>2
    <3> QED
      BY <1>4, <3>1
  <2> QED
    BY <2>1, <2>2
<1> QED
  BY <1>2, <1>3, <1>4, <1>5, <1>6, <1>7, <1>8 DEF Ranked, Gapless
-----------------------------------------------------------------------------
(* Types *)

(* What a guard is told are roles: what is remembered, or else what is held. *)
LEMMA PermissionsKnown ==
  ASSUME TypeOK, NEW p \in People
  PROVE  /\ Permissions(p) \in SUBSET Roles
         /\ cached[p] = {} => Permissions(p) = held[p]
         /\ \A x \in cached[p] : x \in SUBSET Roles /\ cached[p] = {x} /\ Permissions(p) = x
<1>1. held[p] \in SUBSET Roles /\ cached[p] \in Optional(SUBSET Roles)
  BY DEF TypeOK
<1>2. CASE cached[p] = {}
  BY <1>1, <1>2 DEF Permissions
<1>3. ASSUME NEW x \in SUBSET Roles, cached[p] = {x}
      PROVE  Permissions(p) = x
  BY <1>3 DEF Permissions
<1> QED
  BY <1>1, <1>2, <1>3 DEF Optional

LEMMA IdleRequest == Idle \in Request /\ Idle.step = "none"
  BY DEF Idle, Request, Steps, People, Roles

(* A request keeps its shape whatever it is to do next, and for whom. *)
LEMMA RequestsKept ==
  ASSUME NEW v \in Request
  PROVE  /\ \A step \in Steps : [v EXCEPT !.step = step] \in Request
         /\ \A step \in Steps, scopes \in SUBSET Scopes :
              [v EXCEPT !.scopes = scopes, !.step = step] \in Request
         /\ \A step \in Steps, p \in People, roles \in SUBSET Roles :
              [v EXCEPT !.step = step, !.who = p, !.saw = roles] \in Request
         /\ \A step \in Steps, p \in People, role \in Roles :
              /\ [v EXCEPT !.step = step, !.who = p, !.role = role] \in Request
              /\ [v EXCEPT !.who = p, !.role = role, !.step = step] \in Request
         /\ \A step \in Steps, p \in People, todo \in Seq(People) :
              [v EXCEPT !.step = step, !.who = p, !.todo = todo] \in Request
         /\ \A step \in Steps, scopes \in SUBSET Scopes, todo \in Seq(People) :
              [v EXCEPT !.step = step, !.scopes = scopes, !.todo = todo] \in Request
         /\ \A step \in Steps, scopes \in SUBSET Scopes, role \in Roles, todo \in Seq(People) :
              [v EXCEPT !.step = step, !.scopes = scopes, !.role = role, !.todo = todo] \in Request
  BY DEF Request

(* A request is asked for when nothing is in hand, and counted. *)
LEMMA AskedFor ==
  ASSUME TypeOK, NEW r \in Requests, NEW v \in Request, Ask(r, v)
  PROVE  /\ req' \in [Requests -> Request] /\ edits' \in Nat
         /\ req[r].step = "none" /\ req' = [req EXCEPT ![r] = v]
  BY DEF TypeOK, Ask, At

(* A path keeps its shape whatever levels it is given. *)
LEMMA PathsKept ==
  ASSUME path \in [Scopes -> Path], NEW s \in Scopes, NEW levels \in SUBSET Level
  PROVE  [path EXCEPT ![s].levels = levels] \in [Scopes -> Path]
  BY DEF Path

LEMMA ScopeNamed ==
  ASSUME NEW v \in Request, Sense(v), v.step \in {"path", "levels"}
  PROVE  (CHOOSE s \in v.scopes : TRUE) \in Scopes /\ v.scopes = {CHOOSE s \in v.scopes : TRUE}
  BY DEF Sense

LEMMA TypeStep ==
  ASSUME AccessInv, [Next]_vars
  PROVE  TypeOK'
<1>1. /\ held \in [People -> SUBSET Roles] /\ cached \in [People -> Optional(SUBSET Roles)]
      /\ path \in [Scopes -> Path] /\ chain \in Seq(Nat)
      /\ req \in [Requests -> Request] /\ edits \in Nat /\ inTurn \in BOOLEAN
  BY DEF AccessInv, TypeOK
<1>2. Raiser \in People /\ "any" \in Scopes /\ NoPath \in Path /\ {} \in Optional(SUBSET Roles)
  BY DEF People, Scopes, NoPath, Path, Optional
<1>3. CASE UNCHANGED vars
  BY <1>1, <1>3 DEF TypeOK, vars
<1>4. CASE Expire
  BY <1>1, <1>2, <1>4 DEF TypeOK, Expire
<1>5. CASE RemoveRaiser
  <2>1. PICK scopes : path' = [s \in Scopes |-> IF s \in scopes THEN NoPath ELSE path[s]]
    BY <1>5 DEF RemoveRaiser
  <2>2. path' \in [Scopes -> Path]
    BY <1>1, <1>2, <2>1
  <2> QED
    <3>1. edits' \in Nat /\ UNCHANGED <<held, cached, chain, req, inTurn>>
      BY <1>1, <1>5 DEF RemoveRaiser
    <3> QED
      BY <1>1, <2>2, <3>1 DEF TypeOK
<1>6. CASE Raise
  <2>1. PICK s \in Scopes : chain' = BuildStepsForRaiser(path[Routed(s)].levels)
    BY <1>6 DEF Raise
  <2>2. Routed(s) \in Scopes
    BY <1>2 DEF Routed
  <2>3. path[Routed(s)].levels \in SUBSET Level /\ Ranked(path[Routed(s)].levels)
    BY <1>1, <2>2 DEF Path, AccessInv
  <2>4. chain' \in Seq(Nat)
    BY <2>1, <2>3, StepsInOrder
  <2> QED
    <3>1. inTurn' \in BOOLEAN
      BY <1>1, <1>6 DEF Raise, Stays
    <3>2. edits' \in Nat /\ UNCHANGED <<held, cached, path, req>>
      BY <1>1, <1>6 DEF Raise
    <3> QED
      BY <1>1, <2>4, <3>1, <3>2 DEF TypeOK
<1>7. CASE Restart
  BY <1>1, <1>2, <1>7, IdleRequest DEF TypeOK, Restart, Stays
<1>8. ASSUME NEW r \in Requests, Load(r)
      PROVE  TypeOK'
  <2>1. PICK p \in People :
          req' = [req EXCEPT ![r] = [Idle EXCEPT !.step = "load", !.who = p, !.saw = held[p]]]
    BY <1>8 DEF Load
  <2>2. [Idle EXCEPT !.step = "load", !.who = p, !.saw = held[p]] \in Request
    BY <1>1, IdleRequest, RequestsKept DEF Steps
  <2> QED
    BY <1>1, <1>8, <2>1, <2>2 DEF TypeOK, Load
<1>9. ASSUME NEW r \in Requests, CommitLoad(r)
      PROVE  TypeOK'
  <2>1. {req[r].saw} \in Optional(SUBSET Roles)
    BY <1>1 DEF Request, Optional
  <2> QED
    BY <1>1, <1>9, <2>1, IdleRequest DEF TypeOK, CommitLoad, Stays
<1>10. ASSUME NEW r \in Requests, Invalidate(r)
       PROVE  TypeOK'
  <2>1. Overtaken(req[r].who) \in [Requests -> Request]
    BY <1>1 DEF Overtaken, Request
  <2>2. [req[r] EXCEPT !.step = "grant"] \in Request
    BY <1>1 DEF Request, Steps
  <2>3. req' \in [Requests -> Request]
    BY <1>10, <2>1, <2>2, IdleRequest DEF Invalidate
  <2> QED
    BY <1>1, <1>2, <1>10, <2>3 DEF TypeOK, Invalidate, Forgotten
<1>11. ASSUME NEW r \in Requests, CreateAssignment(r)
       PROVE  TypeOK'
  <2>1. PICK p \in People, role \in Roles :
          /\ held' = [held EXCEPT ![p] = @ \cup {role}]
          /\ Ask(r, [Idle EXCEPT !.step = "invalidate", !.who = p, !.role = role])
    BY <1>11 DEF CreateAssignment
  <2>2. [Idle EXCEPT !.step = "invalidate", !.who = p, !.role = role] \in Request
    BY IdleRequest, RequestsKept DEF Steps
  <2>3. req' \in [Requests -> Request] /\ edits' \in Nat
    BY <2>1, <2>2, AskedFor DEF AccessInv
  <2>4. held' \in [People -> SUBSET Roles]
    BY <1>1, <2>1
  <2> QED
    BY <1>1, <1>11, <2>3, <2>4 DEF TypeOK, CreateAssignment
<1>12. ASSUME NEW r \in Requests, DeleteAssignment(r)
       PROVE  TypeOK'
  <2>1. PICK p \in People, role \in Roles, step \in Steps :
          Ask(r, [Idle EXCEPT !.who = p, !.role = role, !.step = step])
    BY <1>12 DEF DeleteAssignment, Steps
  <2>2. [Idle EXCEPT !.who = p, !.role = role, !.step = step] \in Request
    BY IdleRequest, RequestsKept
  <2>3. req' \in [Requests -> Request] /\ edits' \in Nat
    BY <2>1, <2>2, AskedFor DEF AccessInv
  <2> QED
    BY <1>1, <1>12, <2>3 DEF TypeOK, DeleteAssignment
<1>13. ASSUME NEW r \in Requests, DropPaths(r)
       PROVE  TypeOK'
  <2>1. req' \in [Requests -> Request]
    BY ZenonT(60), <1>1, <1>13 DEF DropPaths, GoOn, Request, Steps
  <2> QED
    BY <1>1, <1>2, <1>13, <2>1 DEF TypeOK, DropPaths, Unrouted
<1>14. ASSUME NEW r \in Requests, DropLevels(r)
       PROVE  TypeOK'
  <2>1. req' \in [Requests -> Request]
    <3> DEFINE hit == {s \in Scopes : Names(path[s].levels, req[r].who)}
               to == IF hit = {} THEN "dropRow" ELSE "reindex"
    <3>1. req' = [req EXCEPT ![r].scopes = hit, ![r].step = to]
      BY <1>14 DEF DropLevels
    <3>2. hit \in SUBSET Scopes /\ to \in Steps
      BY DEF Steps
    <3> HIDE DEF hit, to
    <3> QED
      BY ZenonT(60), <1>1, <3>1, <3>2 DEF Request
  <2>2. path' \in [Scopes -> Path]
    BY <1>1, <1>14 DEF DropLevels, Path
  <2> QED
    BY <1>1, <1>14, <2>1, <2>2 DEF TypeOK, DropLevels
<1>15. ASSUME NEW r \in Requests, Reindex(r)
       PROVE  TypeOK'
  <2>1. PICK s \in Scopes :
          /\ s \in req[r].scopes
          /\ path' = [path EXCEPT ![s].levels = Renumbered(@)]
          /\ req' = [req EXCEPT ![r].scopes = @ \ {s},
                                ![r].step = IF req[r].scopes = {s} THEN "dropRow" ELSE "reindex"]
    BY <1>1, <1>15 DEF Reindex, Request
  <2>2. req' \in [Requests -> Request]
    <3> DEFINE scopes == req[r].scopes \ {s}
               step == IF req[r].scopes = {s} THEN "dropRow" ELSE "reindex"
    <3>1. scopes \in SUBSET Scopes /\ step \in Steps
      BY <1>1 DEF Request, Steps
    <3>2. req' = [req EXCEPT ![r] = [req[r] EXCEPT !.scopes = scopes, !.step = step]]
      BY <1>1, <2>1 DEF Request
    <3> HIDE DEF scopes, step
    <3> QED
      BY <1>1, <3>1, <3>2, RequestsKept
  <2>3. path[s].levels \in SUBSET Level /\ Ranked(path[s].levels)
    BY <1>1 DEF Path, AccessInv
  <2>4. Renumbered(path[s].levels) \in SUBSET Level
    BY <2>3, RenumberedGapless
  <2>5. path' = [path EXCEPT ![s].levels = Renumbered(path[s].levels)]
    BY <2>1
  <2>6. path' \in [Scopes -> Path]
    BY <1>1, <2>4, <2>5, PathsKept
  <2> QED
    BY <1>1, <1>15, <2>2, <2>6 DEF TypeOK, Reindex
<1>16. ASSUME NEW r \in Requests, DropRow(r)
       PROVE  TypeOK'
  <2>1. req' \in [Requests -> Request]
    <3>1. [req[r] EXCEPT !.step = "invalidate"] \in Request
      BY <1>1, RequestsKept DEF Steps
    <3> QED
      BY <1>1, <1>16, <3>1, IdleRequest DEF DropRow, GoOn
  <2> QED
    BY <1>1, <1>16, <2>1 DEF TypeOK, DropRow, Stays
<1>17. ASSUME NEW r \in Requests, AddRaiser(r)
       PROVE  TypeOK'
  <2>1. PICK s \in Scopes :
          Ask(r, [Idle EXCEPT !.step = "path", !.scopes = {s}, !.todo = <<Raiser>>])
    BY <1>17 DEF AddRaiser
  <2>2. <<Raiser>> \in Seq(People)
    BY <1>2
  <2>3. [Idle EXCEPT !.step = "path", !.scopes = {s}, !.todo = <<Raiser>>] \in Request
    <3>1. "path" \in Steps /\ {s} \in SUBSET Scopes
      BY DEF Steps
    <3> QED
      BY <2>2, <3>1, IdleRequest, RequestsKept
  <2>4. req' \in [Requests -> Request] /\ edits' \in Nat
    BY <2>1, <2>3, AskedFor DEF AccessInv
  <2> QED
    BY <1>1, <1>17, <2>4 DEF TypeOK, AddRaiser
<1>18. ASSUME NEW r \in Requests, CommitPath(r)
       PROVE  TypeOK'
  <2>1. (CHOOSE s \in req[r].scopes : TRUE) \in Scopes
    BY <1>1, <1>18, ScopeNamed DEF CommitPath, At, AccessInv
  <2>2. [BackAgain("raiser", {Raiser}) EXCEPT ![r].step = "grant"] \in [Requests -> Request]
    <3>1. BackAgain("raiser", {Raiser}) \in [Requests -> Request]
      BY <1>1 DEF BackAgain, Request
    <3>2. [BackAgain("raiser", {Raiser})[r] EXCEPT !.step = "grant"] \in Request
      BY <3>1, RequestsKept DEF Steps
    <3> HIDE DEF BackAgain
    <3> QED
      BY <3>1, <3>2
  <2>3. req' \in [Requests -> Request]
    BY <1>1, <1>18, <2>2, IdleRequest DEF CommitPath
  <2>4. path' \in [Scopes -> Path]
    <3> DEFINE s == CHOOSE s \in req[r].scopes : TRUE
    <3>1. path' = path \/ path' = [path EXCEPT ![s].on = TRUE]
      BY <1>18 DEF CommitPath
    <3> HIDE DEF s
    <3>2. [path EXCEPT ![s].on = TRUE] \in [Scopes -> Path]
      BY <1>1 DEF Path
    <3> QED
      BY <1>1, <3>1, <3>2
  <2> QED
    BY <1>1, <1>18, <2>3, <2>4 DEF TypeOK, CommitPath
<1>19. ASSUME NEW r \in Requests, Replace(r)
       PROVE  TypeOK'
  <2>1. PICK s \in Scopes, list \in Lists :
          Ask(r, [Idle EXCEPT !.step = "levels", !.scopes = {s}, !.role = "approver", !.todo = list])
    BY <1>19 DEF Replace
  <2>2. [Idle EXCEPT !.step = "levels", !.scopes = {s}, !.role = "approver", !.todo = list] \in Request
    <3>1. /\ "levels" \in Steps /\ {s} \in SUBSET Scopes /\ "approver" \in Roles
          /\ list \in Seq(People)
      BY ListNumbered DEF Steps, Roles
    <3> QED
      BY <3>1, IdleRequest, RequestsKept
  <2>3. req' \in [Requests -> Request] /\ edits' \in Nat
    BY <2>1, <2>2, AskedFor DEF AccessInv
  <2> QED
    BY <1>1, <1>19, <2>3 DEF TypeOK, Replace
<1>20. ASSUME NEW r \in Requests, CommitLevels(r)
       PROVE  TypeOK'
  <2> DEFINE s == CHOOSE s \in req[r].scopes : TRUE
  <2>1. s \in Scopes /\ req[r].todo \in Lists
    BY <1>1, <1>20, ScopeNamed DEF CommitLevels, At, AccessInv, Sense
  <2>2. [path EXCEPT ![s].levels = Numbered(req[r].todo)] \in [Scopes -> Path]
    BY <1>1, <2>1, ListNumbered, PathsKept
  <2>3. ASSUME NEW who, NEW v \in Request
        PROVE  [BackAgain("approver", who) EXCEPT ![r] = v] \in [Requests -> Request]
    BY <1>1 DEF BackAgain, Request
  <2>4. [req[r] EXCEPT !.step = "grant"] \in Request
    BY <1>1 DEF Request, Steps
  <2>5. req' \in [Requests -> Request]
    <3> DEFINE after == IF req[r].todo = << >> THEN Idle ELSE [req[r] EXCEPT !.step = "grant"]
               who == {req[r].todo[i] : i \in DOMAIN req[r].todo}
    <3>1. \/ req' = [BackAgain("approver", who) EXCEPT ![r] = after]
          \/ req' = [req EXCEPT ![r] = Idle]
      BY <1>20 DEF CommitLevels
    <3>2. after \in Request
      BY <2>4, IdleRequest
    <3> HIDE DEF after, who
    <3>3. [BackAgain("approver", who) EXCEPT ![r] = after] \in [Requests -> Request]
      BY <2>3, <3>2
    <3> QED
      BY <1>1, <3>1, <3>3, IdleRequest
  <2>6. path' \in [Scopes -> Path]
    BY <1>1, <1>20, <2>2 DEF CommitLevels
  <2> QED
    BY <1>1, <1>20, <2>5, <2>6 DEF TypeOK, CommitLevels
<1>21. ASSUME NEW r \in Requests, Grant(r)
       PROVE  TypeOK'
  <2>1. req[r].todo \in Seq(People) /\ req[r].todo # << >>
    BY <1>1, <1>21 DEF Grant, At, AccessInv, Sense, Request
  <2>2. Head(req[r].todo) \in People /\ Tail(req[r].todo) \in Seq(People)
    BY <2>1
  <2>3. /\ [req[r] EXCEPT !.step = "grantRow"] \in Request
        /\ [req[r] EXCEPT !.todo = Tail(req[r].todo)] \in Request
    BY <1>1, <2>2 DEF Request, Steps
  <2>4. req' \in [Requests -> Request]
    BY <1>1, <1>21, <2>3, IdleRequest DEF Grant
  <2>5. {Permissions(Head(req[r].todo))} \in Optional(SUBSET Roles)
    BY <2>2, PermissionsKnown DEF AccessInv, Optional
  <2>6. cached' \in [People -> Optional(SUBSET Roles)]
    BY <1>1, <1>21, <2>5 DEF Grant
  <2> QED
    BY <1>1, <1>21, <2>4, <2>6 DEF TypeOK, Grant
<1>22. ASSUME NEW r \in Requests, GrantRow(r)
       PROVE  TypeOK'
  <2>1. req[r].todo \in Seq(People) /\ req[r].todo # << >> /\ req[r].role \in Roles
    BY <1>1, <1>22 DEF GrantRow, At, AccessInv, Sense, Request
  <2>2. Head(req[r].todo) \in People /\ Tail(req[r].todo) \in Seq(People)
    BY <2>1
  <2>3. req' \in [Requests -> Request]
    <3> DEFINE after == [req[r] EXCEPT !.step = "invalidate", !.who = Head(req[r].todo),
                                       !.todo = Tail(req[r].todo)]
    <3>1. after \in Request
      BY <1>1, <2>2, RequestsKept DEF Steps
    <3>2. req' = [req EXCEPT ![r] = Idle] \/ req' = [req EXCEPT ![r] = after]
      BY <1>1, <1>22 DEF GrantRow, Request
    <3> HIDE DEF after
    <3> QED
      BY <1>1, <3>1, <3>2, IdleRequest
  <2>4. held' \in [People -> SUBSET Roles]
    <3> DEFINE p == Head(req[r].todo)
    <3>1. held' = held \/ held' = [held EXCEPT ![p] = held[p] \cup {req[r].role}]
      BY <1>22 DEF GrantRow
    <3> HIDE DEF p
    <3> QED
      BY <1>1, <2>1, <2>2, <3>1 DEF p
  <2> QED
    BY <1>1, <1>22, <2>3, <2>4 DEF TypeOK, GrantRow, Stays
<1> QED
  BY <1>3, <1>4, <1>5, <1>6, <1>7, <1>8, <1>9, <1>10, <1>11, <1>12, <1>13, <1>14, <1>15,
     <1>16, <1>17, <1>18, <1>19, <1>20, <1>21, <1>22 DEF Next
-----------------------------------------------------------------------------
(* What a step leaves as it was *)

(* The request is where it was; it may have been overtaken. *)
Same(v, w) ==
  /\ w.step = v.step /\ w.who = v.who /\ w.role = v.role
  /\ w.scopes = v.scopes /\ w.todo = v.todo /\ w.saw = v.saw
  /\ w.fresh => v.fresh

LEMMA SenseSame ==
  ASSUME NEW v, NEW w, Sense(v), Same(v, w)
  PROVE  Sense(w)
  BY DEF Sense, Same

(* What is held or on its way out still is, and what is newly read or remembered is
   no more than that. *)
LEMMA RolesCovered ==
  ASSUME AccessInv, inTurn' => inTurn,
         \A p \in People : held[p] \cup Leaving(p) \subseteq held'[p] \cup Leaving(p)',
         \A p \in People : \A roles \in cached'[p] :
           roles \in cached[p] \/ (inTurn' => roles \subseteq held[p] \cup Leaving(p)),
         \A q \in Requests :
           At(q, "load")' => Same(req[q], req'[q]) \/ req'[q].saw \subseteq held'[req'[q].who]
  PROVE  LoadsHold' /\ RevokedIsGone'
<1>1. LoadsHold'
  <2> SUFFICES ASSUME NEW r \in Requests, NEW p \in People,
                      req'[r].step = "load", req'[r].who = p, req'[r].fresh
               PROVE  req'[r].saw \subseteq held'[p] \cup Leaving(p)'
    BY DEF LoadsHold, At
  <2>1. CASE Same(req[r], req'[r])
    <3>1. req[r].saw \subseteq held[p] \cup Leaving(p)
      BY <2>1 DEF AccessInv, LoadsHold, At, Same
    <3>2. req'[r].saw = req[r].saw
      BY <2>1 DEF Same
    <3> QED
      BY <3>1, <3>2
  <2>2. CASE req'[r].saw \subseteq held'[req'[r].who]
    BY <2>2
  <2> QED
    BY <2>1, <2>2 DEF At
<1>2. RevokedIsGone'
  <2> SUFFICES ASSUME inTurn', NEW p \in People, NEW roles \in cached'[p]
               PROVE  roles \subseteq held'[p] \cup Leaving(p)'
    BY DEF RevokedIsGone
  <2>1. roles \subseteq held[p] \cup Leaving(p)
    BY DEF AccessInv, RevokedIsGone
  <2> QED
    BY <2>1
<1> QED
  BY <1>1, <1>2

(* Nobody loses a role, and no row stops being on its way out. *)
LEMMA RolesKept ==
  ASSUME AccessInv, inTurn' => inTurn,
         \A p \in People : held[p] \subseteq held'[p],
         \A p \in People : \A roles \in cached'[p] :
           roles \in cached[p] \/ (inTurn' => roles \subseteq held[p] \cup Leaving(p)),
         \A q \in Requests :
           \/ Same(req[q], req'[q])
           \/ /\ ~At(q, "invalidate")
              /\ At(q, "load")' => req'[q].saw \subseteq held'[req'[q].who]
  PROVE  LoadsHold' /\ RevokedIsGone'
<1>1. ASSUME NEW p \in People
      PROVE  held[p] \cup Leaving(p) \subseteq held'[p] \cup Leaving(p)'
  <2>1. Leaving(p) \subseteq Leaving(p)'
    BY DEF Leaving, At, Same
  <2> QED
    BY <2>1
<1> QED
  BY <1>1, RolesCovered

LEMMA NoLevels == Ranked({}) /\ Gapless({})
<1>1. Ranked({})
  BY FS_EmptySet DEF Ranked
<1>2. {l.at : l \in {}} = 0..(0 - 1)
  OBVIOUS
<1> QED
  BY <1>1, <1>2 DEF Gapless

(* A path without a gap keeps it so, or gets one that somebody is closing. *)
LEMMA GapsKept ==
  ASSUME AccessInv, inTurn' => inTurn,
         \A s \in Scopes : \/ path'[s].levels = path[s].levels
                           \/ Gapless(path'[s].levels)
                           \/ \E q \in Requests : At(q, "reindex")' /\ s \in req'[q].scopes,
         \A q \in Requests :
           \/ Same(req[q], req'[q])
           \/ \A s \in Scopes : At(q, "reindex") /\ s \in req[q].scopes =>
                \/ Gapless(path'[s].levels)
                \/ At(q, "reindex")' /\ s \in req'[q].scopes
  PROVE  GapsClosed'
<1> SUFFICES ASSUME inTurn', NEW s \in Scopes, path'[s].levels = path[s].levels
             PROVE  Gapless(path'[s].levels) \/ \E r \in Requests : At(r, "reindex")' /\ s \in req'[r].scopes
  BY DEF GapsClosed
<1>1. Gapless(path[s].levels) \/ \E r \in Requests : At(r, "reindex") /\ s \in req[r].scopes
  BY DEF AccessInv, GapsClosed
<1>2. ASSUME NEW r \in Requests, At(r, "reindex"), s \in req[r].scopes
      PROVE  Gapless(path'[s].levels) \/ (At(r, "reindex")' /\ s \in req'[r].scopes)
  BY <1>2 DEF Same, At
<1> QED
  BY <1>1, <1>2

(* No path gets a gap. *)
LEMMA LevelsKept ==
  ASSUME AccessInv, inTurn' => inTurn,
         \A s \in Scopes : \/ path'[s].levels \in {path[s].levels, {}}
                           \/ Ranked(path'[s].levels) /\ Gapless(path'[s].levels),
         \A q \in Requests : Same(req[q], req'[q]) \/ ~At(q, "reindex")
  PROVE  (\A s \in Scopes : Ranked(path'[s].levels)) /\ GapsClosed'
<1>1. \A s \in Scopes : Ranked(path'[s].levels)
  BY NoLevels DEF AccessInv
<1>2. GapsClosed'
  BY NoLevels, GapsKept
<1> QED
  BY <1>1, <1>2

(* No path is opened; the raiser's role goes only when no path is left, and nobody
   stops granting it before it is held. *)
LEMMA RaiserKept ==
  ASSUME AccessInv, inTurn' => inTurn,
         \A s \in Scopes : path'[s].on => path[s].on,
         "raiser" \in held[Raiser] =>
           "raiser" \in held'[Raiser] \/ (inTurn' => \A s \in Scopes : ~path'[s].on),
         \A q \in Requests :
           \/ Same(req[q], req'[q])
           \/ /\ Granting(q) /\ inTurn' => "raiser" \in held'[Raiser] \/ Granting(q)'
              /\ At(q, "dropRow")' /\ req'[q].role = "raiser" /\ req'[q].who = Raiser =>
                   \A s \in Scopes : ~path'[s].on
  PROVE  PathsDropped' /\ RaiserGranted'
<1>1. PathsDropped'
  <2> SUFFICES ASSUME NEW r \in Requests, req'[r].step = "dropRow", req'[r].role = "raiser",
                      req'[r].who = Raiser, req'[r].fresh,
                      NEW s \in Scopes
               PROVE  ~path'[s].on
    BY DEF PathsDropped, At
  <2>1. CASE Same(req[r], req'[r])
    <3>1. ~path[s].on
      BY <2>1 DEF AccessInv, PathsDropped, At, Same
    <3> QED
      BY <3>1
  <2> QED
    BY <2>1 DEF At
<1>2. RaiserGranted'
  <2> SUFFICES ASSUME inTurn', NEW s \in Scopes, path'[s].on
               PROVE  "raiser" \in held'[Raiser] \/ \E r \in Requests : Granting(r)'
    BY DEF RaiserGranted
  <2>1. "raiser" \in held[Raiser] \/ \E r \in Requests : Granting(r)
    BY DEF AccessInv, RaiserGranted
  <2>2. ASSUME NEW r \in Requests, Granting(r)
        PROVE  "raiser" \in held'[Raiser] \/ Granting(r)'
    BY <2>2 DEF Granting, Same
  <2> QED
    BY <2>1, <2>2
<1> QED
  BY <1>1, <1>2

-----------------------------------------------------------------------------
(* What each step keeps *)

(* Only this request moves. *)
LEMMA OneMoves ==
  ASSUME TypeOK, NEW r \in Requests, NEW v, req' = [req EXCEPT ![r] = v]
  PROVE  req'[r] = v /\ \A q \in Requests : q # r => Same(req[q], req'[q])
  BY DEF TypeOK, Same

LEMMA IdleSense == Sense(Idle)
  BY DEF Sense, Idle

(* Rows that are only forgotten, or a path that is only dropped, or a requisition that
   is only raised. *)
LEMMA ExpireKeeps ==
  ASSUME AccessInv, TypeOK', Expire
  PROVE  AccessInv'
<1>1. UNCHANGED <<held, path, chain, req, edits, inTurn>>
  BY DEF Expire
<1>2. \A p \in People : \A roles \in cached'[p] : roles \in cached[p]
  BY DEF Expire, AccessInv, TypeOK
<1>3. \A q \in Requests : Same(req[q], req'[q])
  BY <1>1 DEF Same
<1>4. LoadsHold' /\ RevokedIsGone'
  BY <1>1, <1>2, <1>3, RolesKept
<1>5. (\A s \in Scopes : Ranked(path'[s].levels)) /\ GapsClosed'
  BY <1>1, <1>3, LevelsKept
<1>6. PathsDropped' /\ RaiserGranted'
  BY <1>1, <1>3, RaiserKept
<1> QED
  BY <1>1, <1>4, <1>5, <1>6 DEF AccessInv, ChainContiguous

LEMMA RemoveRaiserKeeps ==
  ASSUME AccessInv, TypeOK', RemoveRaiser
  PROVE  AccessInv'
<1>1. UNCHANGED <<held, cached, chain, req, inTurn>>
  BY DEF RemoveRaiser
<1>2. \A s \in Scopes : path'[s] = path[s] \/ path'[s] = NoPath
  BY DEF RemoveRaiser
<1>3. \A q \in Requests : Same(req[q], req'[q])
  BY <1>1 DEF Same
<1>4. LoadsHold' /\ RevokedIsGone'
  BY <1>1, <1>3, RolesKept
<1>5. (\A s \in Scopes : Ranked(path'[s].levels)) /\ GapsClosed'
  BY <1>1, <1>2, <1>3, LevelsKept DEF NoPath
<1>6. PathsDropped' /\ RaiserGranted'
  BY <1>1, <1>2, <1>3, RaiserKept DEF NoPath
<1> QED
  BY <1>1, <1>4, <1>5, <1>6 DEF AccessInv, ChainContiguous

(* Nobody is closing a gap, so the levels are numbered from 0. *)
LEMMA RaiseKeeps ==
  ASSUME AccessInv, TypeOK', Raise
  PROVE  AccessInv'
<1>1. UNCHANGED <<held, cached, path, req>> /\ (inTurn' => inTurn)
  BY DEF Raise, Stays
<1>2. \A q \in Requests : Same(req[q], req'[q])
  BY <1>1 DEF Same
<1>3. LoadsHold' /\ RevokedIsGone'
  BY <1>1, <1>2, RolesKept
<1>4. (\A s \in Scopes : Ranked(path'[s].levels)) /\ GapsClosed'
  BY <1>1, <1>2, LevelsKept
<1>5. PathsDropped' /\ RaiserGranted'
  BY <1>1, <1>2, RaiserKept
<1>6. ASSUME inTurn'
      PROVE  \A i \in DOMAIN chain' : chain'[i] = i - 1
  <2>1. PICK s \in Scopes : chain' = BuildStepsForRaiser(path[Routed(s)].levels)
    BY DEF Raise
  <2>2. Routed(s) \in Scopes
    BY DEF Routed, Scopes
  <2>3. path[Routed(s)].levels \in SUBSET Level /\ Ranked(path[Routed(s)].levels)
    BY <2>2 DEF AccessInv, TypeOK, Path
  <2>4. \A r \in Requests : ~At(r, "reindex")
    BY <1>6 DEF Raise, Stays
  <2>5. Gapless(path[Routed(s)].levels)
    BY <1>1, <1>6, <2>2, <2>4 DEF AccessInv, GapsClosed
  <2> QED
    BY <2>1, <2>3, <2>5, StepsInOrder
<1> QED
  BY <1>1, <1>3, <1>4, <1>5, <1>6 DEF AccessInv, ChainContiguous

(* Whatever was half done when the process stopped is no longer in turn. *)
LEMMA RestartKeeps ==
  ASSUME AccessInv, TypeOK', Restart
  PROVE  AccessInv'
<1>1. /\ UNCHANGED <<held, path, chain>> /\ (inTurn' => inTurn)
      /\ \A r \in Requests : req'[r] = Idle
      /\ \A p \in People : cached'[p] = {}
  BY DEF Restart, Stays
<1>2. inTurn' => \A r \in Requests : ~At(r, "reindex") /\ ~Granting(r)
  BY DEF Restart, Stays, At, Granting
<1>3. \A r \in Requests : req'[r].step = "none"
  BY <1>1, IdleRequest
<1>4. LoadsHold' /\ RevokedIsGone'
  BY <1>1, <1>3 DEF LoadsHold, RevokedIsGone, At
<1>5. GapsClosed'
  BY <1>1, <1>2 DEF AccessInv, GapsClosed
<1>6. PathsDropped' /\ RaiserGranted'
  BY <1>1, <1>2, <1>3 DEF AccessInv, PathsDropped, RaiserGranted, At
<1>7. \A r \in Requests : Sense(req'[r])
  BY <1>1, IdleSense
<1> QED
  BY <1>1, <1>4, <1>5, <1>6, <1>7 DEF AccessInv, ChainContiguous

(* A load reads what is held. *)
LEMMA LoadKeeps ==
  ASSUME AccessInv, TypeOK', NEW r \in Requests, Load(r)
  PROVE  AccessInv'
<1>1. UNCHANGED <<held, cached, path, chain, inTurn>> /\ req[r].step = "none"
  BY DEF Load, At
<1>2. PICK p \in People :
        req' = [req EXCEPT ![r] = [Idle EXCEPT !.step = "load", !.who = p, !.saw = held[p]]]
  BY DEF Load
<1>3. /\ req'[r] = [Idle EXCEPT !.step = "load", !.who = p, !.saw = held[p]]
      /\ \A q \in Requests : q # r => Same(req[q], req'[q])
  BY <1>2, OneMoves DEF AccessInv
<1>4. req'[r].step = "load" /\ req'[r].who = p /\ req'[r].saw = held[p]
  BY <1>3 DEF Idle
<1>5. LoadsHold' /\ RevokedIsGone'
  BY <1>1, <1>3, <1>4, RolesKept DEF At
<1>6. (\A s \in Scopes : Ranked(path'[s].levels)) /\ GapsClosed'
  BY <1>1, <1>3, LevelsKept DEF At
<1>7. PathsDropped' /\ RaiserGranted'
  BY <1>1, <1>3, <1>4, RaiserKept DEF At, Granting
<1>8. Sense(req'[r])
  BY <1>4 DEF Sense
<1> QED
  BY <1>1, <1>3, <1>5, <1>6, <1>7, <1>8, SenseSame DEF AccessInv, ChainContiguous

(* What was read is remembered. *)
LEMMA CommitLoadKeeps ==
  ASSUME AccessInv, TypeOK', NEW r \in Requests, CommitLoad(r)
  PROVE  AccessInv'
<1>1. /\ UNCHANGED <<held, path, chain>> /\ req[r].step = "load"
      /\ inTurn' => inTurn /\ req[r].fresh
  BY DEF CommitLoad, At, Stays
<1>2. req'[r] = Idle /\ \A q \in Requests : q # r => Same(req[q], req'[q])
  BY OneMoves DEF CommitLoad, AccessInv
<1>3. ASSUME NEW p \in People, NEW roles \in cached'[p]
      PROVE  roles \in cached[p] \/ (inTurn' => roles \subseteq held[p] \cup Leaving(p))
  <2>1. CASE p # req[r].who
    BY <1>3, <2>1 DEF CommitLoad, AccessInv, TypeOK
  <2>2. CASE p = req[r].who
    <3>1. roles = req[r].saw
      BY <1>3, <2>2 DEF CommitLoad, AccessInv, TypeOK
    <3> QED
      BY <1>1, <2>2, <3>1 DEF AccessInv, LoadsHold, At
  <2> QED
    BY <2>1, <2>2
<1>4. LoadsHold' /\ RevokedIsGone'
  BY <1>1, <1>2, <1>3, IdleRequest, RolesKept DEF At
<1>5. (\A s \in Scopes : Ranked(path'[s].levels)) /\ GapsClosed'
  BY <1>1, <1>2, LevelsKept DEF At
<1>6. PathsDropped' /\ RaiserGranted'
  BY <1>1, <1>2, IdleRequest, RaiserKept DEF At, Granting
<1>7. \A q \in Requests : Sense(req'[q])
  BY <1>2, IdleSense, SenseSame DEF AccessInv
<1> QED
  BY <1>1, <1>4, <1>5, <1>6, <1>7 DEF AccessInv, ChainContiguous

(* Whoever is forgotten is not remembered by a load under way either. *)
LEMMA InvalidateKeeps ==
  ASSUME AccessInv, TypeOK', NEW r \in Requests, Invalidate(r)
  PROVE  AccessInv'
<1> DEFINE who == req[r].who
           after == IF req[r].todo = << >> THEN Idle ELSE [req[r] EXCEPT !.step = "grant"]
<1>1. /\ UNCHANGED <<held, path, chain, inTurn>> /\ req[r].step = "invalidate"
      /\ cached' = [cached EXCEPT ![who] = {}]
      /\ req' = [Overtaken(who) EXCEPT ![r] = after]
  BY DEF Invalidate, At, Forgotten
<1>2. req'[r] = after
  BY <1>1 DEF Overtaken
<1>3. ASSUME NEW q \in Requests, q # r
      PROVE  /\ Same(req[q], req'[q])
             /\ At(q, "load") /\ req[q].who = who => ~req'[q].fresh
  <2>1. req'[q] = IF At(q, "load") /\ req[q].who = who THEN [req[q] EXCEPT !.fresh = FALSE] ELSE req[q]
    BY <1>1, <1>3 DEF Overtaken
  <2>2. req[q] \in Request
    BY DEF AccessInv, TypeOK
  <2> QED
    BY <2>1, <2>2 DEF Same, Request
<1>4. \/ req'[r].step = "none"
      \/ req'[r].step = "grant" /\ req'[r].role = req[r].role /\ req'[r].role # "raiser"
  BY <1>1, <1>2, IdleRequest DEF AccessInv, TypeOK, Request, Sense
<1>5. Sense(req'[r])
  <2>1. CASE req[r].todo = << >>
    BY <1>2, <2>1, IdleSense
  <2>2. CASE req[r].todo # << >>
    BY <1>1, <1>2, <2>2 DEF AccessInv, TypeOK, Request, Sense
  <2> QED
    BY <2>1, <2>2
<1>6. ASSUME NEW p \in People, p # who
      PROVE  Leaving(p) \subseteq Leaving(p)'
  BY <1>3, <1>6 DEF Leaving, At, Same
<1>7. LoadsHold'
  <2> SUFFICES ASSUME NEW q \in Requests, NEW p \in People,
                      req'[q].step = "load", req'[q].who = p, req'[q].fresh
               PROVE  req'[q].saw \subseteq held'[p] \cup Leaving(p)'
    BY DEF LoadsHold, At
  <2>1. q # r /\ Same(req[q], req'[q])
    BY <1>3, <1>4
  <2>2. p # who
    BY <1>3, <2>1 DEF At, Same
  <2>3. req[q].saw \subseteq held[p] \cup Leaving(p) /\ req'[q].saw = req[q].saw
    BY <2>1 DEF AccessInv, LoadsHold, At, Same
  <2> QED
    BY <1>1, <1>6, <2>2, <2>3
<1>8. RevokedIsGone'
  <2> SUFFICES ASSUME inTurn', NEW p \in People, NEW roles \in cached'[p]
               PROVE  roles \subseteq held'[p] \cup Leaving(p)'
    BY DEF RevokedIsGone
  <2>1. p # who /\ roles \in cached[p]
    BY <1>1 DEF AccessInv, TypeOK
  <2>2. roles \subseteq held[p] \cup Leaving(p)
    BY <1>1, <2>1 DEF AccessInv, RevokedIsGone
  <2> QED
    BY <1>1, <1>6, <2>1, <2>2
<1>9. (\A s \in Scopes : Ranked(path'[s].levels)) /\ GapsClosed'
  BY <1>1, <1>3, LevelsKept DEF At
<1>10. PathsDropped' /\ RaiserGranted'
  BY <1>1, <1>3, <1>4, RaiserKept DEF At, Granting
<1> QED
  BY <1>1, <1>3, <1>5, <1>7, <1>8, <1>9, <1>10, SenseSame DEF AccessInv, ChainContiguous

(* A request that is only asked for is made sense of; nothing was in its hands. *)
LEMMA AskKeeps ==
  ASSUME AccessInv, TypeOK', NEW r \in Requests, NEW v \in Request, Ask(r, v), Sense(v),
         v.step # "load", v.step = "dropRow" => v.role # "raiser",
         UNCHANGED <<cached, path, chain, inTurn>>,
         \A p \in People : held[p] \subseteq held'[p]
  PROVE  AccessInv'
<1>1. req[r].step = "none" /\ req' = [req EXCEPT ![r] = v]
  BY AskedFor DEF AccessInv
<1>2. req'[r] = v /\ \A q \in Requests : q # r => Same(req[q], req'[q])
  BY <1>1, OneMoves DEF AccessInv
<1>3. LoadsHold' /\ RevokedIsGone'
  BY <1>1, <1>2, RolesKept DEF At
<1>4. (\A s \in Scopes : Ranked(path'[s].levels)) /\ GapsClosed'
  BY <1>1, <1>2, LevelsKept DEF At
<1>5. PathsDropped' /\ RaiserGranted'
  <2>1. "raiser" \in held[Raiser] => "raiser" \in held'[Raiser]
    BY DEF People
  <2> QED
    BY <1>1, <1>2, <2>1, RaiserKept DEF At, Granting
<1> QED
  BY <1>2, <1>3, <1>4, <1>5, SenseSame DEF AccessInv, ChainContiguous

LEMMA CreateAssignmentKeeps ==
  ASSUME AccessInv, TypeOK', NEW r \in Requests, CreateAssignment(r)
  PROVE  AccessInv'
<1>1. PICK p \in People, role \in Roles :
        /\ held' = [held EXCEPT ![p] = @ \cup {role}]
        /\ Ask(r, [Idle EXCEPT !.step = "invalidate", !.who = p, !.role = role])
  BY DEF CreateAssignment
<1> DEFINE v == [Idle EXCEPT !.step = "invalidate", !.who = p, !.role = role]
<1>2. v \in Request
  BY IdleRequest, RequestsKept DEF Steps
<1>3. Sense(v) /\ v.step = "invalidate"
  BY DEF Idle, Sense
<1>4. \A q \in People : held[q] \subseteq held'[q]
  BY <1>1 DEF AccessInv, TypeOK
<1>5. Ask(r, v) /\ UNCHANGED <<cached, path, chain, inTurn>>
  BY <1>1 DEF CreateAssignment
<1> HIDE DEF v
<1> QED
  BY <1>2, <1>3, <1>4, <1>5, AskKeeps

LEMMA DeleteAssignmentKeeps ==
  ASSUME AccessInv, TypeOK', NEW r \in Requests, DeleteAssignment(r)
  PROVE  AccessInv'
<1>1. PICK p \in People, role \in Roles, step \in Steps :
        /\ Ask(r, [Idle EXCEPT !.who = p, !.role = role, !.step = step])
        /\ \/ step = "dropPaths"
           \/ step = "dropLevels" /\ role = "approver"
           \/ step = "dropRow" /\ role # "raiser"
  <2>1. PICK p \in People, role \in Roles :
          Ask(r, [Idle EXCEPT !.who = p, !.role = role,
                              !.step = CASE role = "raiser" -> "dropPaths"
                                         [] role = "approver" -> "dropLevels"
                                         [] OTHER -> "dropRow"])
    BY DEF DeleteAssignment
  <2>2. CASE role = "raiser"
    BY <2>1, <2>2 DEF Steps
  <2>3. CASE role = "approver"
    BY <2>1, <2>3 DEF Steps
  <2>4. CASE role = "other"
    BY <2>1, <2>4 DEF Steps
  <2> QED
    BY <2>2, <2>3, <2>4 DEF Roles
<1> DEFINE v == [Idle EXCEPT !.who = p, !.role = role, !.step = step]
<1>2. v \in Request
  BY IdleRequest, RequestsKept
<1>3. Sense(v) /\ v.step # "load" /\ (v.step = "dropRow" => v.role # "raiser")
  BY <1>1 DEF Idle, Sense
<1>4. Ask(r, v) /\ UNCHANGED <<held, cached, path, chain, inTurn>>
  BY <1>1 DEF DeleteAssignment
<1> HIDE DEF v
<1> QED
  BY <1>2, <1>3, <1>4, AskKeeps

LEMMA AddRaiserKeeps ==
  ASSUME AccessInv, TypeOK', NEW r \in Requests, AddRaiser(r)
  PROVE  AccessInv'
<1>1. PICK s \in Scopes :
        Ask(r, [Idle EXCEPT !.step = "path", !.scopes = {s}, !.todo = <<Raiser>>])
  BY DEF AddRaiser
<1> DEFINE v == [Idle EXCEPT !.step = "path", !.scopes = {s}, !.todo = <<Raiser>>]
<1>2. v \in Request
  <2>1. "path" \in Steps /\ {s} \in SUBSET Scopes /\ <<Raiser>> \in Seq(People)
    BY DEF Steps, People
  <2> QED
    BY <2>1, IdleRequest, RequestsKept
<1>3. Sense(v) /\ v.step = "path"
  BY DEF Idle, Sense
<1>4. Ask(r, v) /\ UNCHANGED <<held, cached, path, chain, inTurn>>
  BY <1>1 DEF AddRaiser
<1> HIDE DEF v
<1> QED
  BY <1>2, <1>3, <1>4, AskKeeps

LEMMA ReplaceKeeps ==
  ASSUME AccessInv, TypeOK', NEW r \in Requests, Replace(r)
  PROVE  AccessInv'
<1>1. PICK s \in Scopes, list \in Lists :
        Ask(r, [Idle EXCEPT !.step = "levels", !.scopes = {s}, !.role = "approver", !.todo = list])
  BY DEF Replace
<1> DEFINE v == [Idle EXCEPT !.step = "levels", !.scopes = {s}, !.role = "approver", !.todo = list]
<1>2. v \in Request
  <2>1. /\ "levels" \in Steps /\ {s} \in SUBSET Scopes /\ "approver" \in Roles
        /\ list \in Seq(People)
    BY ListNumbered DEF Steps, Roles
  <2> QED
    BY <2>1, IdleRequest, RequestsKept
<1>3. Sense(v) /\ v.step = "levels"
  BY DEF Idle, Sense
<1>4. Ask(r, v) /\ UNCHANGED <<held, cached, path, chain, inTurn>>
  BY <1>1 DEF Replace
<1> HIDE DEF v
<1> QED
  BY <1>2, <1>3, <1>4, AskKeeps

LEMMA DropPathsKeeps ==
  ASSUME AccessInv, TypeOK', NEW r \in Requests, DropPaths(r)
  PROVE  AccessInv'
<1>1. /\ UNCHANGED <<held, cached, chain, inTurn>> /\ req[r].step = "dropPaths"
      /\ req' = [req EXCEPT ![r] = [req[r] EXCEPT !.step = "dropRow"]]
  BY DEF DropPaths, GoOn, At
<1>2. \A s \in Scopes : path'[s] = IF req[r].who = Raiser THEN NoPath ELSE path[s]
  BY DEF DropPaths, Unrouted
<1>3. /\ req'[r] = [req[r] EXCEPT !.step = "dropRow"]
      /\ \A q \in Requests : q # r => Same(req[q], req'[q])
  BY <1>1, OneMoves DEF AccessInv
<1>4. /\ req'[r].step = "dropRow" /\ req'[r].who = req[r].who
      /\ req'[r].role = req[r].role /\ req'[r].todo = req[r].todo
  BY <1>3 DEF AccessInv, TypeOK, Request
<1>5. LoadsHold' /\ RevokedIsGone'
  BY <1>1, <1>3, <1>4, RolesKept DEF At
<1>6. (\A s \in Scopes : Ranked(path'[s].levels)) /\ GapsClosed'
  BY <1>1, <1>2, <1>3, LevelsKept DEF At, NoPath
<1>7. PathsDropped' /\ RaiserGranted'
  BY <1>1, <1>2, <1>3, <1>4, RaiserKept DEF At, Granting, NoPath
<1>8. Sense(req'[r])
  BY <1>1, <1>4 DEF AccessInv, Sense
<1> QED
  BY <1>1, <1>3, <1>5, <1>6, <1>7, <1>8, SenseSame DEF AccessInv, ChainContiguous

(* Every path that loses a level is to be renumbered. *)
LEMMA DropLevelsKeeps ==
  ASSUME AccessInv, TypeOK', NEW r \in Requests, DropLevels(r)
  PROVE  AccessInv'
<1> DEFINE hit == {s \in Scopes : Names(path[s].levels, req[r].who)}
           to == IF hit = {} THEN "dropRow" ELSE "reindex"
           left(s) == {l \in path[s].levels : l.who # req[r].who}
<1>1. /\ UNCHANGED <<held, cached, chain, inTurn>> /\ req[r].step = "dropLevels"
      /\ path' = [s \in Scopes |-> [path[s] EXCEPT !.levels = {l \in @ : l.who # req[r].who}]]
      /\ req' = [req EXCEPT ![r].scopes = hit, ![r].step = to]
  BY DEF DropLevels, At
<1>2. \A s \in Scopes : path'[s].on = path[s].on /\ path'[s].levels = left(s)
  BY <1>1 DEF AccessInv, TypeOK, Path
<1>3. req[r].role = "approver" /\ req[r].todo = << >>
  BY <1>1 DEF AccessInv, Sense
<1>4. /\ req'[r].step = to /\ req'[r].scopes = hit
      /\ req'[r].role = "approver" /\ req'[r].todo = << >>
  <2> HIDE DEF hit, to
  <2> QED
    BY <1>1, <1>3 DEF AccessInv, TypeOK, Request
<1>5. \A q \in Requests : q # r => Same(req[q], req'[q])
  BY <1>1 DEF AccessInv, TypeOK, Same
<1>6. to \in {"dropRow", "reindex"} /\ (hit # {} => to = "reindex")
  OBVIOUS
<1>7. \A s \in Scopes \ hit : path'[s].levels = path[s].levels
  BY <1>2 DEF Names
<1>8. ASSUME NEW s \in Scopes
      PROVE  Ranked(path'[s].levels)
  <2>1. left(s) \in SUBSET path[s].levels /\ Ranked(path[s].levels)
    BY DEF AccessInv
  <2>2. IsFiniteSet(left(s))
    BY <2>1, FS_Subset DEF Ranked
  <2> QED
    BY <1>2, <2>1, <2>2 DEF Ranked
<1> HIDE DEF hit, to, left
<1>9. LoadsHold' /\ RevokedIsGone'
  BY <1>1, <1>4, <1>5, <1>6, RolesKept DEF At
<1>10. GapsClosed'
  <2>1. \A s \in Scopes : \/ path'[s].levels = path[s].levels
                          \/ At(r, "reindex")' /\ s \in req'[r].scopes
    BY <1>4, <1>6, <1>7 DEF At
  <2> QED
    BY <1>1, <1>5, <2>1, GapsKept DEF At
<1>11. PathsDropped' /\ RaiserGranted'
  BY <1>1, <1>2, <1>4, <1>5, <1>6, RaiserKept DEF At, Granting
<1>12. Sense(req'[r])
  BY <1>4, <1>6 DEF Sense
<1> QED
  BY <1>1, <1>5, <1>8, <1>9, <1>10, <1>11, <1>12, SenseSame DEF AccessInv, ChainContiguous

(* The path that is renumbered has no gap left; the others are still to do. *)
LEMMA ReindexKeeps ==
  ASSUME AccessInv, TypeOK', NEW r \in Requests, Reindex(r)
  PROVE  AccessInv'
<1>1. PICK s \in Scopes :
        /\ s \in req[r].scopes
        /\ path' = [path EXCEPT ![s].levels = Renumbered(@)]
        /\ req' = [req EXCEPT ![r].scopes = @ \ {s},
                              ![r].step = IF req[r].scopes = {s} THEN "dropRow" ELSE "reindex"]
  BY DEF Reindex, AccessInv, TypeOK, Request
<1> DEFINE to == IF req[r].scopes = {s} THEN "dropRow" ELSE "reindex"
<1>2. UNCHANGED <<held, cached, chain, inTurn>> /\ req[r].step = "reindex"
  BY DEF Reindex, At
<1>3. \A t \in Scopes :
        /\ path'[t].on = path[t].on
        /\ path'[t].levels = IF t = s THEN Renumbered(path[s].levels) ELSE path[t].levels
  BY <1>1 DEF AccessInv, TypeOK, Path
<1>4. req[r].role = "approver" /\ req[r].todo = << >>
  BY <1>2 DEF AccessInv, Sense
<1>5. /\ req'[r].step = to /\ req'[r].scopes = req[r].scopes \ {s}
      /\ req'[r].role = "approver" /\ req'[r].todo = << >>
  <2>1. req' = [req EXCEPT ![r] = [req[r] EXCEPT !.scopes = req[r].scopes \ {s}, !.step = to]]
    BY <1>1 DEF AccessInv, TypeOK, Request
  <2> HIDE DEF to
  <2> QED
    BY <1>4, <2>1 DEF AccessInv, TypeOK, Request
<1>6. \A q \in Requests : q # r => Same(req[q], req'[q])
  BY <1>1 DEF AccessInv, TypeOK, Same
<1>7. to \in {"dropRow", "reindex"} /\ (req[r].scopes # {s} => to = "reindex")
  OBVIOUS
<1>8. Ranked(path'[s].levels) /\ Gapless(path'[s].levels)
  <2>1. path[s].levels \in SUBSET Level /\ Ranked(path[s].levels)
    BY DEF AccessInv, TypeOK, Path
  <2> QED
    BY <1>3, <2>1, RenumberedGapless
<1> HIDE DEF to
<1>9. \A t \in Scopes : Ranked(path'[t].levels)
  BY <1>3, <1>8 DEF AccessInv
<1>10. LoadsHold' /\ RevokedIsGone'
  BY <1>2, <1>5, <1>6, <1>7, RolesKept DEF At
<1>11. GapsClosed'
  <2>1. ASSUME NEW t \in Scopes, t \in req[r].scopes
        PROVE  Gapless(path'[t].levels) \/ (At(r, "reindex")' /\ t \in req'[r].scopes)
    BY <1>5, <1>7, <1>8, <2>1 DEF At
  <2>2. \A t \in Scopes : path'[t].levels = path[t].levels \/ Gapless(path'[t].levels)
    BY <1>3, <1>8
  <2> QED
    BY <1>2, <1>6, <2>1, <2>2, GapsKept
<1>12. PathsDropped' /\ RaiserGranted'
  BY <1>2, <1>3, <1>5, <1>6, <1>7, RaiserKept DEF At, Granting
<1>13. Sense(req'[r])
  BY <1>5, <1>7 DEF Sense
<1> QED
  BY <1>2, <1>6, <1>9, <1>10, <1>11, <1>12, <1>13, SenseSame DEF AccessInv, ChainContiguous

(* A row that goes is on its way out of the cache; no path is left behind it. *)
LEMMA DropRowKeeps ==
  ASSUME AccessInv, TypeOK', NEW r \in Requests, DropRow(r)
  PROVE  AccessInv'
<1> DEFINE p == req[r].who
           role == req[r].role
<1>1. UNCHANGED <<cached, path, chain>> /\ req[r].step = "dropRow" /\ (inTurn' => inTurn)
  BY DEF DropRow, At, Stays
<1>2. p \in People /\ role \in Roles /\ req[r].todo = << >>
  BY <1>1 DEF AccessInv, TypeOK, Request, Sense
<1>3. \/ /\ role \in held[p] /\ held' = [held EXCEPT ![p] = @ \ {role}]
         /\ req' = [req EXCEPT ![r] = [req[r] EXCEPT !.step = "invalidate"]]
         /\ inTurn' => req[r].fresh
      \/ held' = held /\ req' = [req EXCEPT ![r] = Idle]
  BY DEF DropRow, GoOn, Stays
<1>4. \A q \in Requests : q # r => Same(req[q], req'[q])
  BY <1>3, OneMoves DEF AccessInv
<1>5. \/ req'[r] = Idle
      \/ /\ req'[r].step = "invalidate" /\ req'[r].who = p /\ req'[r].role = role
         /\ req'[r].todo = << >>
  BY <1>2, <1>3 DEF AccessInv, TypeOK, Request
<1>6. ASSUME NEW x \in People
      PROVE  held[x] \cup Leaving(x) \subseteq held'[x] \cup Leaving(x)'
  <2>1. Leaving(x) \subseteq Leaving(x)'
    BY <1>1, <1>4 DEF Leaving, At, Same
  <2>2. CASE held' = held
    BY <2>1, <2>2
  <2>3. CASE held' = [held EXCEPT ![p] = @ \ {role}] /\ req' = [req EXCEPT ![r] = [req[r] EXCEPT !.step = "invalidate"]]
    <3>1. req'[r].step = "invalidate" /\ req'[r].who = p /\ req'[r].role = role
      BY <2>3 DEF AccessInv, TypeOK, Request
    <3>2. role \in Leaving(p)'
      BY <1>2, <3>1 DEF Leaving, At
    <3>3. CASE x = p
      BY <2>1, <2>3, <3>2, <3>3 DEF AccessInv, TypeOK
    <3>4. CASE x # p
      BY <2>1, <2>3, <3>4 DEF AccessInv, TypeOK
    <3> QED
      BY <3>3, <3>4
  <2> QED
    BY <1>3, <2>2, <2>3
<1>7. LoadsHold' /\ RevokedIsGone'
  BY <1>1, <1>4, <1>5, <1>6, IdleRequest, RolesCovered DEF At
<1>8. (\A s \in Scopes : Ranked(path'[s].levels)) /\ GapsClosed'
  BY <1>1, <1>4, LevelsKept DEF At
<1>9. "raiser" \in held[Raiser] =>
        "raiser" \in held'[Raiser] \/ (inTurn' => \A s \in Scopes : ~path'[s].on)
  <2> SUFFICES ASSUME "raiser" \in held[Raiser], "raiser" \notin held'[Raiser], inTurn'
               PROVE  \A s \in Scopes : ~path[s].on
    BY <1>1
  <2>1. held' = [held EXCEPT ![p] = @ \ {role}] /\ req[r].fresh
    BY <1>3
  <2>2. Raiser \in People
    BY DEF People
  <2>3. p = Raiser /\ role = "raiser"
    BY <1>2, <2>1, <2>2 DEF AccessInv, TypeOK
  <2> QED
    BY <1>1, <2>1, <2>3 DEF AccessInv, PathsDropped, At
<1>10. PathsDropped' /\ RaiserGranted'
  BY <1>1, <1>4, <1>5, <1>9, IdleRequest, RaiserKept DEF At, Granting
<1>11. Sense(req'[r])
  BY <1>5, IdleSense DEF Sense
<1> QED
  BY <1>1, <1>4, <1>7, <1>8, <1>10, <1>11, SenseSame DEF AccessInv, ChainContiguous

(* Whoever is just losing the role that the path needs is no longer in turn. *)
LEMMA CommitPathKeeps ==
  ASSUME AccessInv, TypeOK', NEW r \in Requests, CommitPath(r)
  PROVE  AccessInv'
<1> DEFINE s == CHOOSE s \in req[r].scopes : TRUE
<1>1. /\ UNCHANGED <<held, cached, chain, inTurn>> /\ req[r].step = "path"
      /\ \/ UNCHANGED path /\ req' = [req EXCEPT ![r] = Idle]
         \/ /\ path' = [path EXCEPT ![s].on = TRUE]
            /\ req' = [BackAgain("raiser", {Raiser}) EXCEPT ![r].step = "grant"]
  BY DEF CommitPath, At
<1>2. req[r] \in Request /\ req[r].role = "raiser" /\ req[r].todo = <<Raiser>>
  BY <1>1 DEF AccessInv, TypeOK, Sense
<1> HIDE DEF s
<1>3. \A t \in Scopes : path'[t].levels = path[t].levels
  BY <1>1 DEF AccessInv, TypeOK, Path
<1>4. CASE UNCHANGED path /\ req' = [req EXCEPT ![r] = Idle]
  <2>1. req'[r] = Idle /\ \A q \in Requests : q # r => Same(req[q], req'[q])
    BY <1>4, OneMoves DEF AccessInv
  <2>2. LoadsHold' /\ RevokedIsGone'
    BY <1>1, <2>1, IdleRequest, RolesKept DEF At
  <2>3. (\A t \in Scopes : Ranked(path'[t].levels)) /\ GapsClosed'
    BY <1>1, <1>4, <2>1, LevelsKept DEF At
  <2>4. PathsDropped' /\ RaiserGranted'
    BY <1>1, <1>4, <2>1, IdleRequest, RaiserKept DEF At, Granting
  <2> QED
    BY <1>1, <2>1, <2>2, <2>3, <2>4, IdleSense, SenseSame DEF AccessInv, ChainContiguous
<1>5. CASE req' = [BackAgain("raiser", {Raiser}) EXCEPT ![r].step = "grant"]
  <2>1. req'[r] = [req[r] EXCEPT !.step = "grant"]
    BY <1>1, <1>5 DEF BackAgain
  <2>2. req'[r].step = "grant" /\ req'[r].role = "raiser" /\ req'[r].todo = <<Raiser>>
    BY <1>2, <2>1 DEF Request
  <2>3. ASSUME NEW q \in Requests, q # r
        PROVE  /\ Same(req[q], req'[q])
               /\ At(q, "dropRow") /\ req[q].role = "raiser" /\ req[q].who = Raiser => ~req'[q].fresh
    <3>1. req'[q] = IF req[q].step \in {"reindex", "dropRow"} /\ req[q].role = "raiser" /\ req[q].who \in {Raiser}
                      THEN [req[q] EXCEPT !.fresh = FALSE] ELSE req[q]
      BY <1>5, <2>3 DEF BackAgain
    <3>2. req[q] \in Request
      BY DEF AccessInv, TypeOK
    <3> QED
      BY <3>1, <3>2 DEF Same, Request, At
  <2>4. LoadsHold' /\ RevokedIsGone'
    BY <1>1, <2>2, <2>3, RolesKept DEF At
  <2>5. (\A t \in Scopes : Ranked(path'[t].levels)) /\ GapsClosed'
    BY <1>1, <1>3, <2>3, LevelsKept DEF At
  <2>6. PathsDropped'
    BY <2>2, <2>3 DEF PathsDropped, At, Same
  <2>7. RaiserGranted'
    BY <2>2 DEF RaiserGranted, Granting
  <2>8. Sense(req'[r])
    BY <2>2 DEF Sense
  <2> QED
    BY <1>1, <2>3, <2>4, <2>5, <2>6, <2>7, <2>8, SenseSame DEF AccessInv, ChainContiguous
<1> QED
  BY <1>1, <1>4, <1>5

LEMMA CommitLevelsKeeps ==
  ASSUME AccessInv, TypeOK', NEW r \in Requests, CommitLevels(r)
  PROVE  AccessInv'
<1> DEFINE s == CHOOSE s \in req[r].scopes : TRUE
           who == {req[r].todo[i] : i \in DOMAIN req[r].todo}
           after == IF req[r].todo = << >> THEN Idle ELSE [req[r] EXCEPT !.step = "grant"]
<1>1. /\ UNCHANGED <<held, cached, chain, inTurn>> /\ req[r].step = "levels"
      /\ \/ UNCHANGED path /\ req' = [req EXCEPT ![r] = Idle]
         \/ /\ path' = [path EXCEPT ![s].levels = Numbered(req[r].todo)]
            /\ req' = [BackAgain("approver", who) EXCEPT ![r] = after]
  BY DEF CommitLevels, At
<1>2. req[r] \in Request /\ req[r].role = "approver" /\ req[r].todo \in Lists
  BY <1>1 DEF AccessInv, TypeOK, Sense
<1>3. ASSUME NEW t \in Scopes
      PROVE  /\ path'[t].on = path[t].on
             /\ path'[t].levels = path[t].levels \/ path'[t].levels = Numbered(req[r].todo)
  <2> DEFINE levels == Numbered(req[r].todo)
  <2>1. path' = path \/ path' = [path EXCEPT ![s].levels = levels]
    BY <1>1
  <2>2. path[t] \in Path /\ DOMAIN path = Scopes
    BY DEF AccessInv, TypeOK
  <2> HIDE DEF s, levels
  <2>3. CASE t = s
    BY <2>1, <2>2, <2>3 DEF Path, levels
  <2>4. CASE t # s
    BY <2>1, <2>2, <2>4
  <2> QED
    BY <2>3, <2>4
<1>4. req'[r] \in {Idle, after}
  BY <1>1 DEF AccessInv, TypeOK, BackAgain
<1>5. ASSUME NEW q \in Requests, q # r
      PROVE  Same(req[q], req'[q])
  <2>1. req[q] \in Request
    BY DEF AccessInv, TypeOK
  <2>2. req'[q] = req[q] \/ req'[q] = [req[q] EXCEPT !.fresh = FALSE]
    <3> HIDE DEF who, after
    <3>1. req'[q] \in {req[q], BackAgain("approver", who)[q]}
      BY <1>1, <1>5 DEF AccessInv, TypeOK, BackAgain
    <3> QED
      BY <3>1 DEF BackAgain
  <2> QED
    BY <2>1, <2>2 DEF Same, Request
<1>6. \/ req'[r] = Idle
      \/ req'[r].step = "grant" /\ req'[r].role = "approver" /\ req'[r].todo # << >>
  BY <1>2, <1>4 DEF Request
<1>7. LoadsHold' /\ RevokedIsGone'
  BY <1>1, <1>5, <1>6, IdleRequest, RolesKept DEF At
<1>8. (\A t \in Scopes : Ranked(path'[t].levels)) /\ GapsClosed'
  BY <1>1, <1>2, <1>3, <1>5, ListNumbered, LevelsKept DEF At
<1>9. PathsDropped' /\ RaiserGranted'
  BY <1>1, <1>3, <1>5, <1>6, IdleRequest, RaiserKept DEF At, Granting
<1>10. Sense(req'[r])
  BY <1>6, IdleSense DEF Sense
<1> QED
  BY <1>1, <1>5, <1>7, <1>8, <1>9, <1>10, SenseSame DEF AccessInv, ChainContiguous

(* What the check remembers of the person was true or being taken away, and whoever
   is granted nothing holds the role. *)
LEMMA GrantKeeps ==
  ASSUME AccessInv, TypeOK', NEW r \in Requests, Grant(r)
  PROVE  AccessInv'
<1> DEFINE p == Head(req[r].todo)
           rest == Tail(req[r].todo)
<1>1. /\ UNCHANGED <<held, path, chain, inTurn>> /\ req[r].step = "grant"
      /\ cached' = cached \/ cached' = [cached EXCEPT ![p] = {Permissions(p)}]
  BY DEF Grant, At
<1>2. req[r] \in Request /\ req[r].todo \in Seq(People) /\ req[r].todo # << >>
  BY <1>1 DEF AccessInv, TypeOK, Sense, Request
<1>3. p \in People /\ rest \in Seq(People)
  BY <1>2
<1>4. req[r].role = "raiser" => p = Raiser /\ rest = << >>
  <2>1. req[r].role = "raiser" => req[r].todo = <<Raiser>>
    BY <1>1 DEF AccessInv, Sense
  <2>2. Head(<<Raiser>>) = Raiser /\ Tail(<<Raiser>>) = << >>
    OBVIOUS
  <2> QED
    BY <2>1, <2>2
<1>5. \/ ~Provided(p, req[r].role) /\ req' = [req EXCEPT ![r] = [req[r] EXCEPT !.step = "grantRow"]]
      \/ /\ Provided(p, req[r].role) /\ rest # << >>
         /\ req' = [req EXCEPT ![r] = [req[r] EXCEPT !.todo = rest]]
      \/ Provided(p, req[r].role) /\ req' = [req EXCEPT ![r] = Idle]
  BY DEF Grant
<1>6. \A q \in Requests : q # r => Same(req[q], req'[q])
  BY <1>5, OneMoves DEF AccessInv
<1> HIDE DEF p, rest
<1>7. \/ /\ req'[r].step = "grantRow" /\ req'[r].role = req[r].role /\ req'[r].todo = req[r].todo
      \/ /\ req'[r].step = "grant" /\ req'[r].role = req[r].role /\ req'[r].todo = rest
         /\ rest # << >> /\ Provided(p, req[r].role)
      \/ req'[r] = Idle /\ Provided(p, req[r].role)
  BY <1>1, <1>2, <1>5 DEF AccessInv, TypeOK, Request
<1>8. ASSUME NEW x \in People, NEW roles \in cached'[x]
      PROVE  roles \in cached[x] \/ (inTurn' => roles \subseteq held[x] \cup Leaving(x))
  <2>1. CASE roles \notin cached[x]
    <3>1. x = p /\ roles = Permissions(p)
      BY <1>1, <1>3, <1>8, <2>1 DEF AccessInv, TypeOK
    <3>2. CASE cached[p] = {}
      BY <1>3, <3>1, <3>2, PermissionsKnown DEF AccessInv
    <3>3. ASSUME NEW y \in cached[p]
          PROVE  FALSE
      BY <1>3, <2>1, <3>1, <3>3, PermissionsKnown DEF AccessInv
    <3> QED
      BY <3>2, <3>3
  <2> QED
    BY <2>1
<1>9. LoadsHold' /\ RevokedIsGone'
  BY <1>1, <1>6, <1>7, <1>8, IdleRequest, RolesKept DEF At
<1>10. (\A s \in Scopes : Ranked(path'[s].levels)) /\ GapsClosed'
  BY <1>1, <1>6, LevelsKept DEF At
<1>11. Granting(r) => "raiser" \in held'[Raiser] \/ Granting(r)'
  BY <1>1, <1>4, <1>7 DEF Granting, Provided
<1>12. PathsDropped' /\ RaiserGranted'
  BY <1>1, <1>6, <1>7, <1>11, IdleRequest, RaiserKept DEF At
<1>13. Sense(req'[r])
  <2>1. Sense(req[r])
    BY DEF AccessInv
  <2> QED
    BY <1>1, <1>2, <1>4, <1>7, <2>1, IdleSense DEF Sense
<1> QED
  BY <1>1, <1>6, <1>9, <1>10, <1>12, <1>13, SenseSame DEF AccessInv, ChainContiguous

(* The role is held from here on, or the request has failed. *)
LEMMA GrantRowKeeps ==
  ASSUME AccessInv, TypeOK', NEW r \in Requests, GrantRow(r)
  PROVE  AccessInv'
<1> DEFINE p == Head(req[r].todo)
           rest == Tail(req[r].todo)
           after == [req[r] EXCEPT !.step = "invalidate", !.who = p, !.todo = rest]
<1>1. /\ UNCHANGED <<cached, path, chain>> /\ req[r].step = "grantRow" /\ (inTurn' => inTurn)
  BY DEF GrantRow, At, Stays
<1>2. req[r] \in Request /\ req[r].todo \in Seq(People) /\ req[r].todo # << >>
  BY <1>1 DEF AccessInv, TypeOK, Sense, Request
<1>3. p \in People
  BY <1>2
<1>4. req[r].role = "raiser" => p = Raiser /\ rest = << >>
  <2>1. req[r].role = "raiser" => req[r].todo = <<Raiser>>
    BY <1>1 DEF AccessInv, Sense
  <2>2. Head(<<Raiser>>) = Raiser /\ Tail(<<Raiser>>) = << >>
    OBVIOUS
  <2> QED
    BY <2>1, <2>2
<1>5. \/ held' = held /\ req' = [req EXCEPT ![r] = Idle] /\ ~inTurn'
      \/ /\ held' = [held EXCEPT ![p] = @ \cup {req[r].role}]
         /\ req' = [req EXCEPT ![r] = after]
  BY <1>2 DEF GrantRow, Stays, Request
<1>6. \A q \in Requests : q # r => Same(req[q], req'[q])
  <2> HIDE DEF after
  <2> QED
    BY <1>5, OneMoves DEF AccessInv
<1> HIDE DEF p, rest
<1>7. after.step = "invalidate" /\ after.role = req[r].role /\ after.todo = rest
  BY <1>2 DEF Request
<1> HIDE DEF after
<1>8. \/ req'[r] = Idle
      \/ req'[r].step = "invalidate" /\ req'[r].role = req[r].role /\ req'[r].todo = rest
  BY <1>5, <1>7 DEF AccessInv, TypeOK
<1>9. /\ \A x \in People : held[x] \subseteq held'[x]
      /\ inTurn' => req[r].role \in held'[p]
  BY <1>3, <1>5 DEF AccessInv, TypeOK
<1>10. LoadsHold' /\ RevokedIsGone'
  BY <1>1, <1>6, <1>8, <1>9, IdleRequest, RolesKept DEF At
<1>11. (\A s \in Scopes : Ranked(path'[s].levels)) /\ GapsClosed'
  BY <1>1, <1>6, LevelsKept DEF At
<1>12. Granting(r) /\ inTurn' => "raiser" \in held'[Raiser]
  BY <1>4, <1>9 DEF Granting
<1>13. PathsDropped' /\ RaiserGranted'
  <2>1. "raiser" \in held[Raiser] => "raiser" \in held'[Raiser]
    BY <1>9 DEF People
  <2> QED
    BY <1>1, <1>6, <1>8, <1>12, <2>1, IdleRequest, RaiserKept DEF At
<1>14. Sense(req'[r])
  BY <1>4, <1>8, IdleSense DEF Sense
<1> QED
  BY <1>1, <1>6, <1>10, <1>11, <1>13, <1>14, SenseSame DEF AccessInv, ChainContiguous

-----------------------------------------------------------------------------
(* Theorems *)

LEMMA AccessInit == Init => AccessInv
<1> SUFFICES ASSUME Init
             PROVE  AccessInv
  OBVIOUS
<1>1. PICK list \in Lists :
        /\ path = [s \in Scopes |-> IF s = "any" THEN [on |-> TRUE, levels |-> Numbered(list)] ELSE NoPath]
        /\ held = [p \in People |-> IF p = Raiser THEN {"raiser"}
                                     ELSE IF \E i \in DOMAIN list : list[i] = p THEN {"approver"} ELSE {}]
  BY DEF Init
<1>2. /\ cached = [p \in People |-> {}] /\ chain = << >>
      /\ req = [r \in Requests |-> Idle] /\ edits = 0 /\ inTurn = TRUE
  BY DEF Init
<1>3. \A r \in Requests : req[r] = Idle /\ req[r].step = "none"
  BY <1>2, IdleRequest
<1>4. \A s \in Scopes : path[s].levels = Numbered(list) \/ path[s].levels = {}
  BY <1>1 DEF NoPath
<1>5. "raiser" \in held[Raiser]
  BY <1>1 DEF People
<1>6. TypeOK
  <2>1. held \in [People -> SUBSET Roles]
    BY <1>1 DEF Roles
  <2>2. path \in [Scopes -> Path]
    BY <1>1, ListNumbered DEF Path, NoPath
  <2>3. cached \in [People -> Optional(SUBSET Roles)] /\ chain \in Seq(Nat) /\ req \in [Requests -> Request]
    BY <1>2, IdleRequest DEF Optional
  <2> QED
    BY <1>2, <2>1, <2>2, <2>3 DEF TypeOK
<1>7. LoadsHold /\ RevokedIsGone /\ PathsDropped /\ RaiserGranted /\ ChainContiguous
  BY <1>2, <1>3, <1>5 DEF LoadsHold, RevokedIsGone, PathsDropped, RaiserGranted, ChainContiguous, At
<1>8. (\A s \in Scopes : Ranked(path[s].levels)) /\ GapsClosed
  BY <1>4, ListNumbered, NoLevels DEF GapsClosed
<1> QED
  BY <1>3, <1>6, <1>7, <1>8, IdleSense DEF AccessInv

LEMMA AccessStep == AccessInv /\ [Next]_vars => AccessInv'
<1> SUFFICES ASSUME AccessInv, [Next]_vars
             PROVE  AccessInv'
  OBVIOUS
<1>1. TypeOK'
  BY TypeStep
<1>2. CASE UNCHANGED vars
  <2>1. UNCHANGED <<held, cached, path, chain, req, inTurn>>
    BY <1>2 DEF vars
  <2>2. \A q \in Requests : Same(req[q], req'[q])
    BY <2>1 DEF Same
  <2>3. LoadsHold' /\ RevokedIsGone'
    BY <2>1, <2>2, RolesKept
  <2>4. (\A s \in Scopes : Ranked(path'[s].levels)) /\ GapsClosed'
    BY <2>1, <2>2, LevelsKept
  <2>5. PathsDropped' /\ RaiserGranted'
    BY <2>1, <2>2, RaiserKept
  <2> QED
    BY <1>1, <2>1, <2>3, <2>4, <2>5 DEF AccessInv, ChainContiguous
<1>3. CASE Next
  BY <1>1, <1>3, ExpireKeeps, RemoveRaiserKeeps, RaiseKeeps, RestartKeeps, LoadKeeps, CommitLoadKeeps,
     InvalidateKeeps, CreateAssignmentKeeps, DeleteAssignmentKeeps, DropPathsKeeps, DropLevelsKeeps,
     ReindexKeeps, DropRowKeeps, AddRaiserKeeps, CommitPathKeeps, ReplaceKeeps, CommitLevelsKeeps,
     GrantKeeps, GrantRowKeeps DEF Next
<1> QED
  BY <1>2, <1>3

(* Whatever requests overlap, and whenever the process restarts: as long as nothing came
   back while it was going, what was revoked is not granted by the cache once its request
   is over, a chain is raised without a gap, and a path means that its raiser may raise. *)
THEOREM AccessTheorem == Spec => []AccessStands
<1>1. AccessInv => AccessStands
  <2>1. AccessInv => PathMeansRole
    BY DEF AccessInv, RaiserGranted, PathMeansRole, Granting, Underway
  <2> QED
    BY <2>1 DEF AccessInv, AccessStands
<1> QED
  BY <1>1, AccessInit, AccessStep, PTL DEF Spec
=============================================================================
