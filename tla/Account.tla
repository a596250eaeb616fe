------------------------------ MODULE Account ------------------------------
(***************************************************************************)
(* One user's account: sign-in, the second factor, sessions, the password  *)
(* and its two resets, and the e-signature (auth.service.ts,               *)
(* password-reset.service.ts, jwt.strategy.ts, first-login.guard.ts,       *)
(* users.service.ts).                                                      *)
(*                                                                         *)
(* A handler reads the user row, spends a bcrypt comparison, a mail or an  *)
(* upload on it, and writes; `req` holds the row as each request in flight *)
(* has read it.  A handler that writes without looking is one action.      *)
(*                                                                         *)
(* Every password set raises the token version, so `tv` also names the     *)
(* password in force.  Codes are either the one in force or wrong, and     *)
(* authenticator secrets have numbers.  The account stays active and keeps *)
(* a role; tokens from before sessions had ids, and secrets from before    *)
(* they were encrypted, are gone.                                          *)
(***************************************************************************)
EXTENDS Naturals

CONSTANTS
  Visitors,      \* requests the API process can serve at the same time
  MaxFailures,   \* wrong passwords in a row that lock the account (LOGIN_MAX_ATTEMPTS)
  MaxTries,      \* wrong guesses that cancel a reset code (RESET_MAX_ATTEMPTS)
  MaxActs        \* bound: requests made

ASSUME AttemptsAssumption ==
  MaxFailures \in Nat \ {0} /\ MaxTries \in Nat \ {0} /\ MaxActs \in Nat

VARIABLES
  user,        \* the User row
  sessions,    \* session tokens out that were not signed out of
  challenges,  \* tokens out between the password and the second factor
  resets,      \* tokens out that may set a password
  visit,         \* what each request in flight remembers
  spent,       \* history: reset codes that have set a password
  acts,        \* history: requests made
  inOrder       \* history: every write so far landed on what its handler had read

avars == <<user, sessions, challenges, resets, visit, spent, acts, inOrder>>

-----------------------------------------------------------------------------
(* Values *)

(* `lock` is over, and not none, when lockedUntil lies in the past.  A code of
   0 is none or an expired one, and `recent` is the minute after sending it.
   A secret of 0 is none; `held` is history: the secret whose code its owner has
   given, 0 since a setup has made another. *)
User == [tv : Nat, mustChange : BOOLEAN,
         failed : 0..MaxFailures, lock : {"none", "on", "over"},
         second : {"off", "totp", "email"}, secret : Nat, held : Nat, otp : BOOLEAN,
         code : Nat, tries : Nat, recent : BOOLEAN,
         signed : {"none", "self", "hr"}]

(* `proved`: which password its holder proved to know.  `second`: a second
   factor was asked for after it. *)
Session == [tv : Nat, proved : Nat, second : BOOLEAN]
ResetToken == [tv : Nat, code : Nat]

WriteSteps == {"none", "failure", "clear", "admit", "spend", "totp", "email", "disable",
           "change", "resign", "code", "guess", "cancel", "accept", "reset", "sign", "unsign"}

(* `then` is the write that follows the one in hand, `as` who uploads. *)
Visit == [write : WriteSteps, then : WriteSteps, saw : User, proved : Nat,
            second : BOOLEAN, code : Nat, as : {"self", "hr"}]

NewUser == [tv |-> 0, mustChange |-> FALSE, failed |-> 0, lock |-> "none", second |-> "off",
            secret |-> 0, held |-> 0, otp |-> FALSE, code |-> 0, tries |-> 0, recent |-> FALSE,
            signed |-> "none"]

NoErrand == [write |-> "none", then |-> "none", saw |-> NewUser, proved |-> 0,
         second |-> FALSE, code |-> 0, as |-> "self"]

AccountTypeOK ==
  /\ user \in User
  /\ sessions \subseteq Session
  /\ challenges \subseteq Nat
  /\ resets \subseteq ResetToken
  /\ visit \in [Visitors -> Visit]
  /\ spent \subseteq Nat
  /\ acts \in Nat
  /\ inOrder \in BOOLEAN

-----------------------------------------------------------------------------
(* Asking and writing *)

Now(r, write) == visit[r].write = write

Act == acts < MaxActs /\ acts' = acts + 1

Asks(r, request) ==
  /\ Now(r, "none")
  /\ Act
  /\ visit' = [visit EXCEPT ![r] = [request EXCEPT !.saw = user]]
  /\ UNCHANGED <<user, sessions, challenges, resets, spent, inOrder>>

(* A write goes to the row as it is by now; the request goes on or is over. *)
Write(r, row, next) ==
  /\ user' = row
  /\ visit' = [visit EXCEPT ![r] = IF next = "none" THEN NoErrand
                               ELSE [visit[r] EXCEPT !.write = next]]

(* The fields the write goes by are still what the handler has read. *)
StaysPut(r, fields) == inOrder' = (inOrder /\ \A f \in fields : visit[r].saw[f] = user[f])

(* JwtStrategy.validate: the token's version is the row's. *)
SignedIn == \E s \in sessions : s.tv = user.tv

(* FirstLoginGuard leaves an account with somebody else's password only the way
   to change it. *)
MayEnrol == SignedIn /\ ~user.mustChange

(* An account from the directory must change the default password it was given;
   one in use may have its second factor. *)
AccountInit ==
  /\ user \in {[NewUser EXCEPT !.mustChange = TRUE]}
                \cup {[NewUser EXCEPT !.second = by] : by \in {"off", "email"}}
                \cup {[NewUser EXCEPT !.second = "totp", !.secret = 1, !.held = 1]}
  /\ sessions = {}
  /\ challenges = {}
  /\ resets = {}
  /\ visit = [r \in Visitors |-> NoErrand]
  /\ spent = {}
  /\ acts = 0
  /\ inOrder = TRUE

-----------------------------------------------------------------------------
(* Signing in *)

(* A locked account is refused whatever the password. *)
MayTry == user.lock # "on"

LoginWrong(r) ==
  /\ MayTry
  /\ Asks(r, [NoErrand EXCEPT !.write = "failure"])

(* The count goes on from what was read, and so does the lock. *)
Counted(row, saw) ==
  IF saw.failed + 1 >= MaxFailures
    THEN [row EXCEPT !.failed = 0, !.lock = "on"]
    ELSE [row EXCEPT !.failed = saw.failed + 1, !.lock = saw.lock]

RecordFailedLogin(r) ==
  /\ Now(r, "failure")
  /\ Write(r, Counted(user, visit[r].saw), "none")
  /\ StaysPut(r, {"failed", "lock"})
  /\ UNCHANGED <<sessions, challenges, resets, spent, acts>>

(* The write is left out when there is nothing to clear. *)
Clearing == IF user.failed = 0 /\ user.lock = "none" THEN "admit" ELSE "clear"

LoginRight(r) ==
  /\ MayTry
  /\ Asks(r, [NoErrand EXCEPT !.write = Clearing, !.proved = user.tv])

ClearFailedLogins(r) ==
  /\ Now(r, "clear")
  /\ Write(r, [user EXCEPT !.failed = 0, !.lock = "none"], "admit")
  /\ StaysPut(r, {"failed", "lock"})
  /\ UNCHANGED <<sessions, challenges, resets, spent, acts>>

(* Variant: the token carries the version of the row as it is by now. *)
SignFresh(r) == [tv |-> user.tv, proved |-> visit[r].proved, second |-> visit[r].second]

(* The token carries the version of the row the handler has read. *)
Sign(r) == [tv |-> visit[r].saw.tv, proved |-> visit[r].proved, second |-> visit[r].second]

(* sendEmailCode: a new code takes the place of the one in force. *)
Mailed(row) == [row EXCEPT !.otp = TRUE]

(* A second factor is asked for once, if the row that was read had one. *)
Admit(r) ==
  /\ Now(r, "admit")
  /\ IF visit[r].saw.second # "off" /\ ~visit[r].second
       THEN /\ challenges' = challenges \cup {visit[r].proved}
            /\ Write(r, IF visit[r].saw.second = "email" THEN Mailed(user) ELSE user, "none")
            /\ UNCHANGED sessions
       ELSE /\ sessions' = sessions \cup {Sign(r)}
            /\ Write(r, user, "none")
            /\ UNCHANGED challenges
  /\ UNCHANGED <<resets, spent, acts, inOrder>>

(* The right code on a challenge: an emailed one is spent first. *)
VerifyLoginTwoFactor(r) ==
  \E proved \in challenges :
    LET request == [NoErrand EXCEPT !.proved = proved, !.second = TRUE] IN
    \/ /\ user.second = "totp" /\ user.secret # 0
       /\ Asks(r, [request EXCEPT !.write = Clearing])
    \/ /\ user.second = "email" /\ user.otp
       /\ Asks(r, [request EXCEPT !.write = "spend", !.then = Clearing])

SpendOtp(r) ==
  /\ Now(r, "spend")
  /\ Write(r, [user EXCEPT !.otp = FALSE], visit[r].then)
  /\ StaysPut(r, {"otp", "second", "secret", "failed", "lock", "tv"})
  /\ UNCHANGED <<sessions, challenges, resets, spent, acts>>

(* Signing out ends this session; others like it may be open elsewhere. *)
Logout ==
  \E s \in sessions :
    /\ s.tv = user.tv
    /\ sessions' = sessions \ {s}
    /\ UNCHANGED <<user, challenges, resets, visit, spent, acts, inOrder>>

-----------------------------------------------------------------------------
(* The second factor *)

(* A new secret takes the place of the old one at once, in use or not: sign-in
   goes by it from now on, though nobody may ever scan it. *)
SetupTotp ==
  /\ MayEnrol /\ Act
  /\ user' = [user EXCEPT !.secret = acts' + 1, !.held = 0]
  /\ UNCHANGED <<sessions, challenges, resets, visit, spent, inOrder>>

(* The code is of the secret that was read. *)
EnableTotp(r) ==
  /\ MayEnrol /\ user.secret # 0
  /\ Asks(r, [NoErrand EXCEPT !.write = "totp"])

(* The method is switched on, for whatever secret the row holds by then. *)
CommitTotp(r) ==
  /\ Now(r, "totp")
  /\ Write(r, [user EXCEPT !.second = "totp", !.held = visit[r].saw.secret], "none")
  /\ StaysPut(r, {"second", "secret"})
  /\ UNCHANGED <<sessions, challenges, resets, spent, acts>>

StartEmailSetup ==
  /\ MayEnrol /\ Act
  /\ user' = Mailed(user)
  /\ UNCHANGED <<sessions, challenges, resets, visit, spent, inOrder>>

EnableEmail(r) ==
  /\ MayEnrol /\ user.otp
  /\ Asks(r, [NoErrand EXCEPT !.write = "spend", !.then = "email"])

ByEmail(row) == [row EXCEPT !.second = "email", !.secret = 0]

CommitEmail(r) ==
  /\ Now(r, "email")
  /\ Write(r, ByEmail(user), "none")
  /\ StaysPut(r, {"second", "secret"})
  /\ UNCHANGED <<sessions, challenges, resets, spent, acts>>

Without(row) == [row EXCEPT !.second = "off", !.secret = 0, !.otp = FALSE]

DisableTwoFactor(r) ==
  /\ MayEnrol
  /\ Asks(r, [NoErrand EXCEPT !.write = "disable"])

CommitDisable(r) ==
  /\ Now(r, "disable")
  /\ Write(r, Without(user), "none")
  /\ StaysPut(r, {"second", "secret"})
  /\ UNCHANGED <<sessions, challenges, resets, spent, acts>>

-----------------------------------------------------------------------------
(* The password *)

(* What every new password does to the row. *)
NewPassword(row) ==
  [row EXCEPT !.tv = @ + 1, !.mustChange = FALSE, !.failed = 0, !.lock = "none"]

(* The holder of a session gives the current password and a new one. *)
ChangePassword(r) ==
  /\ SignedIn
  /\ Asks(r, [NoErrand EXCEPT !.write = "change"])

CommitChange(r) ==
  /\ Now(r, "change")
  /\ user' = NewPassword(user)
  /\ visit' = [visit EXCEPT ![r].write = "resign", ![r].saw = user', ![r].proved = user'.tv]
  /\ StaysPut(r, {"tv"})
  /\ UNCHANGED <<sessions, challenges, resets, spent, acts>>

(* The row is read again, and a token signed for whatever it holds by then. *)
SignAgain(r) ==
  /\ Now(r, "resign")
  /\ sessions' = sessions \cup {[tv |-> user.tv, proved |-> visit[r].proved, second |-> FALSE]}
  /\ Write(r, user, "none")
  /\ StaysPut(r, {"tv"})
  /\ UNCHANGED <<challenges, resets, spent, acts>>

(* A super user puts the account back on the default password. *)
ResetPasswordToDefault ==
  /\ Act
  /\ user' = [Without(NewPassword(user)) EXCEPT !.mustChange = TRUE]
  /\ UNCHANGED <<sessions, challenges, resets, visit, spent, inOrder>>

-----------------------------------------------------------------------------
(* Forgot password *)

RequestCode(r) ==
  /\ ~user.recent
  /\ Asks(r, [NoErrand EXCEPT !.write = "code"])

CommitCode(r) ==
  /\ Now(r, "code")
  /\ Write(r, [user EXCEPT !.code = acts, !.tries = 0, !.recent = TRUE], "none")
  /\ UNCHANGED <<sessions, challenges, resets, spent, acts, inOrder>>

CodeTaken == user.code # 0 /\ user.tries < MaxTries

GuessWrong(r) ==
  /\ CodeTaken
  /\ Asks(r, [NoErrand EXCEPT !.write = "guess"])

(* The count is the database's own. *)
CommitGuess(r) ==
  /\ Now(r, "guess")
  /\ Write(r, [user EXCEPT !.tries = @ + 1],
           IF user.tries + 1 >= MaxTries THEN "cancel" ELSE "none")
  /\ UNCHANGED <<sessions, challenges, resets, spent, acts, inOrder>>

CancelCode(r) ==
  /\ Now(r, "cancel")
  /\ Write(r, [user EXCEPT !.code = 0], "none")
  /\ UNCHANGED <<sessions, challenges, resets, spent, acts, inOrder>>

GuessRight(r) ==
  /\ CodeTaken
  /\ Asks(r, [NoErrand EXCEPT !.write = "accept", !.code = user.code])

(* The code is spent, and its token pinned to the version that was read. *)
Accept(r) ==
  /\ Now(r, "accept")
  /\ Write(r, [user EXCEPT !.code = 0, !.tries = 0], "none")
  /\ resets' = resets \cup {[tv |-> visit[r].saw.tv, code |-> visit[r].code]}
  /\ StaysPut(r, {"code", "tv"})
  /\ UNCHANGED <<sessions, challenges, spent, acts>>

(* Variant: a reset token is good for as long as it lasts. *)
StillValidAlways(token) == TRUE

StillValid(token) == token.tv = user.tv

Reset(r) ==
  \E token \in resets :
    /\ StillValid(token)
    /\ Asks(r, [NoErrand EXCEPT !.write = "reset", !.code = token.code])

CommitReset(r) ==
  /\ Now(r, "reset")
  /\ Write(r, [NewPassword(user) EXCEPT !.code = 0, !.tries = 0], "none")
  /\ spent' = spent \cup {visit[r].code}
  /\ StaysPut(r, {"tv"})
  /\ UNCHANGED <<sessions, challenges, resets, acts>>

-----------------------------------------------------------------------------
(* The e-signature *)

(* requireSignatureRights: nobody signs over what the owner has signed. *)
MaySign(as) == as = "self" \/ user.signed # "self"

(* The image goes to Drive between the rights and the row. *)
UploadSignature(r) ==
  \E as \in {"self", "hr"} :
    /\ MaySign(as)
    /\ Asks(r, [NoErrand EXCEPT !.write = "sign", !.as = as])

CommitSignature(r) ==
  /\ Now(r, "sign")
  /\ Write(r, [user EXCEPT !.signed = visit[r].as], "none")
  /\ StaysPut(r, {"signed"})
  /\ UNCHANGED <<sessions, challenges, resets, spent, acts>>

DeleteSignature(r) ==
  \E as \in {"self", "hr"} :
    /\ MaySign(as)
    /\ user.signed # "none"
    /\ Asks(r, [NoErrand EXCEPT !.write = "unsign", !.as = as])

CommitUnsign(r) ==
  /\ Now(r, "unsign")
  /\ Write(r, [user EXCEPT !.signed = "none"], "none")
  /\ StaysPut(r, {"signed"})
  /\ UNCHANGED <<sessions, challenges, resets, spent, acts>>

-----------------------------------------------------------------------------
(* Time passes: a lock ends, a code expires, the minute after sending is over,
   and with it any token. *)
Lapse ==
  /\ \/ /\ \/ user.lock = "on" /\ user' = [user EXCEPT !.lock = "over"]
           \/ user.code # 0 /\ user' = [user EXCEPT !.code = 0]
           \/ user.otp /\ user' = [user EXCEPT !.otp = FALSE]
           \/ user.recent /\ user' = [user EXCEPT !.recent = FALSE]
        /\ UNCHANGED <<sessions, challenges, resets>>
     \/ /\ challenges # {}
        /\ challenges' = {}
        /\ UNCHANGED <<user, sessions, resets>>
  /\ UNCHANGED <<visit, spent, acts, inOrder>>

AccountNext ==
  \/ Logout \/ SetupTotp \/ StartEmailSetup \/ ResetPasswordToDefault \/ Lapse
  \/ \E r \in Visitors :
       \/ LoginWrong(r)       \/ RecordFailedLogin(r)
       \/ LoginRight(r)       \/ ClearFailedLogins(r)
       \/ Admit(r)
       \/ VerifyLoginTwoFactor(r) \/ SpendOtp(r)
       \/ EnableTotp(r)       \/ CommitTotp(r)
       \/ EnableEmail(r)      \/ CommitEmail(r)
       \/ DisableTwoFactor(r) \/ CommitDisable(r)
       \/ ChangePassword(r)   \/ CommitChange(r)  \/ SignAgain(r)
       \/ RequestCode(r)      \/ CommitCode(r)
       \/ GuessWrong(r)       \/ CommitGuess(r)   \/ CancelCode(r)
       \/ GuessRight(r)       \/ Accept(r)
       \/ Reset(r)            \/ CommitReset(r)
       \/ UploadSignature(r)  \/ CommitSignature(r)
       \/ DeleteSignature(r)  \/ CommitUnsign(r)

AccountSpec == AccountInit /\ [][AccountNext]_avars

-----------------------------------------------------------------------------
(* Properties *)

(* As long as every write landed in turn, a session that still works was opened
   by someone who knew the password now in force, or passed a second factor:
   setting a password ends the others, and a sign-in that was under way when it
   was set comes to nothing (sign, JwtStrategy.validate). *)
SessionOfPassword ==
  inOrder => \A s \in sessions : s.tv = user.tv => s.second \/ s.proved = user.tv

(* Sign-in asks for a code its owner can give, or a setup was begun since the last
   code they gave, and not finished. *)
Answerable(row) ==
  row.second = "totp" => row.secret # 0 /\ row.held \in {row.secret, 0}

(* As long as every write landed in turn, whoever has an authenticator asked of
   them at sign-in can answer with the secret they gave a code of: no order of
   enrolling, switching method, switching off and resetting locks the account
   out, but for one.  A setup begun anew while the authenticator is on, and not
   finished, leaves it asking for a secret nobody has shown to hold (setupTotp,
   enableTotp, enableEmail, disableTwoFactor, resetPasswordToDefault). *)
SecondFactorUsable == inOrder => Answerable(user)

(* Signing in rests on the password in force and on a second factor that can be given,
   unless its owner has begun to replace it. *)
SignInHolds == SessionOfPassword /\ SecondFactorUsable

(* As long as every write landed in turn, a code that was mailed sets at most one
   password, whatever else set one since (verify, reset). *)
CodeSetsOnePassword ==
  [][\A r \in Visitors :
       Now(r, "reset") /\ ~Now(r, "reset")' /\ inOrder' => visit[r].code \notin spent]_avars

(* As long as every write landed in turn, a lock ends by time or with a new
   password, and by no wrong password and no right one (login, recordFailedLogin).
   A second factor ends it too, passed on a challenge from before the lock: only
   login looks at the lock (verifyLoginTwoFactor, clearFailedLogins). *)
LockStands ==
  [][user.lock = "on" /\ user'.lock # "on" /\ inOrder'
       => \/ user'.lock = "over" \/ user'.tv > user.tv
          \/ \E r \in Visitors : Now(r, "clear") /\ visit[r].second]_avars

(* As long as every write landed in turn, a signature its owner has uploaded is
   replaced or removed by its owner alone (requireSignatureRights). *)
OwnSignatureKept ==
  [][user.signed = "self" /\ user'.signed # "self" /\ inOrder'
       => \E r \in Visitors : Now(r, "unsign") /\ visit[r].as = "self"]_avars

(* A password, a lock and an own signature give way to their owner or to time alone. *)
OwnerOrTime == CodeSetsOnePassword /\ LockStands /\ OwnSignatureKept

(* Who may sign in, and what the account gives way to (auth.service, account.service). *)
AccountStands == [](SessionOfPassword /\ SecondFactorUsable) /\ OwnerOrTime
=============================================================================
