---------------------------- MODULE EmailCode ----------------------------
(***************************************************************************)
(* The e-mailed code by which an applicant proves an address on the careers *)
(* page (apply-email.service.ts, apply-email-verification.ts), for one      *)
(* address.                                                                 *)
(*                                                                         *)
(* Each handler reads the row, decides on what it read, spends a hash, a    *)
(* mail or a comparison on it, and writes.  A guess is either of the code   *)
(* in force or wrong.  Time is `clock`, in the unit of Cooldown, Ttl,       *)
(* Window and ProofTtl.                                                     *)
(***************************************************************************)
EXTENDS Naturals, Sequences, FiniteSets

CONSTANTS
  Pages,        \* requests the API process can serve at the same time
  Cooldown,     \* the gap between two codes (RESEND_COOLDOWN_MS)
  Ttl,          \* how long a code can be used (CODE_TTL_MS)
  Window,       \* the window codes are counted in (SEND_WINDOW_MS)
  ProofTtl,     \* how long a proved address stays proved (VERIFIED_TTL_MS)
  MaxSends,     \* codes one address is sent in a window (MAX_SENDS_PER_WINDOW)
  MaxGuesses,   \* wrong guesses that cancel a code (MAX_ATTEMPTS)
  MaxCalls,     \* bound: requests made
  MaxClock      \* bound: the time

ASSUME CodeAssumption ==
  /\ Ttl \in Nat /\ ProofTtl \in Nat /\ Cooldown \in Nat /\ Window \in Nat \ {0}
  /\ MaxSends \in Nat \ {0} /\ MaxGuesses \in Nat \ {0}
  /\ MaxCalls \in Nat /\ MaxClock \in Nat

VARIABLES
  coded,      \* the ApplyEmailCode row
  clock,
  page,       \* what each request in flight has read and is about to write
  proofs,     \* signed verifications: when each ends, and the code it came from
  mailed,     \* history: codes that reached the mailbox, with the time and their window
  guesses,    \* history: wrong guesses counted against each code
  applied,    \* history: when an application that had to be proved was taken, and on which code
  calls,      \* history: requests made
  calm        \* history: every write so far found the row its handler had read

evars == <<coded, clock, page, proofs, mailed, guesses, applied, calls, calm>>

-----------------------------------------------------------------------------
(* Values *)

(* A code is named by the call that made it; 0 is none.  `sent` and `start` are
   times plus one, and 0 is never. *)
CodeState == [code : Nat, until : Nat, tries : Nat, sent : Nat, start : Nat, count : Nat]
NoCode == [code |-> 0, until |-> 0, tries |-> 0, sent |-> 0, start |-> 0, count |-> 0]

NoCall == [step |-> "none", saw |-> NoCode, put |-> NoCode, at |-> 0]

EmailCodeTypeOK ==
  /\ coded \in CodeState
  /\ clock \in 0..MaxClock
  /\ page \in [Pages -> [step : {"none", "send", "mail", "undo", "wrong", "cancel", "right"},
                         saw : CodeState, put : CodeState, at : 0..MaxClock]]
  /\ calls \in Nat
  /\ calm \in BOOLEAN

EmailCodeInit ==
  /\ coded = NoCode
  /\ clock = 0
  /\ page = [p \in Pages |-> NoCall]
  /\ proofs = <<>>
  /\ mailed = {}
  /\ guesses = [c \in 1..MaxCalls |-> 0]
  /\ applied = {}
  /\ calls = 0
  /\ calm = TRUE

On(p, step) == page[p].step = step
Call == calls < MaxCalls /\ calls' = calls + 1
Reads(p, step, put) ==
  page' = [page EXCEPT ![p] = [step |-> step, saw |-> coded, put |-> put, at |-> clock]]
Proceeds(p, step) == page' = [page EXCEPT ![p].step = step]
Returns(p) == page' = [page EXCEPT ![p] = NoCall]

(* The write landed on what was read: the code and its counts are the same. *)
StillCalm(p) ==
  calm' = (calm /\ \A f \in {"code", "tries", "start", "count"} : page[p].saw[f] = coded[f])

-----------------------------------------------------------------------------
(* Sending *)

Usable(row) == row.code # 0 /\ row.until > clock

(* sendDecision: a code of the last minute that still works is kept. *)
Waits(row) == Usable(row) /\ row.sent # 0 /\ clock + 1 - row.sent < Cooldown

InWindow(row) == row.start # 0 /\ clock + 1 - row.start < Window

Limited(row) == InWindow(row) /\ row.count >= MaxSends

(* Variant: the count starts again with each code. *)
CountedAnew(row) == [row EXCEPT !.start = clock + 1, !.count = 1]

Counts(row) ==
  IF InWindow(row) THEN [row EXCEPT !.count = @ + 1]
                   ELSE [row EXCEPT !.start = clock + 1, !.count = 1]

NewCode(row, code) ==
  [Counts(row) EXCEPT !.code = code, !.until = clock + Ttl, !.tries = 0, !.sent = clock + 1]

SendCode(p) ==
  /\ On(p, "none")
  /\ ~Waits(coded) /\ ~Limited(coded)
  /\ Call
  /\ Reads(p, "send", NewCode(coded, calls'))
  /\ UNCHANGED <<coded, clock, proofs, mailed, guesses, applied, calm>>

StoreCode(p) ==
  /\ On(p, "send")
  /\ coded' = page[p].put
  /\ Proceeds(p, "mail")
  /\ StillCalm(p)
  /\ UNCHANGED <<clock, proofs, mailed, guesses, applied, calls>>

(* The mail goes, and may arrive although the send is said to have failed. *)
MailCode(p) ==
  /\ On(p, "mail")
  /\ \E arrives, fails \in BOOLEAN :
       /\ arrives \/ fails
       /\ mailed' = IF arrives
                      THEN mailed \cup {[code |-> page[p].put.code, start |-> page[p].put.start,
                                         failed |-> fails]}
                      ELSE mailed
       /\ IF fails THEN Proceeds(p, "undo") ELSE Returns(p)
  /\ UNCHANGED <<coded, clock, proofs, guesses, applied, calls, calm>>

Uncoded(row) == [row EXCEPT !.code = 0, !.until = 0]

(* Nothing to wait for and nothing counted: on the row as it is by now. *)
UndoSend(p) ==
  /\ On(p, "undo")
  /\ coded' = [Uncoded(coded) EXCEPT !.sent = 0, !.count = page[p].put.count - 1]
  /\ Returns(p)
  /\ calm' = (calm /\ coded = page[p].put)
  /\ UNCHANGED <<clock, proofs, mailed, guesses, applied, calls>>

-----------------------------------------------------------------------------
(* Guessing *)

(* codeUnusable *)
Takes(row) == Usable(row) /\ row.tries < MaxGuesses

VerifyWrong(p) ==
  /\ On(p, "none")
  /\ Takes(coded)
  /\ Call
  /\ Reads(p, "wrong", coded)
  /\ UNCHANGED <<coded, clock, proofs, mailed, guesses, applied, calm>>

(* The count is the database's own. *)
CountGuess(p) ==
  /\ On(p, "wrong")
  /\ coded' = [coded EXCEPT !.tries = @ + 1]
  /\ guesses' = [guesses EXCEPT ![page[p].saw.code] = @ + 1]
  /\ IF coded'.tries >= MaxGuesses THEN Proceeds(p, "cancel") ELSE Returns(p)
  /\ StillCalm(p)
  /\ UNCHANGED <<clock, proofs, mailed, applied, calls>>

CancelGuessed(p) ==
  /\ On(p, "cancel")
  /\ coded' = Uncoded(coded)
  /\ Returns(p)
  /\ calm' = (calm /\ page[p].saw.code = coded.code)
  /\ UNCHANGED <<clock, proofs, mailed, guesses, applied, calls>>

(* Whoever has read the mail. *)
VerifyRight(p) ==
  /\ On(p, "none")
  /\ Takes(coded)
  /\ \E m \in mailed : m.code = coded.code
  /\ Call
  /\ Reads(p, "right", coded)
  /\ UNCHANGED <<coded, clock, proofs, mailed, guesses, applied, calm>>

(* Variant: the code is left in force. *)
SpentNot(row) == [row EXCEPT !.tries = 0]

(* Single use. *)
SpentCode(row) == [Uncoded(row) EXCEPT !.tries = 0]

(* The verification runs from when the request came in. *)
AcceptCode(p) ==
  /\ On(p, "right")
  /\ coded' = SpentCode(coded)
  /\ proofs' = Append(proofs, [code |-> page[p].saw.code, until |-> page[p].at + ProofTtl])
  /\ Returns(p)
  /\ StillCalm(p)
  /\ UNCHANGED <<clock, mailed, guesses, applied, calls>>

-----------------------------------------------------------------------------
(* Applying *)

(* readVerification: this address, and not over. *)
Reading(proof) == proof.until > clock

(* Nothing is asked for while no mail can be delivered. *)
AssertVerified(required) ==
  \/ ~required /\ applied' = applied
  \/ \E i \in DOMAIN proofs :
       /\ Reading(proofs[i])
       /\ applied' = applied \cup {[at |-> clock, code |-> proofs[i].code]}

ApplyOnline ==
  /\ \E required \in BOOLEAN : AssertVerified(required)
  /\ UNCHANGED <<coded, clock, page, proofs, mailed, guesses, calls, calm>>

(* Nightly, for a row nobody has used for a day: no code and no window lasts that long. *)
PurgeStale ==
  /\ coded # NoCode
  /\ \A p \in Pages : On(p, "none")
  /\ ~Usable(coded) /\ ~InWindow(coded)
  /\ coded' = NoCode
  /\ UNCHANGED <<clock, page, proofs, mailed, guesses, applied, calls, calm>>

TimePasses ==
  /\ clock < MaxClock
  /\ clock' = clock + 1
  /\ UNCHANGED <<coded, page, proofs, mailed, guesses, applied, calls, calm>>

EmailCodeNext ==
  \/ ApplyOnline \/ PurgeStale \/ TimePasses
  \/ \E p \in Pages :
       \/ SendCode(p)    \/ StoreCode(p)  \/ MailCode(p)      \/ UndoSend(p)
       \/ VerifyWrong(p) \/ CountGuess(p) \/ CancelGuessed(p)
       \/ VerifyRight(p) \/ AcceptCode(p)

EmailCodeSpec == EmailCodeInit /\ [][EmailCodeNext]_evars

-----------------------------------------------------------------------------
(* Properties *)

(* As long as every write landed in turn, one code proves the address once
   (verifyCode). *)
CodeProvesOnce ==
  calm => \A i, j \in DOMAIN proofs : proofs[i].code = proofs[j].code => i = j

(* As long as every write landed in turn, a code takes no more wrong guesses than
   cancel it, however requests for new codes come between (verifyCode, sendCode). *)
GuessesBounded == calm => \A c \in 1..MaxCalls : guesses[c] <= MaxGuesses

(* As long as every write landed in turn, no more codes of one window arrive than
   the limit, those whose mail was said to have failed aside (sendDecision). *)
MailsBounded ==
  calm => \A m \in mailed :
            Cardinality({n \in mailed : n.start = m.start /\ ~n.failed}) <= MaxSends

(* An application taken while a proof was asked for came from someone who had read
   a code mailed to the address, at most an hour after proving it, whatever order
   the codes were sent, guessed and spent in (assertVerified, signVerification). *)
ApplicantProved ==
  \A a \in applied :
    /\ \E m \in mailed : m.code = a.code
    /\ \E i \in DOMAIN proofs : proofs[i].code = a.code /\ a.at < proofs[i].until

(* The limits on codes and guesses, and what a code is for. *)
CodesHold == CodeProvesOnce /\ GuessesBounded /\ MailsBounded /\ ApplicantProved
=============================================================================
