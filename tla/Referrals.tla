----------------------------- MODULE Referrals -----------------------------
(***************************************************************************)
(* The CVs one person sends in for one job on behalf of one referring       *)
(* employee, one at a time or several together, and the one letter that     *)
(* thanks the employee (candidates.service, candidate-mail.service,         *)
(* referral-window).                                                        *)
(*                                                                          *)
(* A CV sent in joins the referral still open; a sweep writes the letters   *)
(* of the referrals that have gone quiet.  Both go by the age of the last   *)
(* candidate, counted here in ticks of about a minute.  Letters wait behind *)
(* the CV reads in a queue that lives in the process.                       *)
(***************************************************************************)
EXTENDS Integers, Sequences, FiniteSets

CONSTANTS
  Senders,       \* requests with CVs that can be under way at the same time
  JoinFor,       \* a CV joins a referral with a candidate younger than this (REFERRAL_JOIN_MS)
  QuietFor,      \* a referral is due when all its candidates are this old (REFERRAL_QUIET_MS)
  BatchSize,     \* CVs in a batch
  MaxReferred,   \* bound: candidates referred
  MaxReferrals,  \* bound: referrals made
  MaxQueue       \* bound: reads and notices waiting

ASSUME WindowAssumption ==
  /\ JoinFor \in Nat \ {0} /\ QuietFor \in Nat /\ JoinFor < QuietFor /\ BatchSize \in Nat \ {0}
  /\ MaxReferred \in Nat /\ MaxReferrals \in Nat /\ MaxQueue \in Nat

VARIABLES
  referrals,     \* CandidateReferral, in the order made
  referred,      \* Candidate: those referred, in the order made
  cvReadQueue,   \* what the process still has to read or to write to, in order
  sending        \* where each request has come to

rvars == <<referrals, referred, cvReadQueue, sending>>

-----------------------------------------------------------------------------
(* Values *)

(* History: `hurried` has been a batch's, or was found due while still empty; *)
(* `thanks` is the letters the referring employee got.                        *)
Referral == [notified : BOOLEAN, dropped : BOOLEAN, hurried : BOOLEAN, thanks : 0..2]

(* History: `joined` was sent in alone and joined the referral as it was; `late` *)
(* came after the letters were claimed.                                          *)
Referred == [referral : 1..MaxReferrals, age : 0..QuietFor, removed : BOOLEAN,
             joined : BOOLEAN, late : BOOLEAN]

(* A CV to read, or a referral to write about: `letters` once they are claimed. *)
Errand == [kind : {"read", "notice", "letters"}, referral : 1..MaxReferrals]

(* `ticked` is about time only: a tick has passed since the referral was looked up. *)
Sending == [step : {"none", "make", "add", "finish"}, alone : BOOLEAN, left : 0..BatchSize,
            referral : 0..MaxReferrals, isNew : BOOLEAN, created : BOOLEAN, ticked : BOOLEAN]

NotSending == [step |-> "none", alone |-> TRUE, left |-> 0, referral |-> 0, isNew |-> FALSE,
               created |-> FALSE, ticked |-> FALSE]

ReferralsTypeOK ==
  /\ referrals \in Seq(Referral) /\ Len(referrals) <= MaxReferrals
  /\ referred \in Seq(Referred) /\ Len(referred) <= MaxReferred
  /\ cvReadQueue \in Seq(Errand)
  /\ sending \in [Senders -> Sending]

Of(n) == {c \in DOMAIN referred : referred[c].referral = n}

-----------------------------------------------------------------------------
(* Sending CVs in *)

(* Variant: a CV joins a referral for as long as the sweep leaves it alone, *)
(* and the minute between the two is gone.                                  *)
JoinableUntilDue(n) ==
  ~referrals[n].notified /\ \E c \in Of(n) : referred[c].age <= QuietFor

(* The referral this person is still adding to. *)
Joinable(n) == ~referrals[n].notified /\ \E c \in Of(n) : referred[c].age < JoinFor

(* referralFor: the open referral, the last one made first, or a new one. *)
FindReferral(s, request) ==
  /\ sending[s].step = "none" /\ Len(referred) < MaxReferred
  /\ LET open == {n \in DOMAIN referrals : Joinable(n)}
     IN \/ open = {} /\ sending' = [sending EXCEPT ![s] = [request EXCEPT !.step = "make"]]
        \/ \E n \in open :
             /\ \A m \in open : m <= n
             /\ sending' = [sending EXCEPT ![s] = [request EXCEPT !.step = "add", !.referral = n]]
  /\ UNCHANGED <<referrals, referred, cvReadQueue>>

(* One CV: it is on Drive when its referral is looked for. *)
SendOne(s) == FindReferral(s, [NotSending EXCEPT !.left = 1])

(* A batch: its referral is looked for before the first CV goes to Drive. *)
SendMany(s) == FindReferral(s, [NotSending EXCEPT !.alone = FALSE, !.left = BatchSize])

MakeReferral(s) ==
  /\ sending[s].step = "make"
  /\ Len(referrals) < MaxReferrals
  /\ referrals' = Append(referrals, [notified |-> FALSE, dropped |-> FALSE, hurried |-> FALSE,
                                  thanks |-> 0])
  /\ sending' = [sending EXCEPT ![s].step = "add", ![s].isNew = TRUE,
                                ![s].referral = Len(referrals')]
  /\ UNCHANGED <<referred, cvReadQueue>>

(* What a request does after one of its CVs: the next one, or the end. *)
After(s, created) ==
  LET more == [sending[s] EXCEPT !.left = @ - 1, !.created = @ \/ created]
  IN IF sending[s].alone THEN NotSending
     ELSE IF more.left = 0 THEN [more EXCEPT !.step = "finish"]
     ELSE more

(* One candidate, whose CV is then read in its turn. *)
AddReferred(s) ==
  LET n == sending[s].referral
  IN /\ sending[s].step = "add"
     /\ Len(referred) < MaxReferred /\ Len(cvReadQueue) < MaxQueue
     /\ referred' = Append(referred, [referral |-> n, age |-> 0, removed |-> FALSE,
                                      joined |-> sending[s].alone /\ ~sending[s].isNew,
                                      late |-> referrals[n].notified])
     /\ cvReadQueue' = Append(cvReadQueue, [kind |-> "read", referral |-> n])
     /\ referrals' = [referrals EXCEPT ![n].hurried = @ \/ ~sending[s].alone]
     /\ sending' = [sending EXCEPT ![s] = After(s, TRUE)]

Dropped(n) == [referrals EXCEPT ![n].dropped = TRUE]

(* One CV of a batch does not go in, and the others are still tried; but when *)
(* the first cannot for a reason they share, the batch ends there.            *)
CvFails(s) ==
  /\ sending[s].step = "add" /\ ~sending[s].alone
  /\ \/ sending' = [sending EXCEPT ![s] = After(s, FALSE)] /\ UNCHANGED referrals
     \/ /\ ~sending[s].created
        /\ sending' = [sending EXCEPT ![s] = NotSending]
        /\ referrals' = IF sending[s].isNew THEN Dropped(sending[s].referral) ELSE referrals
  /\ UNCHANGED <<referred, cvReadQueue>>

Notice(n) == [kind |-> "notice", referral |-> n]

(* A batch does not wait to be quiet: its letters queue behind its CVs. *)
FinishBatch(s) ==
  /\ sending[s].step = "finish"
  /\ Len(cvReadQueue) < MaxQueue
  /\ LET n == sending[s].referral
     IN IF sending[s].created
          THEN cvReadQueue' = Append(cvReadQueue, Notice(n)) /\ UNCHANGED referrals
          ELSE /\ referrals' = IF sending[s].isNew THEN Dropped(n) ELSE referrals
               /\ UNCHANGED cvReadQueue
  /\ sending' = [sending EXCEPT ![s] = NotSending]
  /\ UNCHANGED <<referred>>

-----------------------------------------------------------------------------
(* The letters *)

(* None of its candidates is younger: so one that has none yet is due too. *)
Due(n) == /\ ~referrals[n].notified /\ ~referrals[n].dropped
          /\ \A c \in Of(n) : referred[c].age >= QuietFor

(* Every two minutes.  The CVs that gave no address are read again first. *)
SendOverdueReferralNotices ==
  LET due == {n \in DOMAIN referrals : Due(n)}
  IN \E order \in [1..Cardinality(due) -> due] :
     /\ due # {} /\ Len(cvReadQueue) + Cardinality(due) <= MaxQueue
     /\ \A j, k \in DOMAIN order : j < k => order[j] < order[k]
     /\ cvReadQueue' = cvReadQueue \o [k \in DOMAIN order |-> Notice(order[k])]
     /\ referrals' = [n \in DOMAIN referrals |->
          IF Due(n) /\ Of(n) = {} THEN [referrals[n] EXCEPT !.hurried = TRUE] ELSE referrals[n]]
     /\ UNCHANGED <<referred, sending>>

AtHead(kind) == cvReadQueue # <<>> /\ Head(cvReadQueue).kind = kind

(* A read takes its time; whether it finds an address, the letters list the same. *)
ReadCv ==
  /\ AtHead("read")
  /\ cvReadQueue' = Tail(cvReadQueue)
  /\ UNCHANGED <<referrals, referred, sending>>

(* Variant: the letters go to whoever is asked about, written to or not. *)
ClaimableAlways(n) == ~referrals[n].dropped

(* The conditional update that lets one notice through. *)
Claimable(n) == ~referrals[n].notified /\ ~referrals[n].dropped

ClaimNotice ==
  /\ AtHead("notice")
  /\ LET n == Head(cvReadQueue).referral
     IN IF Claimable(n)
          THEN /\ referrals' = [referrals EXCEPT ![n].notified = TRUE]
               /\ cvReadQueue' = <<[kind |-> "letters", referral |-> n]>> \o Tail(cvReadQueue)
          ELSE cvReadQueue' = Tail(cvReadQueue) /\ UNCHANGED referrals
  /\ UNCHANGED <<referred, sending>>

(* Nobody is written to about a referral that has nobody. *)
SendThanks ==
  /\ AtHead("letters")
  /\ LET n == Head(cvReadQueue).referral
     IN referrals' = IF \E c \in Of(n) : ~referred[c].removed
                       THEN [referrals EXCEPT ![n].thanks = @ + 1] ELSE referrals
  /\ cvReadQueue' = Tail(cvReadQueue)
  /\ UNCHANGED <<referred, sending>>

-----------------------------------------------------------------------------
(* Everything else *)

RemoveReferred(c) ==
  /\ ~referred[c].removed
  /\ referred' = [referred EXCEPT ![c].removed = TRUE]
  /\ UNCHANGED <<referrals, cvReadQueue, sending>>

(* Time passes.  A CV sent in alone is with its referral within the minute; *)
(* the CVs of a batch take as long as Drive takes.                          *)
Tick ==
  /\ \E c \in DOMAIN referred : referred[c].age < QuietFor
  /\ \A s \in Senders : sending[s].alone => ~sending[s].ticked
  /\ referred' = [c \in DOMAIN referred |->
                    [referred[c] EXCEPT !.age = IF @ < QuietFor THEN @ + 1 ELSE @]]
  /\ sending' = [s \in Senders |->
                   [sending[s] EXCEPT !.ticked = sending[s].alone /\ sending[s].step \in {"make", "add"}]]
  /\ UNCHANGED <<referrals, cvReadQueue>>

(* The process stops: the queue and the requests go, the rows stay. *)
RestartReferrals ==
  /\ cvReadQueue # <<>> \/ \E s \in Senders : sending[s].step # "none"
  /\ cvReadQueue' = <<>>
  /\ sending' = [s \in Senders |-> NotSending]
  /\ UNCHANGED <<referrals, referred>>

ReferralsInit ==
  /\ referrals = <<>> /\ referred = <<>> /\ cvReadQueue = <<>>
  /\ sending = [s \in Senders |-> NotSending]

ReferralsNext ==
  \/ \E s \in Senders :
       \/ SendOne(s) \/ SendMany(s) \/ MakeReferral(s)
       \/ AddReferred(s) \/ CvFails(s) \/ FinishBatch(s)
  \/ SendOverdueReferralNotices \/ ReadCv \/ ClaimNotice \/ SendThanks
  \/ \E c \in DOMAIN referred : RemoveReferred(c)
  \/ Tick \/ RestartReferrals

ReferralsSpec == ReferralsInit /\ [][ReferralsNext]_rvars

-----------------------------------------------------------------------------
(* Properties *)

(* The referring employee is written to about a referral once, whatever the *)
(* queue, the sweep and a restart do, and a CV sent in alone joins a        *)
(* referral whose letters are already claimed only where the five minutes   *)
(* were not waited for: a batch's, or one the sweep found still empty.      *)
LettersWhole ==
  /\ \A n \in DOMAIN referrals : referrals[n].thanks <= 1
  /\ \A c \in DOMAIN referred :
       referred[c].joined /\ referred[c].late => referrals[referred[c].referral].hurried

(* "The letter can never go out while a candidate is being added to it"     *)
(* (referral-window.ts:16-17): no candidate is added to a referral whose    *)
(* letters are claimed, however it was sent in.                             *)
LettersWait == \A c \in DOMAIN referred : ~referred[c].late
=============================================================================
