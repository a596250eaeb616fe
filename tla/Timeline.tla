----------------------------- MODULE Timeline -----------------------------
(***************************************************************************)
(* A hire's history as it is printed for the personnel file                 *)
(* (candidates.service.ts: timeline; candidate-timeline.ts).                *)
(*                                                                         *)
(* Nothing is stored: each row carries its own dates, and the history is    *)
(* put together from them each time.  Dates may be equal, a date written    *)
(* again takes the place of the old one, and some are taken back.  One      *)
(* sign-off, note, round, evaluation, vote and document stand for all.      *)
(***************************************************************************)
EXTENDS Naturals, Sequences, FiniteSets

CONSTANTS
  MaxTime,    \* bound: dates
  MaxAsides,  \* bound: events nothing else waits for
  MaxChanged  \* bound: dates written again or taken back

VARIABLES
  when,     \* the date each row carries of each event, 0 if none
  now,
  changed   \* history: dates written again or taken back

tvars == <<when, now, changed>>

-----------------------------------------------------------------------------
(* What is read, row by row, in the order it is read in *)

Vacancy    == <<"raised", "signed", "noted">>
Applicant  == <<"applied", "screened", "rejected", "regretted">>
Rounds     == <<"interview", "evaluated">>
BoardSheet == <<"sentUp", "voted", "approvedByHr", "declined">>
Paperwork  == <<"started", "document", "docsSkipped", "verificationSkipped", "crossChecked",
                "doctorsTold", "cleared", "offered", "accepted", "appointed", "verified",
                "itAsked", "itDone", "completed", "archived">>

Phases == <<Vacancy, Applicant, Rounds, BoardSheet, Paperwork>>

Pushes == Vacancy \o Applicant \o Rounds \o BoardSheet \o Paperwork

Events == {Pushes[i] : i \in DOMAIN Pushes}

PushOrder == [e \in Events |-> CHOOSE i \in DOMAIN Pushes : Pushes[i] = e]

PhaseOrder ==
  [e \in Events |->
     CHOOSE p \in DOMAIN Phases : \E i \in DOMAIN Phases[p] : Phases[p][i] = e]

(* An event without a date is dropped. *)
Pushed == {e \in Events : when[e] # 0}

(* Variant: what was pushed last comes first among equals. *)
AheadBackwards(a, b) ==
  \/ when[a] < when[b]
  \/ when[a] = when[b] /\ PushOrder[a] > PushOrder[b]

(* By date, then by phase; the sort keeps the order of equals. *)
Ahead(a, b) ==
  \/ when[a] < when[b]
  \/ when[a] = when[b] /\ PhaseOrder[a] < PhaseOrder[b]
  \/ when[a] = when[b] /\ PhaseOrder[a] = PhaseOrder[b] /\ PushOrder[a] < PushOrder[b]

(* Where each event stands in the history. *)
SortTimeline == [e \in Pushed |-> Cardinality({a \in Pushed : Ahead(a, e)}) + 1]

-----------------------------------------------------------------------------
(* A hire's life: the row, or the check, each event waits for (the other modules).
   HR may record almost everything by hand, so little is waited for. *)
Needs ==
  [e \in Events |->
  CASE e = "raised"                                -> {}
    [] e \in {"signed", "noted", "applied"}        -> {"raised"}
    [] e \in {"screened", "rejected", "interview", "started"} -> {"applied"}
    [] e = "regretted"                             -> {"rejected"}
    [] e = "evaluated"                             -> {"interview"}
    [] e = "sentUp"                                -> {"started"}
    [] e \in {"voted", "declined", "approvedByHr"} -> {"sentUp"}
    [] e = "verified"                              -> {"cleared"}
    [] e \in {"appointed", "itAsked", "completed"} -> {"verified"}
    [] e = "itDone"                                -> {"itAsked"}
    [] OTHER                                       -> {"started"}]

(* Set once: when the row is created, or when an applicant or IT answers. *)
Once == {"raised", "noted", "applied", "sentUp", "started", "document", "accepted", "itDone"}

(* A chain that starts over, a reopened application, a fresh request after a
   refusal, a medical back to pending, a request to IT whose mail did not leave. *)
MayBeTakenBack == {"signed", "rejected", "voted", "declined", "cleared", "itAsked"}

Done(e) == when[e] # 0

Asides == {e \in Events : \A later \in Events : e \notin Needs[later]}

TimelineInit ==
  /\ when = [e \in Events |-> 0]
  /\ now = 1
  /\ changed = 0

(* A round carries the date it is set for, if it has one, and not the date it was
   made. *)
DateOf(e) == IF e = "interview" THEN 1..MaxTime ELSE {now}

Happen(e) ==
  /\ ~Done(e)
  /\ \A n \in Needs[e] : Done(n)
  /\ e \in Asides => Cardinality({a \in Asides : Done(a)}) < MaxAsides
  /\ \E at \in DateOf(e) : when' = [when EXCEPT ![e] = at]
  /\ UNCHANGED <<now, changed>>

(* Done again, whatever has followed by then. *)
HappenAgain(e) ==
  /\ e \in Events \ Once
  /\ Done(e)
  /\ changed < MaxChanged /\ changed' = changed + 1
  /\ \E at \in DateOf(e) : when' = [when EXCEPT ![e] = at]
  /\ UNCHANGED now

TakenBack(e) ==
  /\ e \in MayBeTakenBack
  /\ Done(e)
  /\ e = "itAsked" => ~Done("itDone")
  /\ changed < MaxChanged /\ changed' = changed + 1
  /\ when' = [when EXCEPT ![e] = 0]
  /\ UNCHANGED now

Tick ==
  /\ now < MaxTime
  /\ now' = now + 1
  /\ UNCHANGED <<when, changed>>

TimelineNext == Tick \/ \E e \in Events : Happen(e) \/ HappenAgain(e) \/ TakenBack(e)

TimelineSpec == TimelineInit /\ [][TimelineNext]_tvars

-----------------------------------------------------------------------------
(* Properties *)

(* A sheet waits for the onboarding and an appointment letter for the final
   verification; both stand above what they wait for when the dates are equal. *)
ToldBefore(e) ==
  CASE e = "sentUp"    -> Needs[e] \ {"started"}
    [] e = "appointed" -> Needs[e] \ {"verified"}
    [] OTHER           -> Needs[e]

(* The history holds every event there is a date of, by date, and what could only
   happen after something else stands below it even when their dates are equal, the
   sheet and the appointment letter aside (timeline, sortTimeline). *)
TimelineTold ==
  LET place == SortTimeline IN
  /\ DOMAIN place = {e \in Events : Done(e)}
  /\ {place[e] : e \in DOMAIN place} = 1..Cardinality(DOMAIN place)
  /\ \A e, f \in DOMAIN place : when[e] < when[f] => place[e] < place[f]
  /\ \A e \in DOMAIN place : \A n \in ToldBefore(e) \cap DOMAIN place :
       when[n] <= when[e] => place[n] < place[e]
=============================================================================
