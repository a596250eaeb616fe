------------------------------ MODULE Sessions ------------------------------
(***************************************************************************)
(* When one arranged interview takes place and who is called to it: the     *)
(* round, the weeks its marking links are good for, and its event in        *)
(* Google's calendar, which is written by calls that may fail or go         *)
(* unanswered (interview.service, calendar.service).                        *)
(*                                                                          *)
(* Every time is in the future, and everybody on a panel takes e-mail; the  *)
(* candidate's own place on the invitation is left out.  Who may act, and   *)
(* what becomes of links and marks when a panel changes while others are at *)
(* it, is in CandidatePipeline.                                             *)
(***************************************************************************)
EXTENDS Integers

CONSTANTS
  Editors,    \* requests that can be under way at the same time
  Guests,     \* people who can sit on the panel
  Slots,      \* bound: the times are 1..Slots
  Forms,      \* bound: the forms sent to change a round, each with the boxes it fills
  MaxEvents,  \* bound: events made in the calendar
  MaxEdits    \* bound: requests made

ASSUME SlotsAssumption == Slots \in Nat \ {0} /\ MaxEvents \in Nat /\ MaxEdits \in Nat

VARIABLES
  session,    \* InterviewRound
  tokens,     \* EvaluationToken.expiresAt: the time a week before it, of each guest's link
  marked,     \* guests who have marked by their link
  calendar,   \* Google's calendar
  editor,     \* where each request has come to
  edits,      \* history: requests made
  settled,    \* history: the last change was told to Google and answered, with nobody else at it
  renewed,    \* history: so was the last move of the time, to the links, and every link since
  strayed     \* history: Google left a call undone, or events were written over one another

cvars == <<session, tokens, marked, calendar, editor, edits, settled, renewed, strayed>>

-----------------------------------------------------------------------------
(* Values *)

NoTime == 0
Unlinked == -1
Times == NoTime..Slots

(* A box of a form that is not sent is the empty set. *)
Option(S) == {{}} \cup {{x} : x \in S}

Session == [status : {"none", "scheduled", "completed", "cancelled", "absent", "removed"},
            at : Times, panel : SUBSET Guests, event : 0..MaxEvents]

NoSession == [status |-> "none", at |-> NoTime, panel |-> {}, event |-> 0]

Event == [live : BOOLEAN, at : Times, guests : SUBSET Guests]

NoEvent == [live |-> FALSE, at |-> NoTime, guests |-> {}]

Boxed == [at : Option(Times), panel : Option(SUBSET Guests),
          status : Option({"scheduled", "completed", "cancelled", "absent"})]

Blank == [at |-> {}, panel |-> {}, status |-> {}]

ASSUME FormsAssumption == Forms \subseteq Boxed

(* `seen` is the round as the request read it, `off` and `people` who loses a *)
(* link and who gets one, `next` what follows, `event` what Google made.       *)
Steps == {"none", "save", "move", "append", "resend", "relink", "renew", "sync", "insert",
          "record", "patch", "cancel", "forget", "delete", "drop"}

Editor == [step : Steps, next : Steps, seen : Session, boxes : Boxed, off : SUBSET Guests,
           people : SUBSET Guests, event : 0..MaxEvents, alone : BOOLEAN]

AtRest == [step |-> "none", next |-> "none", seen |-> NoSession, boxes |-> Blank, off |-> {},
           people |-> {}, event |-> 0, alone |-> TRUE]

SessionsTypeOK ==
  /\ session \in Session
  /\ tokens \in [Guests -> Unlinked..Slots]
  /\ marked \subseteq Guests
  /\ calendar \in [1..MaxEvents -> Event]
  /\ editor \in [Editors -> Editor]
  /\ edits \in 0..MaxEdits
  /\ {settled, renewed, strayed} \subseteq BOOLEAN

Filled(box, old) == IF box = {} THEN old ELSE CHOOSE x \in box : TRUE

Standing == session.status \notin {"none", "removed"}

Busy == {s \in Editors : editor[s].step # "none"}

(* Somebody calls: nobody else under way is alone with the round any more. *)
Calls(s, request) ==
  /\ editor[s].step = "none" /\ edits < MaxEdits /\ edits' = edits + 1
  /\ editor' = [t \in Editors |-> IF t = s THEN [request EXCEPT !.alone = Busy = {}]
                                  ELSE [editor[t] EXCEPT !.alone = FALSE]]

Goes(s, step) == editor' = [editor EXCEPT ![s].step = step]

Rests(s) == editor' = [editor EXCEPT ![s] = AtRest]

-----------------------------------------------------------------------------
(* Arranging and changing the round *)

(* With no other round of the kind; the event is made from the round as created. *)
Schedule(s) ==
  \E at \in Times, panel \in SUBSET Guests :
    LET round == [status |-> "scheduled", at |-> at, panel |-> panel, event |-> 0]
    IN /\ session.status = "none"
       /\ session' = round
       /\ Calls(s, [AtRest EXCEPT !.step = "relink", !.seen = round, !.people = panel,
                                  !.next = IF at = NoTime THEN "none" ELSE "insert"])
       /\ UNCHANGED <<tokens, marked, calendar, settled, renewed, strayed>>

(* Not absent once somebody has marked. *)
Update(s) ==
  \E boxes \in Forms :
    /\ Standing
    /\ boxes.status = {"absent"} => marked = {}
    /\ Calls(s, [AtRest EXCEPT !.step = "save", !.seen = session, !.boxes = boxes])
    /\ UNCHANGED <<session, tokens, marked, calendar, settled, renewed, strayed>>

(* A time sent beside a panel reaches only the links made for newcomers. *)
SaveUpdate(s) ==
  LET boxes == editor[s].boxes
      panel == Filled(boxes.panel, {})
  IN /\ editor[s].step = "save" /\ Standing
     /\ session' = [session EXCEPT !.at = Filled(boxes.at, @), !.panel = Filled(boxes.panel, @),
                                   !.status = Filled(boxes.status, @)]
     /\ editor' = [editor EXCEPT ![s] =
          IF boxes.panel # {}
            THEN [editor[s] EXCEPT !.step = "relink", !.next = "sync", !.people = panel,
                                   !.off = editor[s].seen.panel \ panel,
                                   !.seen.at = Filled(boxes.at, @)]
            ELSE [@ EXCEPT !.step = IF boxes.at \in {{}, {NoTime}} THEN "sync" ELSE "renew"]]
     /\ settled' = FALSE
     /\ renewed' = (renewed /\ boxes.at = {})
     /\ UNCHANGED <<tokens, marked, calendar, edits, strayed>>

(* rescheduleRefusal: only an interview that has not happened, and to another time. *)
Reschedule(s) ==
  \E to \in Times \ {NoTime} :
    /\ session.status = "scheduled" /\ marked = {} /\ session.at # to
    /\ Calls(s, [AtRest EXCEPT !.step = "move", !.seen = session, !.boxes.at = {to}])
    /\ UNCHANGED <<session, tokens, marked, calendar, settled, renewed, strayed>>

SaveReschedule(s) ==
  /\ editor[s].step = "move" /\ Standing
  /\ session' = [session EXCEPT !.at = Filled(editor[s].boxes.at, @)]
  /\ editor' = [editor EXCEPT ![s].step = "renew"]
  /\ settled' = FALSE /\ renewed' = FALSE
  /\ UNCHANGED <<tokens, marked, calendar, edits, strayed>>

(* Every link nobody has marked by is good for a week after the new time. *)
Renewed(at) ==
  [p \in Guests |-> IF tokens[p] # Unlinked /\ p \notin marked THEN at ELSE tokens[p]]

Renew(s) ==
  /\ editor[s].step = "renew" /\ Standing
  /\ tokens' = Renewed(Filled(editor[s].boxes.at, NoTime))
  /\ renewed' = editor[s].alone
  /\ editor' = [editor EXCEPT ![s].step = "sync"]
  /\ UNCHANGED <<session, marked, calendar, edits, settled, strayed>>

(* Only somebody new to the panel, and only while the round is to come. *)
AddGuests(s) ==
  \E people \in SUBSET (Guests \ session.panel) \ {{}} :
    /\ session.status = "scheduled"
    /\ Calls(s, [AtRest EXCEPT !.step = "append", !.seen = session, !.people = people])
    /\ UNCHANGED <<session, tokens, marked, calendar, settled, renewed, strayed>>

(* The calendar hears nothing of those added. *)
SeatGuests(s) ==
  /\ editor[s].step = "append" /\ Standing
  /\ session' = [session EXCEPT !.panel = @ \cup editor[s].people]
  /\ editor' = [editor EXCEPT ![s].step = "relink"]
  /\ settled' = FALSE
  /\ UNCHANGED <<tokens, marked, calendar, edits, renewed, strayed>>

(* Those taken off lose their link and newcomers get one, good for a week   *)
(* after the time as read; a link that is there stays as it is.              *)
Relink(s) ==
  LET e == editor[s]
  IN /\ e.step = "relink" /\ Standing
     /\ tokens' = [p \in Guests |->
          IF p \in e.people /\ tokens[p] = Unlinked THEN e.seen.at
          ELSE IF p \in e.off THEN Unlinked ELSE tokens[p]]
     /\ renewed' = (renewed /\ e.alone)
     /\ editor' = [editor EXCEPT ![s] = IF e.next = "none" THEN AtRest ELSE [@ EXCEPT !.step = e.next]]
     /\ UNCHANGED <<session, marked, calendar, edits, settled, strayed>>

(* A new link for one guest, good for a week after the time as read. *)
ResendEvalToken(s) ==
  \E p \in session.panel :
    /\ Standing
    /\ Calls(s, [AtRest EXCEPT !.step = "resend", !.seen = session, !.people = {p}])
    /\ UNCHANGED <<session, tokens, marked, calendar, settled, renewed, strayed>>

CommitResend(s) ==
  /\ editor[s].step = "resend" /\ Standing
  /\ tokens' = [p \in Guests |-> IF p \in editor[s].people THEN editor[s].seen.at ELSE tokens[p]]
  /\ renewed' = (renewed /\ editor[s].alone)
  /\ Rests(s)
  /\ UNCHANGED <<session, marked, calendar, edits, settled, strayed>>

SubmitByToken(p) ==
  /\ tokens[p] # Unlinked /\ p \notin marked /\ session.status # "absent"
  /\ marked' = marked \cup {p}
  /\ UNCHANGED <<session, tokens, calendar, editor, edits, settled, renewed, strayed>>

(* What a request was to write is gone. *)
RowGone(s) ==
  /\ session.status = "removed"
  /\ editor[s].step \in Steps \ {"none", "record", "insert", "patch", "cancel", "delete"}
  /\ Rests(s)
  /\ UNCHANGED <<session, tokens, marked, calendar, edits, settled, renewed, strayed>>

-----------------------------------------------------------------------------
(* Google's calendar *)

(* Variant: a round called off has its event moved like any other. *)
CalledOffNever(round) == FALSE

CalledOff(round) == round.status = "cancelled"

(* The round is read afresh, and its event made, moved or called off. *)
Sync(s) ==
  /\ editor[s].step = "sync" /\ Standing
  /\ LET made == session.event # 0
         next == IF made /\ CalledOff(session) THEN "cancel"
                 ELSE IF session.at = NoTime THEN "none"
                 ELSE IF made THEN "patch"
                 ELSE IF session.status = "scheduled" THEN "insert" ELSE "none"
     IN editor' = [editor EXCEPT ![s] =
          IF next = "none" THEN AtRest ELSE [@ EXCEPT !.step = next, !.seen = session]]
  /\ UNCHANGED <<session, tokens, marked, calendar, edits, settled, renewed, strayed>>

EventOf(round) ==
  [live |-> TRUE, at |-> round.at, guests |-> round.panel]

(* Google makes the event; its answer may be lost, or it may make none. *)
CreateEvent(s) ==
  LET seen == editor[s].seen
      Answer(e) == editor' = [editor EXCEPT ![s].step = "record", ![s].event = e]
  IN /\ editor[s].step = "insert"
     /\ \/ \E e \in 1..MaxEvents :
             /\ calendar[e] = NoEvent /\ \A f \in 1..(e - 1) : calendar[f] # NoEvent
             /\ calendar' = [calendar EXCEPT ![e] = EventOf(seen)]
             /\ \/ Answer(e) /\ UNCHANGED strayed
                \/ Rests(s) /\ strayed' = TRUE
        \/ Rests(s) /\ UNCHANGED <<calendar, strayed>>
     /\ UNCHANGED <<session, tokens, marked, edits, settled, renewed>>

RecordEvent(s) ==
  /\ editor[s].step = "record"
  /\ session' = IF Standing THEN [session EXCEPT !.event = editor[s].event] ELSE session
  /\ settled' = editor[s].alone
  /\ strayed' = (strayed \/ ~Standing \/ session.event # 0)
  /\ Rests(s)
  /\ UNCHANGED <<tokens, marked, calendar, edits, renewed>>

UpdateEvent(s) ==
  LET e == editor[s].seen.event
  IN /\ editor[s].step = "patch"
     /\ \/ /\ calendar[e].live
           /\ calendar' = [calendar EXCEPT ![e] = EventOf(editor[s].seen)]
           /\ settled' = editor[s].alone
        \/ UNCHANGED <<calendar, settled>>
     /\ Rests(s)
     /\ UNCHANGED <<session, tokens, marked, edits, renewed, strayed>>

(* Whatever Google says, the event is given up afterwards. *)
CancelEvent(s, step, next) ==
  LET e == editor[s].seen.event
  IN /\ editor[s].step = step
     /\ \/ calendar' = [calendar EXCEPT ![e].live = FALSE] /\ UNCHANGED strayed
        \/ strayed' = TRUE /\ UNCHANGED calendar
     /\ settled' = FALSE
     /\ editor' = [editor EXCEPT ![s].step = next]
     /\ UNCHANGED <<session, tokens, marked, edits, renewed>>

Cancel(s) == CancelEvent(s, "cancel", "forget")

ForgetEvent(s) ==
  /\ editor[s].step = "forget" /\ Standing
  /\ session' = [session EXCEPT !.event = 0]
  /\ strayed' = (strayed \/ session.event # editor[s].seen.event)
  /\ settled' = editor[s].alone
  /\ Rests(s)
  /\ UNCHANGED <<tokens, marked, calendar, edits, renewed>>

RemoveRound(s) ==
  /\ Standing
  /\ Calls(s, [AtRest EXCEPT !.seen = session,
                             !.step = IF session.event = 0 THEN "drop" ELSE "delete"])
  /\ UNCHANGED <<session, tokens, marked, calendar, settled, renewed, strayed>>

Delete(s) == CancelEvent(s, "delete", "drop")

(* Panel, links and marks go with the round. *)
DropRound(s) ==
  /\ editor[s].step = "drop" /\ Standing
  /\ session' = [NoSession EXCEPT !.status = "removed"]
  /\ tokens' = [p \in Guests |-> Unlinked] /\ marked' = {}
  /\ strayed' = (strayed \/ session.event # editor[s].seen.event)
  /\ Rests(s)
  /\ UNCHANGED <<calendar, edits, settled, renewed>>

(* The process stops. *)
RestartSessions ==
  /\ Busy # {}
  /\ editor' = [s \in Editors |-> AtRest]
  /\ strayed' = (strayed \/ \E s \in Busy : editor[s].step = "record")
  /\ renewed' = (renewed /\ \A s \in Busy : editor[s].step # "renew")
  /\ UNCHANGED <<session, tokens, marked, calendar, edits, settled>>

-----------------------------------------------------------------------------
SessionsInit ==
  /\ session = NoSession
  /\ tokens = [p \in Guests |-> Unlinked] /\ marked = {}
  /\ calendar = [e \in 1..MaxEvents |-> NoEvent]
  /\ editor = [s \in Editors |-> AtRest] /\ edits = 0
  /\ settled = FALSE /\ renewed = TRUE /\ strayed = FALSE

SessionsNext ==
  \/ \E s \in Editors :
       \/ Schedule(s)        \/ Update(s)         \/ SaveUpdate(s)
       \/ Reschedule(s)      \/ SaveReschedule(s) \/ Renew(s)
       \/ AddGuests(s)       \/ SeatGuests(s)     \/ Relink(s)
       \/ ResendEvalToken(s) \/ CommitResend(s)   \/ RowGone(s)
       \/ Sync(s)            \/ CreateEvent(s)    \/ RecordEvent(s)
       \/ UpdateEvent(s)     \/ Cancel(s)         \/ ForgetEvent(s)
       \/ RemoveRound(s)     \/ Delete(s)         \/ DropRound(s)
  \/ \E p \in Guests : SubmitByToken(p)
  \/ RestartSessions

SessionsSpec == SessionsInit /\ [][SessionsNext]_cvars

-----------------------------------------------------------------------------
(* Properties *)

(* Whatever overlapped or failed before, once a change to a round that is   *)
(* to take place has been told to Google with nobody else at it, the        *)
(* round's event is there, at its time and with its panel; one called off   *)
(* has none; and no event outlives its round, its cancellation or another   *)
(* event made for it but by a call of Google's that came to nothing or by   *)
(* events written over one another (interview.service:1338-1391).           *)
CalendarFollows ==
  /\ settled /\ session.status = "scheduled" /\ session.at # NoTime =>
       session.event # 0 /\ calendar[session.event] = EventOf(session)
  /\ settled /\ session.status = "cancelled" => session.event = 0
  /\ ~strayed =>
       \A e \in 1..MaxEvents :
         calendar[e].live => e = session.event \/ \E s \in Busy : editor[s].event = e

(* The links of those on the panel who have not marked are good for a week  *)
(* after the interview at least, however it was moved, unless the last move *)
(* came with a panel or overlapped (interview.service:663-675, 755).        *)
LinksOutlive ==
  renewed /\ Busy = {} /\ session.status = "scheduled" =>
    \A p \in session.panel \ marked : tokens[p] # Unlinked => tokens[p] >= session.at

(* Who is called to the interview, and when, is what the round says. *)
InvitationsFollow == CalendarFollows /\ LinksOutlive
=============================================================================
