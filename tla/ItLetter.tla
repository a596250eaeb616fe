------------------------------ MODULE ItLetter ------------------------------
(***************************************************************************)
(* What the request to IT says (it-account-request.service): whose accounts *)
(* are to be deleted now that the hire replaces them, who is copied, the    *)
(* dialog that starts from the directory and from the last request, the     *)
(* mail that may fail after the row was written, and IT's answer.           *)
(*                                                                          *)
(* Whether the request may be made at all, its link and its end are in      *)
(* Onboarding.  The wording of the mails and how long a link lives are left *)
(* out; two leavers have different names, as draft matches them by name.    *)
(***************************************************************************)
EXTENDS Naturals, Sequences, FiniteSets

CONSTANTS
  Senders,    \* requests under way at the same time
  Leavers,    \* the people the hire replaces
  Transferred,\* those of them who move within the group
  Colleagues, \* people HR may copy
  Mailboxes,  \* e-mail addresses
  ItAddress,  \* where requests to IT go
  Turns       \* bound: how often each kind of request is made

TurnKinds == {"draft", "change", "answer"}

ASSUME TurnsAssumption == Turns \subseteq [TurnKinds -> Nat] /\ Transferred \subseteq Leavers
ASSUME SendersAssumption == IsFiniteSet(Senders)

VARIABLES
  known,     \* the address the directory has of each person, if any
  letterRow, \* the ItAccountRequest row
  dialog,    \* what each sender has before them and remembers
  reader,    \* the request as IT's page read it, and what was ticked there
  turns,     \* history: how many more requests are made
  outbox,    \* history: every mail to IT that left, in order
  chosen,    \* history: leavers HR has ticked by hand
  alone      \* history: no two sends met and none died before its mail

ivars == <<known, letterRow, dialog, reader, turns, outbox, chosen, alone>>

-----------------------------------------------------------------------------
(* Values *)

NoMailbox == "none"

Persons == Leavers \cup Colleagues

Boxes == Mailboxes \cup {NoMailbox}

(* Of each leaver the address to delete, or none when they are left out. *)
AskedOf == [Leavers -> Boxes]

NobodyAsked == [l \in Leavers |-> NoMailbox]

(* `said` is deletionsDone: the addresses IT ticked; `answered` is completedAt. *)
LetterRow == [sends : Nat, asked : AskedOf, cc : SUBSET Colleagues, link : Nat,
              answered : BOOLEAN, said : SUBSET Mailboxes]

NoLetter == [sends |-> 0, asked |-> NobodyAsked, cc |-> {}, link |-> 0, answered |-> FALSE,
             said |-> {}]

Dialog == [at : {"none", "open", "save", "mail", "undo"}, asked : AskedOf, ticked : SUBSET Leavers,
           cc : SUBSET Colleagues, was : LetterRow, link : Nat]

Shut == [at |-> "none", asked |-> NobodyAsked, ticked |-> {}, cc |-> {}, was |-> NoLetter,
            link |-> 0]

ItLetterTypeOK ==
  /\ known \in [Persons -> Boxes]
  /\ letterRow \in LetterRow
  /\ dialog \in [Senders -> Dialog]
  /\ reader \in [open : BOOLEAN, asked : AskedOf, said : SUBSET Mailboxes]
  /\ turns \in [TurnKinds -> Nat]
  /\ \A i \in DOMAIN outbox : outbox[i] \in [asked : AskedOf, cc : SUBSET Colleagues, link : Nat]
  /\ chosen \subseteq Leavers
  /\ alone \in BOOLEAN

Turn(kind) == turns[kind] > 0 /\ turns' = [turns EXCEPT ![kind] = @ - 1]

UnderWay == {s \in Senders : dialog[s].at \in {"save", "mail", "undo"}}

(* A link nobody was sent. *)
NextLink == Len(outbox) + Cardinality(UnderWay) + letterRow.link + 1

-----------------------------------------------------------------------------
(* The dialog *)

(* leavers: the directory has the address, and nobody who only moves is ticked. *)
TickedAtFirst == {l \in Leavers : known[l] # NoMailbox /\ l \notin Transferred}

AskedBefore == {l \in Leavers : letterRow.asked[l] # NoMailbox}

(* draft: "a re-send starts from what was asked last time, including an address HR typed
   because the directory had none", and copies the same people. *)
Draft(s) ==
  /\ dialog[s].at = "none" /\ Turn("draft")
  /\ ~letterRow.answered
  /\ dialog' = [dialog EXCEPT ![s] =
       [Shut EXCEPT
          !.at = "open",
          !.asked = [l \in Leavers |-> IF known[l] # NoMailbox THEN known[l] ELSE letterRow.asked[l]],
          !.ticked = IF letterRow.sends > 0 THEN AskedBefore ELSE TickedAtFirst,
          !.cc = letterRow.cc]]
  /\ UNCHANGED <<known, letterRow, reader, outbox, chosen, alone>>

(* HR ticks somebody and types the address if there is none, or unticks somebody. *)
Tick(s) ==
  \E l \in Leavers, box \in Mailboxes :
    /\ dialog[s].at = "open" /\ Turn("change")
    /\ \/ /\ l \in dialog[s].ticked
          /\ dialog' = [dialog EXCEPT ![s].ticked = @ \ {l}]
          /\ UNCHANGED chosen
       \/ /\ l \notin dialog[s].ticked
          /\ dialog' = [dialog EXCEPT ![s].ticked = @ \cup {l},
                                      ![s].asked[l] = IF @ = NoMailbox THEN box ELSE @]
          /\ chosen' = chosen \cup {l}
    /\ UNCHANGED <<known, letterRow, reader, outbox, alone>>

Copy(s) ==
  \E c \in Colleagues :
    /\ dialog[s].at = "open" /\ Turn("change")
    /\ dialog' = [dialog EXCEPT ![s].cc = IF c \in @ THEN @ \ {c} ELSE @ \cup {c}]
    /\ UNCHANGED <<known, letterRow, reader, outbox, chosen, alone>>

(* The sync, or HR, gives somebody an address. *)
LearnAddress ==
  \E p \in Persons, box \in Boxes :
    /\ Turn("change")
    /\ known' = [known EXCEPT ![p] = box]
    /\ UNCHANGED <<letterRow, dialog, reader, outbox, chosen, alone>>

-----------------------------------------------------------------------------
(* Sending *)

(* onCc: whoever the mail goes to already is not copied, and of two with one address one. *)
OnCc(picks) ==
  {cc \in SUBSET {c \in picks : known[c] # ItAddress} :
     /\ \A c, d \in cc : c # d => known[c] # known[d]
     /\ {known[c] : c \in cc} = {known[c] : c \in picks} \ {ItAddress}}

(* validate and resolveCc: everybody ticked or copied has an address. *)
SendIt(s) ==
  \E cc \in OnCc(dialog[s].cc) :
    /\ dialog[s].at = "open"
    /\ ~letterRow.answered
    /\ \A l \in dialog[s].ticked : dialog[s].asked[l] # NoMailbox
    /\ \A c \in cc : known[c] # NoMailbox
    /\ dialog' = [dialog EXCEPT ![s] =
         [@ EXCEPT !.at = "save", !.cc = cc, !.was = letterRow, !.link = NextLink,
                   !.asked = [l \in Leavers |->
                                IF l \in dialog[s].ticked THEN dialog[s].asked[l] ELSE NoMailbox]]]
    /\ alone' = (alone /\ UnderWay = {})
    /\ UNCHANGED <<known, letterRow, reader, turns, outbox, chosen>>

(* "Saved before it is mailed, so the link works the moment it lands." *)
SaveLetter(s) ==
  /\ dialog[s].at = "save"
  /\ letterRow' = [letterRow EXCEPT !.sends = @ + 1, !.asked = dialog[s].asked,
                                    !.cc = dialog[s].cc, !.link = dialog[s].link]
  /\ dialog' = [dialog EXCEPT ![s].at = "mail"]
  /\ UNCHANGED <<known, reader, turns, outbox, chosen, alone>>

MailLetterToIt(s) ==
  /\ dialog[s].at = "mail"
  /\ \/ /\ outbox' = Append(outbox, [asked |-> dialog[s].asked, cc |-> dialog[s].cc,
                                     link |-> dialog[s].link])
        /\ dialog' = [dialog EXCEPT ![s] = Shut]
     \/ /\ dialog' = [dialog EXCEPT ![s].at = "undo"]
        /\ UNCHANGED outbox
  /\ UNCHANGED <<known, letterRow, reader, turns, chosen, alone>>

(* Variant: only the link is put back. *)
LinkAsRead(s) == [letterRow EXCEPT !.sends = dialog[s].was.sends, !.link = dialog[s].was.link]

(* undo: everything but the answer is put back as it was read. *)
AsRead(s) ==
  [dialog[s].was EXCEPT !.answered = letterRow.answered, !.said = letterRow.said]

UndoLetter(s) ==
  /\ dialog[s].at = "undo"
  /\ letterRow' = IF dialog[s].was.sends = 0 THEN NoLetter ELSE AsRead(s)
  /\ dialog' = [dialog EXCEPT ![s] = Shut]
  /\ UNCHANGED <<known, reader, turns, outbox, chosen, alone>>

(* The dialog is closed, or the process restarts. *)
Dismiss(s) ==
  /\ dialog[s].at # "none"
  /\ alone' = (alone /\ s \notin UnderWay)
  /\ dialog' = [dialog EXCEPT ![s] = Shut]
  /\ UNCHANGED <<known, letterRow, reader, turns, outbox, chosen>>

-----------------------------------------------------------------------------
(* IT *)

Holds(link) == \E i \in DOMAIN outbox : outbox[i].link = link

(* completeByToken: by the link of a mail that left, if that is still the row's, IT says
   which of the accounts asked for on the page are gone. *)
ReadByToken ==
  \E said \in SUBSET Mailboxes :
    /\ ~reader.open /\ Turn("answer")
    /\ letterRow.sends > 0 /\ Holds(letterRow.link) /\ ~letterRow.answered
    /\ reader' = [open |-> TRUE, asked |-> letterRow.asked, said |-> said]
    /\ UNCHANGED <<known, letterRow, dialog, outbox, chosen, alone>>

(* "One answer only": the row is claimed by its id, and what was done is worked out from
   the deletions that were read. *)
ClaimAnswer ==
  /\ reader.open
  /\ reader' = [reader EXCEPT !.open = FALSE]
  /\ letterRow' = IF letterRow.answered \/ letterRow.sends = 0 THEN letterRow
                  ELSE [letterRow EXCEPT !.answered = TRUE,
                          !.said = {reader.asked[l] : l \in Leavers} \cap reader.said]
  /\ alone' = (alone /\ reader.asked = letterRow.asked /\ UnderWay = {})
  /\ UNCHANGED <<known, dialog, turns, outbox, chosen>>

-----------------------------------------------------------------------------

ItLetterInit ==
  /\ known \in [Persons -> Boxes]
  /\ letterRow = NoLetter
  /\ dialog = [s \in Senders |-> Shut]
  /\ reader = [open |-> FALSE, asked |-> NobodyAsked, said |-> {}]
  /\ turns \in Turns
  /\ outbox = << >>
  /\ chosen = {}
  /\ alone = TRUE

ItLetterNext ==
  \/ LearnAddress \/ ReadByToken \/ ClaimAnswer
  \/ \E s \in Senders :
       \/ Draft(s) \/ Tick(s) \/ Copy(s) \/ SendIt(s) \/ SaveLetter(s) \/ MailLetterToIt(s)
       \/ UndoLetter(s) \/ Dismiss(s)

ItLetterSpec == ItLetterInit /\ [][ItLetterNext]_ivars

-----------------------------------------------------------------------------
(* Properties *)

LastMail == outbox[Len(outbox)]

(* "The link inside a mail that never left must not be the live one": the request on the
   row, its accounts, its copies and its link, is the one in the last mail that left,
   however many sends failed (send, undo). *)
RowIsLastMail ==
  alone /\ UnderWay = {} =>
    IF outbox = << >> THEN letterRow.sends = 0
    ELSE /\ letterRow.asked = LastMail.asked /\ letterRow.cc = LastMail.cc
         /\ letterRow.link = LastMail.link

(* Nobody who only moves within the group is in a mail to IT unless HR ticked them,
   through every draft that starts from the one before (leavers, draft). *)
MoversKept ==
  \A i \in DOMAIN outbox, l \in Transferred : outbox[i].asked[l] # NoMailbox => l \in chosen

(* IT's answer speaks of no account but those of the mail it answers (completeByToken). *)
AnsweredAsAsked ==
  alone /\ letterRow.answered =>
    letterRow.said \subseteq {LastMail.asked[l] : l \in Leavers}

(* The request IT has, the row and IT's answer agree. *)
ItLetterStands == RowIsLastMail /\ MoversKept /\ AnsweredAsAsked
=============================================================================
