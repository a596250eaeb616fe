---------------------------- MODULE MCOnboarding ----------------------------
(***************************************************************************)
(* Two requests in flight.  One run tells four stories, and `story` says   *)
(* which; no handler of one touches what another is about.                  *)
(*                                                                          *)
(* In "onboarding" the budgets make three: papers with one medical, a       *)
(* medical found, decided and found again, and a verified hire with five    *)
(* moves of HR, the board and IT around the request.                        *)
(*                                                                          *)
(* In "joining" they make five: three sends of one letter, four saves of    *)
(* numbers, one Code of Conduct among two documents, three documents by     *)
(* themselves, and a facility asked of two people.                          *)
(*                                                                          *)
(* In "archive" two documents and a reference check are filed and archived, *)
(* and in "it" one of two people replaced moves within the group, whoever   *)
(* may be copied has an address at first, and IT is asked up to three times.*)
(***************************************************************************)
EXTENDS Onboarding, Joining, Archive, ItLetter, TLC

CONSTANTS r1, r2

TwoRequests == {r1, r2}

MCBudgets == {[papers |-> 4, medical |-> 1, it |-> 0], [papers |-> 1, medical |-> 5, it |-> 0],
              [papers |-> 1, medical |-> 2, it |-> 5]}

Of(kind, n) == [k \in Kinds |-> IF k = kind THEN n ELSE 0]

MCAllowances ==
  {Of("letter", 3), Of("numbers", 4), Of("facility", 5), Of("check", 4),
   [Of("check", 3) EXCEPT !["conduct"] = 3]}

Orders3(upload, reference, archive) ==
  [k \in Ordered |-> CASE k = "upload" -> upload [] k = "reference" -> reference
                       [] k = "archive" -> archive]

MCOrders == {Orders3(2, 2, 2), Orders3(2, 0, 3)}

Turns3(draft, change, answer) ==
  [k \in TurnKinds |-> CASE k = "draft" -> draft [] k = "change" -> change
                         [] k = "answer" -> answer]

MCTurns == {Turns3(2, 1, 1), Turns3(1, 2, 1), Turns3(3, 0, 1)}

VARIABLE story

StoriesInit ==
  /\ Init /\ JoiningInit /\ ArchiveInit /\ ItLetterInit
  /\ story \in {"onboarding", "joining", "archive", "it"}
  /\ story # "onboarding" => left.it = 5 /\ board
  /\ story # "joining" => allowed = Of("letter", 3)
  /\ story # "archive" => orders = Orders3(2, 2, 2)
  /\ story # "it" => turns = Turns3(3, 0, 1) /\ \A p \in Persons : known[p] = NoMailbox
  /\ story = "it" => \A c \in Colleagues : known[c] # NoMailbox

On(it, step, others) == story = it /\ step /\ UNCHANGED <<others, story>>

StoriesNext ==
  \/ On("onboarding", Next, <<jvars, avars, ivars>>)
  \/ On("joining", JoiningNext, <<vars, avars, ivars>>)
  \/ On("archive", ArchiveNext, <<vars, jvars, ivars>>)
  \/ On("it", ItLetterNext, <<vars, jvars, avars>>)

Stories == StoriesInit /\ [][StoriesNext]_<<vars, jvars, avars, ivars, story>>

Symmetric == Permutations(Requests)
=============================================================================
