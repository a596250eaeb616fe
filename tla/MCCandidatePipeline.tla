------------------------ MODULE MCCandidatePipeline ------------------------
(***************************************************************************)
(* Two requests in flight and two kinds of interview.  The budgets make    *)
(* one run cover two kinds of story: four requests about the rounds, as    *)
(* many as it takes to undo an absence beside a replacement, or five about *)
(* the hand-off, the Head and the stage beside one round.  `story` tells    *)
(* three more: jobs that screen and match two people, three changes to one *)
(* session with two guests and two times, and in "desk" two hires under     *)
(* the lists and batches of the Head of Talent Acquisition and the Central  *)
(* Medical Officers.                                                       *)
(***************************************************************************)
EXTENDS CandidatePipeline, Sourcing, Sessions, OnboardingDesk, TLC

CONSTANTS r1, r2, k1, k2, p1, ann, ben, h1, h2

TwoRequests == {r1, r2}
TwoKinds == {k1, k2}
OnePanelist == {p1}
TwoPeople == {ann, ben}
TwoHires == {h1, h2}

RoundsOrMoves == {[rounds |-> 4, moves |-> 0], [rounds |-> 1, moves |-> 5]}

(* One box, or the panel with the time. *)
SomeForms ==
  {[Blank EXCEPT !.at = {t}] : t \in {NoTime, Slots}} \cup
  {[Blank EXCEPT !.panel = {guests}] : guests \in SUBSET Guests \ {{}}} \cup
  {[Blank EXCEPT !.status = {s}] : s \in {"scheduled", "cancelled"}} \cup
  {[Blank EXCEPT !.at = {Slots}, !.panel = {Guests}]}

Wants(ask, letters, finding, ruling, paper) ==
  [w \in Wanted |-> CASE w = "ask" -> ask [] w = "letters" -> letters [] w = "finding" -> finding
                      [] w = "ruling" -> ruling [] w = "paper" -> paper]

MCDemands == {Wants(2, 1, 0, 0, 0), Wants(1, 2, 0, 0, 0), Wants(0, 0, 2, 2, 0), Wants(0, 0, 3, 1, 0),
              Wants(1, 1, 1, 1, 0), Wants(0, 0, 0, 0, 4)}

VARIABLE story

StoriesInit ==
  /\ Init /\ SourcingInit /\ SessionsInit /\ DeskInit
  /\ story \in {"pipeline", "sourcing", "sessions", "desk"}
  /\ story # "pipeline" => stage = "applied" /\ left.moves = 0
  /\ story # "desk" => demands = Wants(0, 0, 0, 0, 4)

On(it, step, others) == story = it /\ step /\ UNCHANGED <<others, story>>

StoriesNext ==
  \/ On("pipeline", Next, <<svars, cvars, dvars>>)
  \/ On("sourcing", SourcingNext, <<vars, cvars, dvars>>)
  \/ On("sessions", SessionsNext, <<vars, svars, dvars>>)
  \/ On("desk", DeskNext, <<vars, svars, cvars>>)

Stories == StoriesInit /\ [][StoriesNext]_<<vars, svars, cvars, dvars, story>>

Symmetric ==
  Permutations(Requests) \cup Permutations(Kinds) \cup Permutations(People)
=============================================================================
