------------------------ MODULE MCRequisitionChain ------------------------
(***************************************************************************)
(* One requisition.  One run tells three stories, and `story` says which:   *)
(* "chain", how it is signed off; "list", how its candidates are paged      *)
(* through; "history", what is printed of one who is hired.  No handler of  *)
(* one touches what another is about.                                       *)
(*                                                                         *)
(* Two requests in flight at a time and a board of two: enough for two     *)
(* handlers to interleave on one step, for the chain to grow by both of    *)
(* its appended steps, and for two members to answer at once.              *)
(***************************************************************************)
EXTENDS RequisitionChain, Register, Timeline, TLC

CONSTANTS r1, r2, m1, m2

MCRequests == {r1, r2}
MCMembers == {m1, m2}

(* Three candidates, the last two of one name: of any scores, of any stages, or
   with mobiles and e-mails in common. *)
ThreeCandidates == 1..3
TheirNames == <<1, 2, 2>>

Plainest == [at |-> "here", stage |-> "APPLIED", score |-> Nil, viewed |-> FALSE,
               email |-> 0, phone |-> 0, plain |-> TRUE]
Absent == [Plainest EXCEPT !.at = "none"]

SomeTables ==
  {t \in [ThreeCandidates -> {Absent} \cup {[Plainest EXCEPT !.score = n] : n \in {Nil, 20, 75}}] :
     t[1] # Absent}
  \cup [ThreeCandidates -> {Absent} \cup {[Plainest EXCEPT !.stage = s] : s \in {"APPLIED", "INTERVIEW"}}]
  \cup {t \in [ThreeCandidates -> {[Plainest EXCEPT !.at = a, !.email = e, !.phone = p] :
                                     a \in {"here", "elsewhere"}, e \in 0..1, p \in 0..1}] :
          /\ t[2].at = "here" /\ t[3].at = "here"
          /\ t[2].email = 1 /\ t[3].email = 1 /\ t[3].phone = 1}

SomeQueries ==
  {[sort |-> "match",  stage |-> Nil,         min |-> Nil, size |-> 1],
   [sort |-> "name",   stage |-> Nil,         min |-> Nil, size |-> 1],
   [sort |-> "recent", stage |-> "INTERVIEW", min |-> Nil, size |-> 1],
   [sort |-> "recent", stage |-> Nil,         min |-> 75,  size |-> 2]}

VARIABLE story

StoriesInit ==
  /\ Init /\ RegisterInit /\ TimelineInit
  /\ story \in {"chain", "list", "history"}
  /\ story # "list" => \A c \in Candidates : rows[c] = Absent

StoriesNext ==
  \/ story = "chain" /\ Next /\ UNCHANGED <<gvars, tvars, story>>
  \/ story = "list" /\ RegisterNext /\ UNCHANGED <<vars, tvars, story>>
  \/ story = "history" /\ TimelineNext /\ UNCHANGED <<vars, gvars, story>>

Stories == StoriesInit /\ [][StoriesNext]_<<vars, gvars, tvars, story>>

(* What is shown of the candidates of a requisition is what there is: who is
   listed, what is counted, and one hire's history (candidates.service.ts). *)
ShownAsTheyAre ==
  /\ story = "list" => RegisterTold
  /\ story = "history" => TimelineTold

Symmetric == Permutations(Requests) \cup Permutations(Members)
=============================================================================
