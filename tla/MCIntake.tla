------------------------------ MODULE MCIntake ------------------------------
(***************************************************************************)
(* Two requests in flight at a time.  One run tells five stories, and       *)
(* `story` says which: "advert", how a requisition is posted on BDJobs;     *)
(* "code", how an applicant proves an address; "intake", how the CVs of one *)
(* applicant with two mails come in; "referrals", who is thanked for those  *)
(* an employee referred; "account", one account, locked by two wrong        *)
(* passwords, whose reset code two wrong guesses cancel.                    *)
(***************************************************************************)
EXTENDS Intake, Referrals, Account, Publication, EmailCode, TLC

CONSTANTS r1, r2, m1, m2

TwoRequests == {r1, r2}
TwoMails == {m1, m2}

(* Settings that work once a company is given, ones that never will, and none. *)
SomeTyped ==
  {[enabled |-> TRUE,  token |-> "none",    company |-> "keep",  url |-> "keep",  days |-> 1],
   [enabled |-> TRUE,  token |-> "genuine", company |-> "given", url |-> "keep",  days |-> 3],
   [enabled |-> TRUE,  token |-> "stale",   company |-> "keep",  url |-> "right", days |-> 3],
   [enabled |-> TRUE,  token |-> "none",    company |-> "blank", url |-> "wrong", days |-> 3],
   [enabled |-> FALSE, token |-> "none",    company |-> "keep",  url |-> "keep",  days |-> 3]}

VARIABLE story

StoriesInit ==
  /\ Init /\ ReferralsInit /\ AccountInit /\ PublicationInit /\ EmailCodeInit
  /\ story \in {"advert", "code", "intake", "referrals", "account"}
  /\ story # "advert" => server = [token |-> NoToken, company |-> FALSE, dev |-> FALSE]
  /\ story # "intake" => ~registry
  /\ story # "account" => user = NewUser

StoriesNext ==
  \/ story = "advert" /\ PublicationNext /\ UNCHANGED <<vars, rvars, avars, evars, story>>
  \/ story = "code" /\ EmailCodeNext /\ UNCHANGED <<vars, rvars, avars, pvars, story>>
  \/ story = "intake" /\ Next /\ UNCHANGED <<rvars, avars, pvars, evars, story>>
  \/ story = "referrals" /\ ReferralsNext /\ UNCHANGED <<vars, avars, pvars, evars, story>>
  \/ story = "account" /\ AccountNext /\ UNCHANGED <<vars, rvars, pvars, evars, story>>

Stories == StoriesInit /\ [][StoriesNext]_<<vars, rvars, avars, pvars, evars, story>>

Symmetric == Permutations(Requests) \cup Permutations(Mails)
=============================================================================
