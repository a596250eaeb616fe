------------------------------ MODULE MCAccess ------------------------------
(***************************************************************************)
(* A raiser, two people to name, the unit-wide path and one department's,  *)
(* and two requests in flight at a time.                                   *)
(*                                                                         *)
(* A second story is the directory: two employees come under one unit      *)
(* spelled two ways; the errands make four: three runs, two runs beside a  *)
(* correction, one run beside two corrections, and one beside units made   *)
(* and removed by hand.                                                    *)
(*                                                                         *)
(* Everything AccessStands says is said of `inTurn`, which is never TRUE   *)
(* again once it is FALSE; what comes after is not followed.               *)
(***************************************************************************)
EXTENDS Access, Directory, TLC

CONSTANTS r1, r2, p1, p2, raiser, dept

TwoRequests == {r1, r2}
TwoApprovers == {p1, p2}
OneDept == {dept}

TwoNames == {"Mill.", "Mill"}

NameKey(name) == "mill"

From(one, two) == ("e1" :> one) @@ ("e2" :> two)

Sent(counts, address, unit, area) ==
  [counts |-> counts, email |-> address, unit |-> unit, area |-> area]

MCFeeds ==
  {From(Sent(TRUE, "x", "Mill.", "dye"), Sent(TRUE, "y", "Mill", Unset)),
   From(Sent(FALSE, "x", Unset, Unset), Sent(TRUE, "x", Unset, "dye"))}

RunsAnd(sync, edit, unit, area) ==
  [k \in Requested |-> CASE k = "sync" -> sync [] k = "edit" -> edit [] k = "unit" -> unit
                         [] k = "area" -> area]

MCErrands == {RunsAnd(3, 0, 0, 0), RunsAnd(2, 1, 0, 0), RunsAnd(1, 2, 0, 0), RunsAnd(1, 0, 2, 2)}

VARIABLE story

StoriesInit ==
  /\ Init /\ DirectoryInit
  /\ story \in {"access", "directory"}
  /\ story = "access" => errands = RunsAnd(3, 0, 0, 0)

StoriesNext ==
  \/ story = "access" /\ inTurn /\ Next /\ UNCHANGED <<zvars, story>>
  \/ story = "directory" /\ DirectoryNext /\ UNCHANGED <<vars, story>>

Stories == StoriesInit /\ [][StoriesNext]_<<vars, zvars, story>>

Symmetric == Permutations(Requests) \cup Permutations(Approvers)
=============================================================================
