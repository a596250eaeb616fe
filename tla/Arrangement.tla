---------------------------- MODULE Arrangement ----------------------------
(***************************************************************************)
(* What HR is promised about one facility of a new colleague: several      *)
(* people may be asked to arrange it, "any one confirming marks it         *)
(* arranged", and a refusal stands only until somebody confirms            *)
(* (facility-provisioning.service.ts).                                     *)
(***************************************************************************)

VARIABLE standing   \* what the facility's line says

TypeOK == standing \in {"idle", "waiting", "refused", "arranged"}

Init == standing = "idle"

Ask == standing = "idle" /\ standing' = "waiting"

Refuse == standing = "waiting" /\ standing' = "refused"

Confirm == standing \in {"waiting", "refused"} /\ standing' = "arranged"

Next == Ask \/ Refuse \/ Confirm

Spec == Init /\ [][Next]_standing
=============================================================================
