-------------------------------- MODULE Lists --------------------------------
(***************************************************************************)
(* What the code does to arrays: filter and map are SelectSeq and Each,     *)
(* slice(0, n) is AtMost, sort is Sorted, which keeps the order of equals,  *)
(* find is FirstIn.                                                         *)
(***************************************************************************)
EXTENDS Integers, Sequences, FiniteSets

CONSTANT Blank    \* what is not there

Members(s) == {s[i] : i \in DOMAIN s}

Each(s, Op(_)) == [i \in DOMAIN s |-> Op(s[i])]

AtMost(n, s) == IF Len(s) > n THEN SubSeq(s, 1, n) ELSE s

(* The first member of s that is in S. *)
FirstIn(s, S) ==
  LET at == {i \in DOMAIN s : s[i] \in S}
  IN  IF at = {} THEN Blank ELSE s[CHOOSE i \in at : \A j \in at : i <= j]

Sorted(s, Before(_, _)) ==
  LET ahead(i) == {j \in DOMAIN s : \/ Before(s[j], s[i])
                                    \/ j < i /\ ~Before(s[i], s[j])}
  IN  [k \in DOMAIN s |-> s[CHOOSE i \in DOMAIN s : Cardinality(ahead(i)) = k - 1]]

(* Of members with one key the first stays. *)
Deduped(s, Key(_)) ==
  LET first == {i \in DOMAIN s : \A j \in DOMAIN s : j < i => Key(s[j]) # Key(s[i])}
      kept(k) == CHOOSE i \in first : Cardinality({j \in first : j < i}) = k - 1
  IN  [k \in 1..Cardinality(first) |-> s[kept(k)]]
=============================================================================
