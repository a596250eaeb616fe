----------------------------- MODULE Register -----------------------------
(***************************************************************************)
(* The list of one requisition's candidates as it is paged through, with    *)
(* the figures above it, the export of it, and "Applied 3x" on a row with   *)
(* the history it opens (candidates.service.ts: list, exportCandidates,     *)
(* applyHistory, markViewed; apply-identity.ts).                            *)
(*                                                                         *)
(* A page is several queries, each of which sees the rows as they are by    *)
(* then, and no order breaks ties: equal rows come in any order each time.  *)
(* A candidate is a number, in the order they applied.  A score and the     *)
(* time of the screening are one write, so one without the other is not     *)
(* kept apart.  The search, the columns, the workbook's layout and the CVs  *)
(* a page has read in the background are left out.                          *)
(***************************************************************************)
EXTENDS Integers, Sequences, FiniteSets

CONSTANTS
  Candidates,     \* 1..n
  Named,          \* their names, as a function to numbers
  Populations,    \* what the table may hold at first
  Queries,        \* what may be asked for
  Nil,            \* no score, no filter
  MaxChanges      \* bound: changes to the table

VARIABLES
  rows,        \* the candidates table
  list,        \* the reader's query and the pages so far
  figures,     \* the figures above the page on screen
  since,       \* history: what changed since the reader opened page 1
  first,       \* history: who was there then
  changes      \* history: changes made

gvars == <<rows, list, figures, since, first, changes>>

-----------------------------------------------------------------------------
(* Values *)

CandidateStages == {"APPLIED", "INTERVIEW", "SELECTED", "REJECTED"}
Finalist == {"INTERVIEW", "SELECTED"}

(* `at`: not there or deleted, on this requisition, or on another one.  An e-mail
   and a mobile are numbers, 0 for none; `plain` says the last ten characters of
   the mobile as stored are its digits. *)
Row == [at : {"none", "here", "elsewhere"}, stage : CandidateStages, score : 0..100 \cup {Nil},
        viewed : BOOLEAN, email : Nat, phone : Nat, plain : BOOLEAN]

Query == [sort : {"name", "recent", "match"}, stage : CandidateStages \cup {Nil},
          min : 0..100 \cup {Nil}, size : Nat \ {0}]

(* A page asks for its rows and their count at once, then for the bands and the
   stages at once: which are still to come. *)
Querying == {"both", "rows", "count", "figures", "bands", "stages"}

NoFigures == [all |-> 0, stages |-> [s \in CandidateStages |-> 0], bands |-> <<0, 0, 0, 0>>,
              unscreened |-> 0, notViewed |-> 0, finalists |-> 0]

NoList == [step |-> "none", query |-> [sort |-> "match", stage |-> Nil, min |-> Nil, size |-> 1],
           page |-> 0, shown |-> <<>>, total |-> 0]

RegisterTypeOK ==
  /\ rows \in [Candidates -> Row]
  /\ list.step \in {"none", "page"} \cup Querying
  /\ list.query \in Query
  /\ Cardinality(DOMAIN list.shown) <= Cardinality(Candidates) * Cardinality(Candidates)
  /\ since \in {"still", "arrivals", "moved"}
  /\ first \subseteq Candidates
  /\ changes \in Nat

RegisterInit ==
  /\ rows \in Populations
  /\ list = NoList
  /\ figures = NoFigures
  /\ since = "still"
  /\ first = {}
  /\ changes = 0

-----------------------------------------------------------------------------
(* One page *)

Here == {c \in Candidates : rows[c].at = "here"}

AtLeast(c, score) == rows[c].score # Nil /\ rows[c].score >= score

(* where *)
Matching(q) ==
  {c \in Here : /\ q.stage = Nil \/ rows[c].stage = q.stage
                /\ q.min = Nil \/ AtLeast(c, q.min)}

(* orderBy: the best match first and those without a score last. *)
Above(a, b, sort) ==
  CASE sort = "name"   -> Named[a] < Named[b]
    [] sort = "recent" -> a > b
    [] sort = "match"  -> AtLeast(a, 0) /\ ~AtLeast(b, rows[a].score)

Ordered(q) ==
  LET S == Matching(q) IN
  {s \in [1..Cardinality(S) -> S] :
     \A i, j \in DOMAIN s : i < j => s[i] # s[j] /\ ~Above(s[j], s[i], q.sort)}

Untied(q) == Cardinality(Ordered(q)) = 1

(* skip and take *)
PageOf(s, page, size) ==
  SubSeq(s, (page - 1) * size + 1, IF page * size < Len(s) THEN page * size ELSE Len(s))

TotalPages(q, total) == IF total = 0 THEN 1 ELSE (total + q.size - 1) \div q.size

Open(q) ==
  /\ list.step = "none"
  /\ list' = [NoList EXCEPT !.step = "both", !.query = q, !.page = 1]
  /\ since' = "still"
  /\ first' = Matching(q)
  /\ UNCHANGED <<rows, figures, changes>>

NextPage ==
  /\ list.step = "page"
  /\ list.page < TotalPages(list.query, list.total)
  /\ list' = [list EXCEPT !.step = "both", !.page = @ + 1]
  /\ UNCHANGED <<rows, figures, since, first, changes>>

FindMany ==
  /\ list.step \in {"both", "rows"}
  /\ \E s \in Ordered(list.query) :
       list' = [list EXCEPT !.step = IF @ = "both" THEN "count" ELSE "figures",
                  !.shown = @ \o PageOf(s, list.page, list.query.size)]
  /\ UNCHANGED <<rows, figures, since, first, changes>>

Count ==
  /\ list.step \in {"both", "count"}
  /\ list' = [list EXCEPT !.step = IF @ = "both" THEN "rows" ELSE "figures",
                !.total = Cardinality(Matching(list.query))]
  /\ UNCHANGED <<rows, figures, since, first, changes>>

(* Variant: a band begins above its lowest score. *)
InOpenBand(c, low, high) == AtLeast(c, low + 1) /\ ~AtLeast(c, high)

InBand(c, low, high) == AtLeast(c, low) /\ ~AtLeast(c, high)

(* The figures are of all the requisition's candidates, whatever the filter. *)
Bands ==
  /\ list.step \in {"figures", "bands"}
  /\ LET band(low, high) == Cardinality({c \in Here : InBand(c, low, high)}) IN
     figures' = [figures EXCEPT
       !.bands = <<band(90, 101), band(75, 90), band(50, 75), band(25, 50)>>,
       !.unscreened = Cardinality({c \in Here : rows[c].score = Nil}),
       !.notViewed = Cardinality({c \in Here : ~rows[c].viewed})]
  /\ list' = [list EXCEPT !.step = IF @ = "figures" THEN "stages" ELSE "page"]
  /\ UNCHANGED <<rows, since, first, changes>>

StageCounts ==
  /\ list.step \in {"figures", "stages"}
  /\ figures' = [figures EXCEPT
       !.finalists = Cardinality({c \in Here : rows[c].stage \in Finalist}),
       !.stages = [s \in CandidateStages |-> Cardinality({c \in Here : rows[c].stage = s})],
       !.all = Cardinality(Here)]
  /\ list' = [list EXCEPT !.step = IF @ = "figures" THEN "bands" ELSE "page"]
  /\ UNCHANGED <<rows, since, first, changes>>

-----------------------------------------------------------------------------
(* Who else they are *)

(* sameApplicantPool.  The query means to strip everything but digits from the
   mobiles it compares, but its \D reaches the database as the letter D, so a
   mobile is found as it is stored: by its last ten characters. *)
Pool(asked) ==
  {c \in Candidates : /\ rows[c].at # "none"
                      /\ \E a \in asked :
                           \/ rows[c].email # 0 /\ rows[c].email = rows[a].email
                           \/ rows[c].phone # 0 /\ rows[c].plain /\ rows[c].phone = rows[a].phone}

(* sameApplicant, among those of the pool: a mobile is its last ten digits. *)
SameApplicant(who, pool) ==
  {c \in pool : \/ c = who
                \/ rows[c].email # 0 /\ rows[c].email = rows[who].email
                \/ rows[c].phone # 0 /\ rows[c].phone = rows[who].phone}

(* applyCounts: the row itself counts, fetched or not. *)
ApplyCount(who, shown) == Cardinality(SameApplicant(who, Pool(shown)) \cup {who})

(* Variant: those on this requisition only. *)
HistoryHere(who) == SameApplicant(who, Pool({who})) \cap Here

ApplyHistory(who) ==
  LET found == SameApplicant(who, Pool({who})) IN IF found = {} THEN {who} ELSE found

-----------------------------------------------------------------------------
(* What changes meanwhile *)

Changes(kind) ==
  /\ changes < MaxChanges /\ changes' = changes + 1
  /\ rows' # rows
  /\ since' = IF kind = "arrivals" /\ since # "moved" /\ list.step \notin Querying \ {"both"}
                THEN kind ELSE "moved"
  /\ UNCHANGED <<list, figures, first>>

Arrive(c) ==
  /\ \A d \in Candidates : d >= c => rows[d].at = "none"
  /\ rows' = [rows EXCEPT ![c] = [@ EXCEPT !.at = "here", !.stage = "APPLIED", !.score = Nil,
                                          !.viewed = FALSE]]
  /\ Changes("arrivals")

Delete(c) ==
  /\ rows[c].at = "here"
  /\ rows' = [rows EXCEPT ![c].at = "none"]
  /\ Changes("moved")

(* Whoever has only applied is turned down when somebody is selected. *)
Update(c) ==
  /\ rows[c].at = "here"
  /\ \E s \in CandidateStages :
       rows' = [d \in Candidates |->
                  IF d = c THEN [rows[d] EXCEPT !.stage = s]
                  ELSE IF s = "SELECTED" /\ d \in Here /\ rows[d].stage = "APPLIED"
                    THEN [rows[d] EXCEPT !.stage = "REJECTED"] ELSE rows[d]]
  /\ Changes("moved")

(* The same form, for how they are reached. *)
Correct(c) ==
  /\ rows[c].at = "here"
  /\ \E d \in Candidates, plain \in BOOLEAN :
       /\ plain \/ rows[d].phone # 0
       /\ rows' = [rows EXCEPT ![c] = [@ EXCEPT !.email = rows[d].email, !.phone = rows[d].phone,
                                                !.plain = plain]]
  /\ Changes("moved")

(* Once; a second look writes nothing. *)
MarkViewed(c) ==
  /\ rows[c].at = "here"
  /\ ~rows[c].viewed
  /\ rows' = [rows EXCEPT ![c].viewed = TRUE]
  /\ Changes("moved")

RegisterNext ==
  \/ \E q \in Queries : Open(q)
  \/ NextPage \/ FindMany \/ Count \/ Bands \/ StageCounts
  \/ \E c \in Candidates : Arrive(c) \/ Delete(c) \/ Update(c) \/ Correct(c) \/ MarkViewed(c)

RegisterSpec == RegisterInit /\ [][RegisterNext]_gvars

-----------------------------------------------------------------------------
(* Properties *)

Through == list.step = "page" /\ list.page >= TotalPages(list.query, list.total)

Shown == {list.shown[i] : i \in DOMAIN list.shown}

(* The export is the list without its pages. *)
ExportCandidates(q) == Ordered(q)

(* Whoever pages to the end has seen everyone, in the order of the export and
   once each, if nothing changed; and if candidates only arrived, between two
   pages, has missed nobody who was there.  Ties aside (list, exportCandidates). *)
PagedThrough ==
  Through /\ Untied(list.query) =>
    /\ since = "still" => list.shown \in ExportCandidates(list.query)
    /\ since = "arrivals" => first \subseteq Shown

(* Each figure above an undisturbed page is the length of the list it opens, and
   together they leave out only scores below the bands (list). *)
FiguresAgree ==
  list.step = "page" /\ since = "still" =>
    /\ list.query.min = Nil =>
         list.total = IF list.query.stage = Nil THEN figures.all ELSE figures.stages[list.query.stage]
    /\ figures.all = figures.stages["APPLIED"] + figures.stages["INTERVIEW"]
                       + figures.stages["SELECTED"] + figures.stages["REJECTED"]
    /\ figures.all - figures.unscreened
         = figures.bands[1] + figures.bands[2] + figures.bands[3] + figures.bands[4]
             + Cardinality({c \in Here : AtLeast(c, 0) /\ ~AtLeast(c, 25)})

(* What "Applied 3x" says on a page is the length of the history it opens:
   apply-identity.ts says the two cannot count differently (applyCounts,
   applyHistory). *)
CountsAgree ==
  since = "still" =>
    \A c \in Shown : ApplyCount(c, Shown) = Cardinality(ApplyHistory(c))

(* As long as every mobile is stored as its digits, they do not. *)
CountsAgreePlain == (\A c \in Candidates : rows[c].plain) => CountsAgree

RegisterTold == PagedThrough /\ FiguresAgree /\ CountsAgreePlain
=============================================================================
