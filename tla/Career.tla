------------------------------- MODULE Career --------------------------------
(***************************************************************************)
(* The working life a CV tells, as the one profile every sheet reads: from  *)
(* a document the model has read (cv-extract), or from what Bdjobs sends    *)
(* (bdjobs-cv.mapper, and bdjobs-profile.adapter before it where a profile  *)
(* comes flat).                                                             *)
(*                                                                          *)
(* A date is a day, NoDate where it is left out or cannot be read; months   *)
(* have MonthDays days.  Of what a profile holds, this has the jobs and     *)
(* the schooling; all else is copied field by field.  No CV here states a   *)
(* total of its own, which would be printed in place of the one worked out. *)
(***************************************************************************)
EXTENDS Lists

LOCAL INSTANCE SequencesExt

CONSTANTS
  Histories,    \* bound: the CVs that come in
  Today, MonthDays,
  ReadOn,       \* bound: the days on which an interviewer reads the brief
  KeyOf         \* a company's name as names are compared, case and marks apart

ASSUME CareerAssumption ==
  /\ Today \in Nat /\ MonthDays \in Nat \ {0}
  /\ \A day \in ReadOn : day \in Nat /\ day >= Today

VARIABLES
  cv,       \* what came in
  profile   \* Candidate.cvProfile

fvars == <<cv, profile>>

NoDate == -1

-----------------------------------------------------------------------------
(* Service: jobs that overlap are counted once *)

Month(day) == day \div MonthDays

Until(job) == IF job.to # NoDate /\ job.to <= Today THEN job.to ELSE Today

Spans(jobs) ==
  LET dated == SelectSeq(jobs, LAMBDA j : j.from # NoDate /\ j.from <= Until(j))
  IN  Sorted(Each(dated, LAMBDA j : [from |-> j.from, to |-> Until(j)]),
             LAMBDA s, t : s.from < t.from)

AppendSpan(merged, span) == Append(merged, span)

AddSpan(merged, span) ==
  LET last == merged[Len(merged)]
  IN  IF merged = <<>> \/ last.to < span.from THEN Append(merged, span)
      ELSE [merged EXCEPT ![Len(merged)].to = IF span.to > last.to THEN span.to ELSE last.to]

MonthsOf(span) == Month(span.to) - Month(span.from)

MergedMonths(jobs) ==
  FoldLeft(LAMBDA n, s : n + MonthsOf(s), 0, FoldLeft(AddSpan, <<>>, Spans(jobs)))

-----------------------------------------------------------------------------
(* From a document, in the order the model read it *)

Held(row) ==
  [company |-> row.company, from |-> row.from,
   to |-> IF row.now THEN NoDate ELSE row.to,
   current |-> row.now \/ (row.to = NoDate /\ row.from # NoDate)]

Extracted(form) ==
  LET jobs == SelectSeq(Each(form.jobs, Held), LAMBDA j : j.company # Blank)
      schooling == SelectSeq(Each(form.schools, LAMBDA e :
                                [school |-> IF e.school = Blank THEN e.degree ELSE e.school,
                                 year |-> e.year]),
                             LAMBDA e : e.school # Blank)
  IN  [jobs |-> jobs, schools |-> schooling]

(* A reading that found nothing is not kept, so that it is tried again. *)
Worth(form) == form.jobs # <<>> \/ form.schools # <<>>

-----------------------------------------------------------------------------
(* From Bdjobs: latest first, rows sent twice once *)

Posted(row) ==
  [company |-> row.company, from |-> row.from, to |-> row.to,
   current |-> row.to = NoDate \/ row.to >= Today]

Ended(job) == IF job.to = NoDate THEN job.from ELSE job.to

LaterJob(a, b) == Ended(a) > Ended(b) \/ (Ended(a) = Ended(b) /\ a.from > b.from)

JobsOf(rows) ==
  Sorted(SelectSeq(Deduped(Each(rows, Posted), LAMBDA j : <<j.company, j.from, j.to>>),
                   LAMBDA j : j.company # Blank),
         LaterJob)

SchoolsOf(rows) ==
  Sorted(SelectSeq(Deduped(Each(rows, LAMBDA e :
                              [school |-> IF e.school = Blank THEN e.university ELSE e.school,
                               year |-> e.year]),
                           LAMBDA e : <<e.school, e.year>>),
                   LAMBDA e : e.school # Blank),
         LAMBDA d, e : d.year > e.year)

Mapped(form) == [jobs |-> JobsOf(form.jobs), schools |-> SchoolsOf(form.schools)]

(* A flat profile with no history names the present employer, and may name the *)
(* school apart; one that says none of it is no CV.                            *)
CarriesCv(form) == Worth(form) \/ form.employer # Blank \/ form.institution # Blank

Flattened(form) ==
  [jobs |-> IF form.jobs # <<>> \/ form.employer = Blank THEN form.jobs
            ELSE <<[company |-> form.employer, from |-> NoDate, to |-> NoDate]>>,
   schools |-> IF form.schools # <<>> \/ form.institution = Blank THEN form.schools
               ELSE <<[school |-> form.institution, university |-> Blank, year |-> 0]>>]

-----------------------------------------------------------------------------
(* The profile *)

Current(jobs) == {j \in Members(jobs) : j.current}

LastJob(jobs) ==
  IF jobs = <<>> THEN Blank
  ELSE IF Current(jobs) = {} THEN jobs[1].company ELSE FirstIn(jobs, Current(jobs)).company

Summarised(held) ==
  [jobs |-> held.jobs, schools |-> held.schools, months |-> MergedMonths(held.jobs),
   employed |-> Current(held.jobs) # {}, last |-> LastJob(held.jobs),
   school |-> IF held.schools = <<>> THEN Blank ELSE held.schools[1].school]

ReadCv(form) ==
  /\ form.source = "upload"
  /\ Worth(Extracted(form))
  /\ profile' = Summarised(Extracted(form))

ReceiveCv(form) ==
  /\ form.source = "bdjobs"
  /\ profile' = Summarised(Mapped(form))

ReceiveFlat(form) ==
  /\ form.source = "flat"
  /\ CarriesCv(form)
  /\ profile' = Summarised(Mapped(Flattened(form)))

-----------------------------------------------------------------------------
(* The brief beside the evaluation form, worked out on the day it is read: the jobs with *)
(* one company under its name, and the service in all as the profile states it.          *)

MonthsOn(day, jobs) ==
  LET until(j) == IF j.current \/ j.to = NoDate \/ j.to > day THEN day ELSE j.to
      dated == SelectSeq(jobs, LAMBDA j : j.from # NoDate /\ j.from <= until(j))
      spans == Sorted(Each(dated, LAMBDA j : [from |-> j.from, to |-> until(j)]),
                      LAMBDA s, t : s.from < t.from)
  IN  FoldLeft(LAMBDA n, s : n + MonthsOf(s), 0, FoldLeft(AddSpan, <<>>, spans))

(* jobRow, of one job. *)
Duration(day, job) == MonthsOn(day, <<job>>)

Companies(day, jobs) ==
  LET roles(name) == SelectSeq(jobs, LAMBDA j : KeyOf[j.company] = KeyOf[name])
      heads == Deduped(Each(jobs, LAMBDA j : j.company), LAMBDA name : KeyOf[name])
  IN  Each(heads, LAMBDA name : [company |-> name, roles |-> roles(name),
                                 total |-> MonthsOn(day, roles(name))])

BuildCandidateBrief(day) ==
  [companies |-> Companies(day, profile.jobs),
   totalService |-> IF profile.months > 0 THEN profile.months ELSE MonthsOn(day, profile.jobs)]

CareerInit == cv \in Histories /\ profile = Blank

CareerNext ==
  /\ profile = Blank
  /\ ReadCv(cv) \/ ReceiveCv(cv) \/ ReceiveFlat(cv)
  /\ UNCHANGED cv

CareerSpec == CareerInit /\ [][CareerNext]_fvars

-----------------------------------------------------------------------------
(* Properties *)

(* The service on the sheet the board reads is the number of months that began *)
(* while the candidate held some job, whatever the order and the overlaps.     *)
ServiceOnce ==
  LET served(month) == \E j \in Members(profile.jobs) :
                         j.from # NoDate /\ Month(j.from) < month /\ month <= Month(Until(j))
                           /\ j.from <= Until(j)
  IN  profile # Blank => profile.months = Cardinality({m \in 1..Month(Today) : served(m)})

(* The last employer is one the candidate is still with, where there is such;  *)
(* as Bdjobs tells it, no other job ended, and no other schooling, later.      *)
LatestStands ==
  profile # Blank =>
    /\ profile.employed => \E j \in Current(profile.jobs) : j.company = profile.last
    /\ cv.source # "upload" =>
         /\ profile.jobs # <<>> =>
              \E j \in Members(profile.jobs) :
                j.company = profile.last
                  /\ \A k \in Members(profile.jobs) : k.current => j.current
         /\ ~profile.employed =>
              \A j \in Members(profile.jobs) :
                \E k \in Members(profile.jobs) : k.company = profile.last /\ Ended(k) >= Ended(j)
         /\ \A e \in Members(profile.schools) :
              \E f \in Members(profile.schools) : f.school = profile.school /\ f.year >= e.year

(* No job that names its company is lost on the way, and none counts twice.    *)
RowsKept ==
  profile # Blank =>
    /\ {r.company : r \in Members(cv.jobs)} \ {Blank} \subseteq
         {j.company : j \in Members(profile.jobs)}
    /\ cv.source # "upload" =>
         Cardinality(Members(profile.jobs)) = Len(profile.jobs)

(* Every job stands once in the brief, under the first name its company was given; no    *)
(* company took longer than all together, but for the months since the CV came in, nor    *)
(* less than any job there, and all together no longer than the companies one by one.     *)
BriefAdds ==
  profile # Blank =>
    \A day \in ReadOn :
      LET brief == BuildCandidateBrief(day)
          rows == brief.companies
          all == FoldLeft(LAMBDA n, row : n + row.total, 0, rows)
          since == Month(day) - Month(Today)
      IN  /\ FoldLeft(LAMBDA n, row : n + Len(row.roles), 0, rows) = Len(profile.jobs)
          /\ \A i, j \in DOMAIN rows : KeyOf[rows[i].company] = KeyOf[rows[j].company] => i = j
          /\ brief.totalService <= all
          /\ \A row \in Members(rows) :
               /\ row.roles[1].company = row.company
               /\ row.total <= brief.totalService + since
               /\ \A j \in Members(row.roles) : Duration(day, j) <= row.total

(* What the sheets say of a working life is what the CV says. *)
CareerAsTold == ServiceOnce /\ LatestStands /\ RowsKept /\ BriefAdds
=============================================================================
