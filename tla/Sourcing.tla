------------------------------ MODULE Sourcing ------------------------------
(***************************************************************************)
(* Two background jobs of one open requisition: screening its CVs, whose    *)
(* progress lives in a map of the process, and matching the Talent Bank to  *)
(* it, whose matches replace the ones before (candidates.service).          *)
(*                                                                          *)
(* A person may have two candidate rows: one in the Bank, left by an older  *)
(* requisition, and the copy of it in this requisition's pipeline.          *)
(***************************************************************************)
EXTENDS Integers, FiniteSets

CONSTANTS
  Workers,     \* requests, events and jobs that can be under way at the same time
  People,      \* people with a CV
  MaxJobs      \* bound: jobs begun

ASSUME JobsAssumption == MaxJobs \in Nat /\ IsFiniteSet(People)

VARIABLES
  screened,    \* Candidate.screenedAt: whose copy has been screened
  job,         \* screeningJobs: what the process knows of the requisition's job
  bank,        \* people whose row in the Talent Bank can be recalled
  matches,     \* TalentBankMatch: the people matched to the requisition
  pipeline,    \* people with a live copy in the requisition's pipeline
  hired,       \* people whose copy has an onboarding
  worker,      \* where each job has come to
  begun,       \* history: jobs begun
  told,        \* history: people the recruiters were told are matched
  lost         \* history: people a stopped job would have told of

svars == <<screened, job, bank, matches, pipeline, hired, worker, begun, told, lost>>

-----------------------------------------------------------------------------
(* Values *)

ScreeningJob == [done : 0..Cardinality(People), total : 0..Cardinality(People), active : BOOLEAN]

NoJob == [done |-> 0, total |-> 0, active |-> FALSE]

(* A screening has people `todo` out of `total`; a matching has read who     *)
(* was matched before (`existing`), and takes `todo` from the Bank.          *)
Worker ==
  [step : {"none", "count", "screen", "match", "replace", "tell"}, todo : SUBSET People,
   total : 0..Cardinality(People), existing : SUBSET People]

NoWork == [step |-> "none", todo |-> {}, total |-> 0, existing |-> {}]

SourcingTypeOK ==
  /\ {screened, bank, matches, pipeline, hired, told, lost} \subseteq SUBSET People
  /\ job \in ScreeningJob
  /\ worker \in [Workers -> Worker]
  /\ begun \in 0..MaxJobs

Begins(w, work) ==
  /\ worker[w].step = "none"
  /\ begun < MaxJobs /\ begun' = begun + 1
  /\ worker' = [worker EXCEPT ![w] = work]

-----------------------------------------------------------------------------
(* Screening *)

(* A job that is under way answers for the new one. *)
ScreenRequisition(w) ==
  /\ ~job.active
  /\ Begins(w, [NoWork EXCEPT !.step = "count"])
  /\ UNCHANGED <<screened, job, bank, matches, pipeline, hired, told, lost>>

(* Those in the pipeline who were never screened, read before the job is noted. *)
StartJob(w) ==
  LET pending == pipeline \ screened
      total == Cardinality(pending)
  IN /\ worker[w].step = "count"
     /\ IF pending # {}
          THEN /\ job' = [done |-> 0, total |-> total, active |-> TRUE]
               /\ worker' = [worker EXCEPT ![w] = [@ EXCEPT !.step = "screen", !.todo = pending,
                                                            !.total = total]]
          ELSE UNCHANGED job /\ worker' = [worker EXCEPT ![w] = NoWork]
     /\ UNCHANGED <<screened, bank, matches, pipeline, hired, begun, told, lost>>

(* One at a time; one that fails counts as done. *)
ScreenNext(w) ==
  \E p \in worker[w].todo, scored \in BOOLEAN :
    LET left == worker[w].todo \ {p}
        done == worker[w].total - Cardinality(left)
    IN /\ worker[w].step = "screen"
       /\ screened' = IF scored THEN screened \cup {p} ELSE screened
       /\ job' = [done |-> done, total |-> worker[w].total, active |-> done < worker[w].total]
       /\ worker' = [worker EXCEPT ![w] = IF left = {} THEN NoWork ELSE [@ EXCEPT !.todo = left]]
       /\ UNCHANGED <<bank, matches, pipeline, hired, begun, told, lost>>

(* A CV that has just arrived, or the next of a batch that arrived together, *)
(* is screened by itself, where that is switched on.                         *)
AutoScreen(p) ==
  /\ p \in pipeline \ screened
  /\ screened' = screened \cup {p}
  /\ UNCHANGED <<job, bank, matches, pipeline, hired, worker, begun, told, lost>>

-----------------------------------------------------------------------------
(* Talent Bank matches *)

(* Variant: who was matched before is read when the matches are written. *)
NewLate(w) == worker[w].todo \ matches

New(w) == worker[w].todo \ worker[w].existing

(* The requisition is published, a day has passed, or somebody rescans.    *)
(* The person's row in the pool, then the matches so far, are read.        *)
SyncTalentBankMatches(w) ==
  /\ IF bank = {}
       THEN /\ worker[w].step = "none" /\ matches' = {}
            /\ UNCHANGED <<worker, begun>>
       ELSE /\ Begins(w, [NoWork EXCEPT !.step = "match", !.todo = bank, !.existing = matches])
            /\ UNCHANGED matches
  /\ UNCHANGED <<screened, job, bank, pipeline, hired, told, lost>>

(* External: the language model picks out of the people it was shown, or fails. *)
MatchTalentBank(w) ==
  /\ worker[w].step = "match"
  /\ \/ \E fresh \in SUBSET worker[w].todo :
          worker' = [worker EXCEPT ![w].step = "replace", ![w].todo = fresh]
     \/ worker' = [worker EXCEPT ![w] = NoWork]
  /\ UNCHANGED <<screened, job, bank, matches, pipeline, hired, begun, told, lost>>

ReplaceMatches(w) ==
  /\ worker[w].step = "replace"
  /\ matches' = worker[w].todo
  /\ worker' = [worker EXCEPT ![w].step = "tell"]
  /\ UNCHANGED <<screened, job, bank, pipeline, hired, begun, told, lost>>

TellOfMatches(w) ==
  /\ worker[w].step = "tell"
  /\ told' = told \cup New(w)
  /\ worker' = [worker EXCEPT ![w] = NoWork]
  /\ UNCHANGED <<screened, job, bank, matches, pipeline, hired, begun, lost>>

(* listTalentBankMatches shows only those whose row can still be recalled. *)
Offered == matches \cap bank

(* The Bank row of somebody not hired from it is copied into the pipeline, *)
(* one live copy to an address.                                            *)
CopyToRequisition(p) ==
  /\ p \in bank \ pipeline
  /\ pipeline' = pipeline \cup {p}
  /\ UNCHANGED <<screened, job, bank, matches, hired, worker, begun, told, lost>>

-----------------------------------------------------------------------------
(* Everything else *)

(* HR puts a row in the Bank or takes it out, or its own onboarding begins. *)
ChangeBank(p) ==
  /\ bank' = IF p \in bank THEN bank \ {p} ELSE bank \cup {p}
  /\ UNCHANGED <<screened, job, matches, pipeline, hired, worker, begun, told, lost>>

(* The copy gets an onboarding; the row it was copied from is not touched. *)
Hire(p) ==
  /\ p \in pipeline \ hired
  /\ hired' = hired \cup {p}
  /\ UNCHANGED <<screened, job, bank, matches, pipeline, worker, begun, told, lost>>

(* The process stops: its map goes with it. *)
RestartSourcing ==
  /\ job # NoJob \/ \E w \in Workers : worker[w].step # "none"
  /\ job' = NoJob
  /\ worker' = [w \in Workers |-> NoWork]
  /\ lost' = lost \cup UNION {worker[w].todo : w \in {v \in Workers : worker[v].step = "tell"}}
  /\ UNCHANGED <<screened, bank, matches, pipeline, hired, begun, told>>

SourcingInit ==
  /\ screened = {} /\ job = NoJob /\ bank = {} /\ matches = {} /\ pipeline = {} /\ hired = {}
  /\ worker = [w \in Workers |-> NoWork]
  /\ begun = 0 /\ told = {} /\ lost = {}

SourcingNext ==
  \/ \E w \in Workers :
       \/ ScreenRequisition(w) \/ StartJob(w) \/ ScreenNext(w)
       \/ SyncTalentBankMatches(w) \/ MatchTalentBank(w) \/ ReplaceMatches(w) \/ TellOfMatches(w)
  \/ \E p \in People : AutoScreen(p) \/ CopyToRequisition(p) \/ ChangeBank(p) \/ Hire(p)
  \/ RestartSourcing

SourcingSpec == SourcingInit /\ [][SourcingNext]_svars

-----------------------------------------------------------------------------
(* Properties *)

(* When no screening is at work the progress bar is not left turning, which *)
(* would also refuse every later screening until the process restarts, even *)
(* after two jobs that overlapped (candidates.service:1933, 2007).          *)
BarSettles == (\A w \in Workers : worker[w].step # "screen") => ~job.active

(* Whoever is matched to the requisition has been announced to those who    *)
(* recruit for it, or the job that matched them is about to, however many   *)
(* jobs overlap; only a process that stops in between keeps quiet.          *)
MatchesAnnounced ==
  \A p \in matches \ (told \cup lost) :
    \E w \in Workers : worker[w].step = "tell" /\ p \in worker[w].todo \ worker[w].existing

(* Whatever overlaps, a job leaves neither a bar turning nor a match unannounced. *)
JobsSettle == BarSettles /\ MatchesAnnounced

(* "A not-yet-pruned row can never surface a candidate who left the pool or *)
(* joined" (candidates.service:2862-2863).                                  *)
JoinedIsNotOffered == Offered \cap hired = {}
=============================================================================
