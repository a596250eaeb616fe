--------------------------- MODULE Publication ---------------------------
(***************************************************************************)
(* One requisition's advertisement on BDJobs and the settings it is posted  *)
(* with (bdjobs.service.ts: saveAndPost, buildPayload, testConnection;      *)
(* bdjobs-settings.service.ts).                                             *)
(*                                                                         *)
(* The form is saved first, then the settings are read, then BDJobs is      *)
(* asked, and only its answer moves the row.  BDJobs takes one listing per  *)
(* reference; its answer may be lost on the way back, and nothing may reach *)
(* it at all.  The fields copied from the form, the signature and the       *)
(* wording are left out; `sound` stands for a base URL and a signature      *)
(* template that BDJobs understands.                                        *)
(***************************************************************************)
EXTENDS Naturals

CONSTANTS
  Posters,     \* requests the API process can serve at the same time
  Genuine,     \* the token BDJobs knows
  Stale,       \* one it does not know
  Closings,    \* days until the requisition's closing date; 0: passed, none, or unreadable
  TypedIns,    \* what an administrator may have typed into the settings form
  MaxDays,     \* BDJobs' cap on the deadline (30 days)
  MaxPosts     \* bound: forms saved and settings written

(* The form offers a switch, a token, a company and a base URL, each to be kept or
   filled in, and a number of days, which is clamped. *)
ASSUME PostingAssumption ==
  /\ MaxDays \in Nat /\ MaxDays > 1 /\ MaxPosts \in Nat /\ Closings \subseteq Nat
  /\ Genuine # "none" /\ Stale # Genuine
  /\ TypedIns \subseteq [enabled : BOOLEAN, token : {"none", Genuine, Stale},
                         company : {"keep", "given", "blank"},
                         url : {"keep", "right", "wrong"}, days : 1..MaxDays]

VARIABLES
  advert,      \* the BdJobsPost row
  listed,      \* BDJobs' listings under the requisition's reference
  config,      \* the stored settings
  server,      \* what the server was started with
  posting,     \* what each request in flight remembers
  posts,       \* history: forms saved and settings written
  taken        \* history: every settings write so far found the row it had read

pvars == <<advert, listed, config, server, posting, posts, taken>>

-----------------------------------------------------------------------------
(* Values *)

NoToken == "none"
Tokens == {NoToken, Stale, Genuine}

(* A listing has its number, and the form and the deadline it was sent with. *)
Listing == [job : Nat, form : Nat, deadline : Nat]

BdJobsPost == [status : {"none", "draft", "posted", "failed"}, job : Nat, form : Nat,
               error : BOOLEAN]

BdJobsSettings == [enabled : BOOLEAN, token : Tokens, company : BOOLEAN, sound : BOOLEAN,
                   days : 1..MaxDays]

ShippedDays == MaxDays - 1
Shipped == [enabled |-> TRUE, token |-> NoToken, company |-> FALSE, sound |-> TRUE,
            days |-> ShippedDays]

NoPosting == [step |-> "none", saw |-> [status |-> "none", job |-> 0, form |-> 0, error |-> FALSE],
              settings |-> Shipped, read |-> Shipped, deadline |-> 1, answer |-> "none",
              job |-> 0, tested |-> FALSE]

(* The stored settings over those of the server. *)
Get(stored) ==
  [stored EXCEPT !.token = IF @ = NoToken THEN server.token ELSE @,
                 !.company = @ \/ server.company]

Configured(s) == s.token # NoToken /\ s.company

(* BDJobs authenticates before it reads. *)
Understood(s) == s.token = Genuine /\ s.company /\ s.sound

PublicationTypeOK ==
  /\ advert \in BdJobsPost
  /\ listed \subseteq Listing
  /\ config \in BdJobsSettings
  /\ posting \in [Posters -> [step : {"none", "settings", "send", "answer", "write"},
                              saw : BdJobsPost, settings : BdJobsSettings,
                              read : BdJobsSettings, deadline : 1..MaxDays,
                              answer : {"none", "created", "duplicate", "refused"},
                              job : Nat, tested : BOOLEAN]]
  /\ posts \in Nat
  /\ taken \in BOOLEAN

PublicationInit ==
  /\ advert = NoPosting.saw
  /\ listed = {}
  /\ config = Shipped
  /\ server \in [token : Tokens, company : BOOLEAN, dev : BOOLEAN]
  /\ posting = [p \in Posters |-> NoPosting]
  /\ posts = 0
  /\ taken = TRUE

Doing(p, step) == posting[p].step = step
Over(p) == posting' = [posting EXCEPT ![p] = NoPosting]
Posted == posts < MaxPosts /\ posts' = posts + 1

-----------------------------------------------------------------------------
(* Posting *)

(* HR's form is kept whatever happens next; the status stays as it was. *)
SaveAndPost(p) ==
  /\ Doing(p, "none")
  /\ Posted
  /\ advert' = IF advert.status = "none"
                 THEN [advert EXCEPT !.status = "draft", !.form = posts']
                 ELSE [advert EXCEPT !.form = posts', !.error = FALSE]
  /\ posting' = [posting EXCEPT ![p] = [NoPosting EXCEPT !.step = "settings", !.saw = advert']]
  /\ UNCHANGED <<listed, config, server, taken>>

(* It ends as a draft while posting is off or has no credentials, and ends at
   once when the row says the listing is up. *)
StaysHome(row, s) ==
  \/ ~s.enabled
  \/ ~Configured(s)
  \/ row.status = "posted" /\ row.job # 0
  \/ server.dev

(* Variant: a closing date that is over is sent as it is. *)
ClosingDay(closing, s) == IF closing <= s.days THEN closing ELSE s.days

(* The closing date, when it leaves BDJobs between a day and the configured
   number of days. *)
Deadline(closing, s) == IF closing \in 1..s.days THEN closing ELSE s.days

BuildPayload(p) ==
  /\ Doing(p, "settings")
  /\ LET s == Get(config) IN
     IF StaysHome(posting[p].saw, s)
       THEN Over(p)
       ELSE \E closing \in Closings :
              posting' = [posting EXCEPT ![p].step = "send", ![p].settings = s,
                                         ![p].deadline = Deadline(closing, s)]
  /\ UNCHANGED <<advert, listed, config, server, posts, taken>>

(* BDJobs answers a request that reaches it, and may refuse the fields. *)
Receive(p) ==
  /\ Doing(p, "send")
  /\ \E answer \in {"created", "duplicate", "refused"} :
       /\ answer = "refused" \/ Understood(posting[p].settings)
       /\ answer = "created" => listed = {}
       /\ answer = "duplicate" => listed # {}
       /\ listed' = IF answer = "created"
                      THEN {[job |-> posts, form |-> posting[p].saw.form,
                             deadline |-> posting[p].deadline]}
                      ELSE listed
       /\ posting' = [posting EXCEPT ![p].step = "answer", ![p].answer = answer,
                                     ![p].job = IF answer = "created" THEN posts ELSE 0]
  /\ UNCHANGED <<advert, config, server, posts, taken>>

(* What the row becomes with an answer; a duplicate says nothing of the number. *)
Answered(row, answer, job) ==
  CASE answer = "created"   -> [row EXCEPT !.status = "posted", !.job = job, !.error = FALSE]
    [] answer = "duplicate" -> [row EXCEPT !.status = "posted"]
    [] OTHER                -> [row EXCEPT !.status = "failed", !.error = TRUE]

CommitAnswer(p) ==
  /\ Doing(p, "answer")
  /\ advert' = Answered(advert, posting[p].answer, posting[p].job)
  /\ Over(p)
  /\ UNCHANGED <<listed, config, server, posts, taken>>

(* Nothing was heard in thirty seconds, before BDJobs was reached or after. *)
Unreachable(p) ==
  /\ Doing(p, "send") \/ Doing(p, "answer")
  /\ advert' = Answered(advert, "none", 0)
  /\ Over(p)
  /\ UNCHANGED <<listed, config, server, posts, taken>>

-----------------------------------------------------------------------------
(* The settings *)

Or(typed, current) == IF typed = NoToken THEN current ELSE typed

(* Variant: what was left blank is stored blank. *)
MergedAsTyped(current, typed) ==
  [enabled |-> typed.enabled, token |-> typed.token,
   company |-> IF typed.company = "keep" THEN current.company ELSE typed.company = "given",
   sound |-> IF typed.url = "keep" THEN current.sound ELSE typed.url = "right",
   days |-> typed.days]

(* A blank secret keeps the current one; a blank company does not. *)
Merged(current, typed) ==
  [MergedAsTyped(current, typed) EXCEPT !.token = Or(typed.token, current.token)]

(* testConnection tries what is typed, and the saved value of what is blank. *)
TestConnection(current, typed) ==
  ~server.dev /\ Understood([enabled |-> TRUE, token |-> Or(typed.token, current.token),
                             company |-> typed.company = "given" \/ current.company,
                             sound |-> IF typed.url = "keep" THEN current.sound
                                       ELSE typed.url = "right",
                             days |-> current.days])

WriteLater(p, s, tested) ==
  /\ Doing(p, "none")
  /\ Posted
  /\ posting' = [posting EXCEPT ![p] =
       [NoPosting EXCEPT !.step = "write", !.settings = s, !.read = config, !.tested = tested]]
  /\ UNCHANGED <<advert, listed, config, server, taken>>

SetBdJobs(p) ==
  \E typed \in TypedIns :
    WriteLater(p, Merged(Get(config), typed),
               TestConnection(Get(config), typed) /\ typed.company # "blank")

(* Everything but the switch, the company and the credentials. *)
RestoreDefaults(p) ==
  LET current == Get(config) IN
    WriteLater(p, [Shipped EXCEPT !.enabled = current.enabled, !.token = current.token,
                                  !.company = current.company], FALSE)

CommitBdJobs(p) ==
  /\ Doing(p, "write")
  /\ config' = posting[p].settings
  /\ taken' = (taken /\ posting[p].read = config)
  /\ Over(p)
  /\ UNCHANGED <<advert, listed, server, posts>>

-----------------------------------------------------------------------------
(* The API process restarts, and every request in flight is gone. *)
RestartPosting ==
  /\ \E p \in Posters : ~Doing(p, "none")
  /\ posting' = [p \in Posters |-> NoPosting]
  /\ UNCHANGED <<advert, listed, config, server, posts, taken>>

PublicationNext ==
  \/ RestartPosting
  \/ \E p \in Posters :
       \/ SaveAndPost(p) \/ BuildPayload(p) \/ Receive(p) \/ CommitAnswer(p) \/ Unreachable(p)
       \/ SetBdJobs(p)   \/ RestoreDefaults(p) \/ CommitBdJobs(p)

PublicationSpec == PublicationInit /\ [][PublicationNext]_pvars

-----------------------------------------------------------------------------
(* Properties *)

(* Whatever answers are lost or come late and whoever else is posting, a row that
   says posted, or names a job, has the listing at BDJobs (saveAndPost). *)
PostedIsListed ==
  /\ advert.status = "posted" => listed # {}
  /\ advert.job # 0 => \E l \in listed : l.job = advert.job

(* BDJobs is given a date it takes: a day to thirty days from now, whatever the
   requisition's closing date and the settings say (buildPayload). *)
DeadlineLive == \A l \in listed : l.deadline \in 1..MaxDays

(* As long as settings are written in turn, an account that had a token still has
   one: no save and no restore of the defaults blanks it (set, restoreDefaults). *)
CredentialsKept ==
  [][Get(config).token # NoToken /\ taken' => Get(config').token # NoToken]_pvars

(* As long as settings are written in turn, what the test accepted works once it
   is saved, a company that was blanked aside (testConnection, set). *)
TestTold ==
  [][\A p \in Posters :
       /\ Doing(p, "write") /\ ~Doing(p, "write")' /\ config' = posting[p].settings
       /\ posting[p].tested /\ taken'
       => Understood(Get(config'))]_pvars

PublicationStands == [](PostedIsListed /\ DeadlineLive) /\ CredentialsKept /\ TestTold
=============================================================================
