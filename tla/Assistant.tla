------------------------------ MODULE Assistant ------------------------------
(***************************************************************************)
(* Which language model is asked (ai-provider-config.service, the routing   *)
(* of ai-grader.service): the settings row, the copy of it that the one     *)
(* process keeps in memory, and requests, which are put to the first        *)
(* provider and, where it fails, to the other.                              *)
(*                                                                          *)
(* A key is saved encrypted under the server's secret, which may be another *)
(* after a restart.  What the models answer is in Answers; the names of the *)
(* models are left out.                                                     *)
(***************************************************************************)
EXTENDS Integers, Sequences

CONSTANTS
  Savers,       \* administrators' saves that can be under way at the same time
  Askers,       \* requests that can be under way at the same time
  Keys,         \* API keys
  EnvProvider,  \* AI_PROVIDER of .env
  EnvKeys,      \* providers .env has a key for
  NoKey,
  MaxSaves, MaxAsks, MaxBoots   \* bounds: saves, requests, restarts

ASSUME AssistantAssumption ==
  /\ EnvProvider \in {"claude", "gemini"} /\ EnvKeys \subseteq {"claude", "gemini"}
  /\ NoKey \notin Keys
  /\ MaxSaves \in Nat /\ MaxAsks \in Nat /\ MaxBoots \in Nat

VARIABLES
  setting,    \* Setting "ai_provider", as stored
  secret,     \* which encryption secret the process runs with
  snapshot,   \* AiProviderConfigService.snapshot
  saver,      \* where each save has come to
  asker,      \* where each request has come to
  spent,      \* history: saves, requests, restarts
  astray      \* history: a save fell over another, or the row could not be read at boot

zvars == <<setting, secret, snapshot, saver, asker, spent, astray>>

-----------------------------------------------------------------------------
(* Values *)

Providers == {"claude", "gemini"}

OtherProvider(p) == IF p = "claude" THEN "gemini" ELSE "claude"

Option(S) == {{}} \cup {{x} : x \in S}

Sealed == [key : Keys, under : 0..MaxBoots]

Setting == [provider : Option(Providers), fallback : Option(BOOLEAN), key : [Providers -> Option(Sealed)]]

Unset == [provider |-> {}, fallback |-> {}, key |-> [p \in Providers |-> {}]]

FromEnv == "env"

Snapshot == [provider : Providers, fallback : BOOLEAN, key : [Providers -> Keys \cup {FromEnv, NoKey}]]

(* What the page sends: a box left out is the empty set, and NoKey takes the key away. *)
Form == [provider : Option(Providers), fallback : Option(BOOLEAN),
         key : [Providers -> Option(Keys \cup {NoKey})]]

AtRest == [step |-> "none", next |-> Unset]

Unasked == [step |-> "none", order |-> <<>>, at |-> 0, key |-> NoKey, steady |-> TRUE]

TypeAssistantOK ==
  /\ setting \in Setting /\ secret \in 0..MaxBoots /\ snapshot \in Snapshot
  /\ \A s \in Savers : saver[s].step \in {"none", "save", "take"} /\ saver[s].next \in Setting
  /\ \A a \in Askers : asker[a].step \in {"none", "asked", "answered", "failed"}
  /\ astray \in BOOLEAN

-----------------------------------------------------------------------------
(* The settings in force *)

ValueOr(option, otherwise) == IF option = {} THEN otherwise ELSE CHOOSE x \in option : TRUE

(* A key that no longer opens falls back to .env. *)
Runtime(sealed, p, under) ==
  IF \E k \in sealed : k.under = under THEN (CHOOSE k \in sealed : TRUE).key
  ELSE IF p \in EnvKeys THEN FromEnv ELSE NoKey

Resolve(stored, under) ==
  [provider |-> ValueOr(stored.provider, EnvProvider), fallback |-> ValueOr(stored.fallback, TRUE),
   key |-> [p \in Providers |-> Runtime(stored.key[p], p, under)]]

HasKey(p) == snapshot.key[p] # NoKey

OrderAnyhow ==
  LET first == snapshot.provider
      second == OtherProvider(first)
  IN  (IF HasKey(first) THEN <<first>> ELSE <<>>) \o (IF HasKey(second) THEN <<second>> ELSE <<>>)

Order ==
  LET first == snapshot.provider
      second == OtherProvider(first)
  IN  (IF HasKey(first) THEN <<first>> ELSE <<>>) \o
      (IF snapshot.fallback /\ HasKey(second) THEN <<second>> ELSE <<>>)

-----------------------------------------------------------------------------
(* Saving *)

NextKey(typed, current) ==
  IF typed = {} THEN current
  ELSE IF NoKey \in typed THEN {} ELSE {[key |-> k, under |-> secret] : k \in typed}

Merged(form) ==
  [provider |-> IF form.provider = {} THEN setting.provider ELSE form.provider,
   fallback |-> IF form.fallback = {} THEN setting.fallback ELSE form.fallback,
   key |-> [p \in Providers |-> NextKey(form.key[p], setting.key[p])]]

SaveSettings(s) ==
  /\ saver[s].step = "none" /\ spent.saves < MaxSaves
  /\ \E form \in Form : saver' = [saver EXCEPT ![s] = [step |-> "save", next |-> Merged(form)]]
  /\ spent' = [spent EXCEPT !.saves = @ + 1]
  /\ astray' = (astray \/ \E t \in Savers : saver[t].step # "none")
  /\ UNCHANGED <<setting, secret, snapshot, asker>>

CommitSettings(s) ==
  /\ saver[s].step = "save"
  /\ setting' = saver[s].next
  /\ saver' = [saver EXCEPT ![s].step = "take"]
  /\ UNCHANGED <<secret, snapshot, asker, spent, astray>>

TakeUp(s) ==
  /\ saver[s].step = "take"
  /\ snapshot' = Resolve(saver[s].next, secret)
  /\ saver' = [saver EXCEPT ![s] = AtRest]
  /\ asker' = [a \in Askers |-> [asker[a] EXCEPT !.steady = FALSE]]
  /\ UNCHANGED <<setting, secret, spent, astray>>

(* The query is refused and the page told so. *)
FailUpdate(s) ==
  /\ saver[s].step = "save"
  /\ saver' = [saver EXCEPT ![s] = AtRest]
  /\ UNCHANGED <<setting, secret, snapshot, asker, spent, astray>>

(* A restart, perhaps with another secret; where the row cannot be read the    *)
(* process runs on .env until the next save.                                   *)
Boot ==
  /\ spent.boots < MaxBoots
  /\ spent' = [spent EXCEPT !.boots = @ + 1]
  /\ secret' \in {secret, spent.boots + 1}
  /\ saver' = [s \in Savers |-> AtRest]
  /\ asker' = [a \in Askers |-> Unasked]
  /\ \/ snapshot' = Resolve(setting, secret') /\ UNCHANGED astray
     \/ snapshot' = Resolve(Unset, secret') /\ astray' = TRUE
  /\ UNCHANGED setting

-----------------------------------------------------------------------------
(* Asking *)

Sent(order, i, steady) ==
  [step |-> "asked", order |-> order, at |-> i, key |-> snapshot.key[order[i]], steady |-> steady]

AskModel(a) ==
  /\ asker[a].step = "none" /\ spent.asks < MaxAsks
  /\ Order # <<>>
  /\ asker' = [asker EXCEPT ![a] = Sent(Order, 1, TRUE)]
  /\ spent' = [spent EXCEPT !.asks = @ + 1]
  /\ UNCHANGED <<setting, secret, snapshot, saver, astray>>

(* A provider without a key answers nothing. *)
Answered(a) ==
  /\ asker[a].step = "asked" /\ asker[a].key # NoKey
  /\ asker' = [asker EXCEPT ![a].step = "answered"]
  /\ UNCHANGED <<setting, secret, snapshot, saver, spent, astray>>

(* An error, a refusal or an empty answer: the next in the order is asked, with the *)
(* key it has by now.                                                               *)
Unanswered(a) ==
  /\ asker[a].step = "asked"
  /\ asker' = [asker EXCEPT ![a] =
                 IF asker[a].at < Len(asker[a].order)
                 THEN Sent(asker[a].order, asker[a].at + 1, asker[a].steady)
                 ELSE [asker[a] EXCEPT !.step = "failed"]]
  /\ UNCHANGED <<setting, secret, snapshot, saver, spent, astray>>

(* The caller has its answer, or its error. *)
Return(a) ==
  /\ asker[a].step \in {"answered", "failed"}
  /\ asker' = [asker EXCEPT ![a] = Unasked]
  /\ UNCHANGED <<setting, secret, snapshot, saver, spent, astray>>

-----------------------------------------------------------------------------
(* Behaviours *)

AssistantInit ==
  /\ setting = Unset /\ secret = 0 /\ snapshot = Resolve(Unset, 0)
  /\ saver = [s \in Savers |-> AtRest]
  /\ asker = [a \in Askers |-> Unasked]
  /\ spent = [saves |-> 0, asks |-> 0, boots |-> 0]
  /\ astray = FALSE

AssistantNext ==
  \/ Boot
  \/ \E s \in Savers : SaveSettings(s) \/ CommitSettings(s) \/ TakeUp(s) \/ FailUpdate(s)
  \/ \E a \in Askers : AskModel(a) \/ Answered(a) \/ Unanswered(a) \/ Return(a)

AssistantSpec == AssistantInit /\ [][AssistantNext]_zvars

-----------------------------------------------------------------------------
(* Properties *)

(* With no save under way the process runs on what a restart would read, unless *)
(* two saves overlapped or the row could not be read at boot.                   *)
MemoryMatchesRow ==
  ~astray /\ (\A s \in Savers : saver[s].step # "take") => snapshot = Resolve(setting, secret)

(* While the settings stand, a request goes to the chosen provider first, to    *)
(* the other only where that failed and falling back is on, and never to one    *)
(* without a key.                                                               *)
AskedAsSet ==
  \A a \in Askers : asker[a].step # "none" /\ asker[a].steady =>
    /\ asker[a].key = snapshot.key[asker[a].order[asker[a].at]] /\ asker[a].key # NoKey
    /\ asker[a].order[asker[a].at] = OtherProvider(snapshot.provider) =>
         snapshot.fallback /\ (HasKey(snapshot.provider) => asker[a].at = 2)
    /\ asker[a].step = "failed" /\ snapshot.fallback =>
         {p \in Providers : HasKey(p)} = {asker[a].order[i] : i \in DOMAIN asker[a].order}

(* The settings page, the process and the providers asked agree. *)
SettingsHold == MemoryMatchesRow /\ AskedAsSet
=============================================================================
