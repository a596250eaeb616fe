------------------------------- MODULE Access -------------------------------
(***************************************************************************)
(* Who may do what in one unit: role assignments, the cached permissions   *)
(* every guard reads, and the approval paths of one requisition raiser     *)
(* (rbac.service.ts, permissions.service.ts, memory-cache.service.ts,      *)
(* approval-paths.service.ts).                                             *)
(*                                                                         *)
(* Access Control and Approval Paths change each other's rows without one  *)
(* transaction around them: a role that goes takes the raiser's paths or   *)
(* the approver's levels with it, a nomination grants the role it needs.   *)
(* `req` holds where each request in flight has come to; the cache lives   *)
(* in the process and is lost when it restarts.                            *)
(*                                                                         *)
(* The unit's other roles are alike: `other` opens the unit.  Custom roles *)
(* and global ones, which the same handlers change, are left out.          *)
(***************************************************************************)
EXTENDS Integers, Sequences, FiniteSets

CONSTANTS
  Requests,      \* requests the API process can serve at the same time
  Approvers,     \* people who may be named at a level
  Raiser,        \* the person whose requisitions the paths route
  Depts,         \* departments with a chain of their own
  MaxLevels,     \* bound: levels of one path
  MaxEdits       \* bound: requests made

People == Approvers \cup {Raiser}

ASSUME RaiserAssumption == Raiser \notin Approvers
ASSUME BoundsAssumption == MaxLevels \in Nat /\ MaxEdits \in Nat

VARIABLES
  held,      \* RoleAssignment: the roles each person holds in the unit
  cached,    \* the permission sets the process remembers
  path,      \* ApprovalPath and its levels, the unit-wide one under "any"
  chain,     \* orderIndex of each step of the last requisition raised
  req,       \* where each request in flight has come to
  edits,     \* history: requests made
  inTurn     \* history: nothing overlapped that the code does not keep apart

vars == <<held, cached, path, chain, req, edits, inTurn>>

-----------------------------------------------------------------------------
(* Values *)

Roles == {"raiser", "approver", "other"}

Scopes == Depts \cup {"any"}

Optional(S) == {{}} \cup {{x} : x \in S}

Level == [at : Nat, who : Approvers]
Path == [on : BOOLEAN, levels : SUBSET Level]
NoPath == [on |-> FALSE, levels |-> {}]

Steps == {"none", "load", "invalidate", "path", "levels", "grant", "grantRow",
          "dropPaths", "dropLevels", "reindex", "dropRow"}

(* `todo` are the people still to be granted, the first of them in hand. *)
Request == [step : Steps, who : People, role : Roles, scopes : SUBSET Scopes,
            todo : Seq(People), saw : SUBSET Roles, fresh : BOOLEAN]   \* history

Idle == [step |-> "none", who |-> Raiser, role |-> "raiser", scopes |-> {},
         todo |-> << >>, saw |-> {}, fresh |-> TRUE]

TypeOK ==
  /\ held \in [People -> SUBSET Roles]
  /\ cached \in [People -> Optional(SUBSET Roles)]
  /\ path \in [Scopes -> Path]
  /\ chain \in Seq(Nat)
  /\ req \in [Requests -> Request]
  /\ edits \in Nat
  /\ inTurn \in BOOLEAN

-----------------------------------------------------------------------------
(* The permission cache *)

At(r, step) == req[r].step = step

(* What a guard is told, from the cache or, on a miss, from the rows. *)
Permissions(p) == IF cached[p] = {} THEN held[p] ELSE UNION cached[p]

(* Variant: the dashboard is forgotten, the permissions are kept. *)
ForgottenNobody(p) == cached

Forgotten(p) == [cached EXCEPT ![p] = {}]

(* The loads of p's permissions that are under way have read what is past. *)
Overtaken(p) ==
  [q \in Requests |-> IF At(q, "load") /\ req[q].who = p
                        THEN [req[q] EXCEPT !.fresh = FALSE] ELSE req[q]]

Stays(condition) == inTurn' = (inTurn /\ condition)

(* A guard of any handler finds nothing in the cache, or something expired. *)
Load(r) ==
  \E p \in People :
    /\ At(r, "none") /\ cached[p] = {}
    /\ req' = [req EXCEPT ![r] = [Idle EXCEPT !.step = "load", !.who = p, !.saw = held[p]]]
    /\ UNCHANGED <<held, cached, path, chain, edits, inTurn>>

(* wrap stores what was read, whether or not it was invalidated meanwhile. *)
CommitLoad(r) ==
  /\ At(r, "load")
  /\ cached' = [cached EXCEPT ![req[r].who] = {req[r].saw}]
  /\ req' = [req EXCEPT ![r] = Idle]
  /\ Stays(req[r].fresh)
  /\ UNCHANGED <<held, path, chain, edits>>

Expire ==
  \E p \in People :
    /\ cached[p] # {}
    /\ cached' = [cached EXCEPT ![p] = {}]
    /\ UNCHANGED <<held, path, chain, req, edits, inTurn>>

(* After a row was written the process forgets its holder, and goes on to the
   next person it has to grant a role, if any. *)
Invalidate(r) ==
  /\ At(r, "invalidate")
  /\ cached' = Forgotten(req[r].who)
  /\ req' = [Overtaken(req[r].who) EXCEPT ![r] =
               IF req[r].todo = << >> THEN Idle ELSE [req[r] EXCEPT !.step = "grant"]]
  /\ UNCHANGED <<held, path, chain, edits, inTurn>>

-----------------------------------------------------------------------------
(* Access Control *)

Ask(r, request) ==
  /\ At(r, "none")
  /\ edits < MaxEdits /\ edits' = edits + 1
  /\ req' = [req EXCEPT ![r] = request]

GoOn(r, step) == req' = [req EXCEPT ![r].step = step]

CreateAssignment(r) ==
  \E p \in People, role \in Roles :
    /\ role \notin held[p]
    /\ held' = [held EXCEPT ![p] = @ \cup {role}]
    /\ Ask(r, [Idle EXCEPT !.step = "invalidate", !.who = p, !.role = role])
    /\ UNCHANGED <<cached, path, chain, inTurn>>

(* What a role is holding up goes before the role itself. *)
DeleteAssignment(r) ==
  \E p \in People, role \in Roles :
    /\ role \in held[p]
    /\ Ask(r, [Idle EXCEPT !.who = p, !.role = role,
                           !.step = CASE role = "raiser" -> "dropPaths"
                                      [] role = "approver" -> "dropLevels"
                                      [] OTHER -> "dropRow"])
    /\ UNCHANGED <<held, cached, path, chain, inTurn>>

Unrouted(paths) == [s \in Scopes |-> NoPath]

DropPaths(r) ==
  /\ At(r, "dropPaths")
  /\ path' = IF req[r].who = Raiser THEN Unrouted(path) ELSE path
  /\ GoOn(r, "dropRow")
  /\ UNCHANGED <<held, cached, chain, edits, inTurn>>

Names(levels, p) == \E l \in levels : l.who = p

(* The levels that name the person are read and deleted. *)
DropLevels(r) ==
  LET p == req[r].who
      hit == {s \in Scopes : Names(path[s].levels, p)}
  IN /\ At(r, "dropLevels")
     /\ path' = [s \in Scopes |-> [path[s] EXCEPT !.levels = {l \in @ : l.who # p}]]
     /\ req' = [req EXCEPT ![r].scopes = hit,
                           ![r].step = IF hit = {} THEN "dropRow" ELSE "reindex"]
     /\ UNCHANGED <<held, cached, chain, edits, inTurn>>

(* Levels are renumbered from 0, in their order. *)
Renumbered(levels) ==
  {[l EXCEPT !.at = Cardinality({k \in levels : k.at < l.at})] : l \in levels}

Reindex(r) ==
  \E s \in req[r].scopes :
    /\ At(r, "reindex")
    /\ path' = [path EXCEPT ![s].levels = Renumbered(@)]
    /\ req' = [req EXCEPT ![r].scopes = @ \ {s},
                          ![r].step = IF req[r].scopes = {s} THEN "dropRow" ELSE "reindex"]
    /\ UNCHANGED <<held, cached, chain, edits, inTurn>>

DropRow(r) ==
  LET p == req[r].who
      role == req[r].role
  IN /\ At(r, "dropRow")
     /\ IF role \in held[p]
          THEN /\ held' = [held EXCEPT ![p] = @ \ {role}]
               /\ GoOn(r, "invalidate")
               /\ Stays(req[r].fresh)
          ELSE /\ req' = [req EXCEPT ![r] = Idle]
               /\ UNCHANGED <<held, inTurn>>
     /\ UNCHANGED <<cached, path, chain, edits>>

-----------------------------------------------------------------------------
(* Approval Paths *)

AddRaiser(r) ==
  \E s \in Scopes :
    /\ ~path[s].on
    /\ Ask(r, [Idle EXCEPT !.step = "path", !.scopes = {s}, !.todo = <<Raiser>>])
    /\ UNCHANGED <<held, cached, path, chain, inTurn>>

(* What the deletion of somebody's role has cleared away is there again. *)
BackAgain(role, who) ==
  [q \in Requests |-> IF req[q].step \in {"reindex", "dropRow"} /\ req[q].role = role /\ req[q].who \in who
                        THEN [req[q] EXCEPT !.fresh = FALSE] ELSE req[q]]

(* A second path for the same department is refused by the database. *)
CommitPath(r) ==
  LET s == CHOOSE s \in req[r].scopes : TRUE IN
  /\ At(r, "path")
  /\ IF path[s].on
       THEN req' = [req EXCEPT ![r] = Idle] /\ UNCHANGED path
       ELSE /\ path' = [path EXCEPT ![s].on = TRUE]
            /\ req' = [BackAgain("raiser", {Raiser}) EXCEPT ![r].step = "grant"]
  /\ UNCHANGED <<held, cached, chain, edits, inTurn>>

(* One chain is dropped, or all; the role stays. *)
RemoveRaiser ==
  \E scopes \in {{s} : s \in Scopes} \cup {Scopes} :
    /\ edits < MaxEdits /\ edits' = edits + 1
    /\ path' = [s \in Scopes |-> IF s \in scopes THEN NoPath ELSE path[s]]
    /\ UNCHANGED <<held, cached, chain, req, inTurn>>

(* validateLevels: nobody twice, and never the raiser. *)
Lists == {list \in UNION {[1..n -> Approvers] : n \in 0..MaxLevels} :
            \A i, j \in DOMAIN list : list[i] = list[j] => i = j}

Replace(r) ==
  \E s \in Scopes, list \in Lists :
    /\ path[s].on
    /\ Ask(r, [Idle EXCEPT !.step = "levels", !.scopes = {s}, !.role = "approver", !.todo = list])
    /\ UNCHANGED <<held, cached, path, chain, inTurn>>

Numbered(list) == {[at |-> i - 1, who |-> list[i]] : i \in DOMAIN list}

(* The levels are replaced as a whole; the path may be gone by now. *)
CommitLevels(r) ==
  LET s == CHOOSE s \in req[r].scopes : TRUE IN
  /\ At(r, "levels")
  /\ IF path[s].on
       THEN /\ path' = [path EXCEPT ![s].levels = Numbered(req[r].todo)]
            /\ req' = [BackAgain("approver", {req[r].todo[i] : i \in DOMAIN req[r].todo}) EXCEPT ![r] =
                         IF req[r].todo = << >> THEN Idle ELSE [req[r] EXCEPT !.step = "grant"]]
       ELSE req' = [req EXCEPT ![r] = Idle] /\ UNCHANGED path
  /\ UNCHANGED <<held, cached, chain, edits, inTurn>>

(* grantRole: an approver who reaches the unit some other way needs nothing. *)
Provided(p, role) == role \in held[p] \/ (role = "approver" /\ Permissions(p) # {})

Grant(r) ==
  LET p == Head(req[r].todo)
      rest == Tail(req[r].todo)
  IN /\ At(r, "grant")
     /\ req' = [req EXCEPT ![r] =
                  CASE ~Provided(p, req[r].role) -> [req[r] EXCEPT !.step = "grantRow"]
                    [] Provided(p, req[r].role) /\ rest # << >> -> [req[r] EXCEPT !.todo = rest]
                    [] OTHER -> Idle]
     /\ cached' = IF req[r].role \in held[p] \/ req[r].role = "raiser" THEN cached
                  ELSE [cached EXCEPT ![p] = {Permissions(p)}]
     /\ UNCHANGED <<held, path, chain, edits, inTurn>>

(* A role somebody else has granted meanwhile ends the request in an error. *)
GrantRow(r) ==
  LET p == Head(req[r].todo) IN
  /\ At(r, "grantRow")
  /\ IF req[r].role \in held[p]
       THEN req' = [req EXCEPT ![r] = Idle] /\ Stays(FALSE) /\ UNCHANGED held
       ELSE /\ held' = [held EXCEPT ![p] = @ \cup {req[r].role}]
            /\ req' = [req EXCEPT ![r].step = "invalidate", ![r].who = p,
                                  ![r].todo = Tail(@)]
            /\ UNCHANGED inTurn
  /\ UNCHANGED <<cached, path, chain, edits>>

-----------------------------------------------------------------------------
(* Raising *)

(* A department's own chain goes before the unit-wide one. *)
Routed(s) == IF path[s].on THEN s ELSE "any"

InOrder(levels) ==
  [i \in 1..Cardinality(levels) |->
     CHOOSE l \in levels : Cardinality({k \in levels : k.at < l.at}) = i - 1]

(* The levels keep their numbers; the last step is numbered by their count. *)
BuildStepsForRaiser(levels) ==
  Append([i \in 1..Cardinality(levels) |-> InOrder(levels)[i].at], Cardinality(levels))

(* The raiser raises; nobody is just closing a gap in the chain. *)
Raise ==
  \E s \in Scopes :
    /\ "raiser" \in Permissions(Raiser)
    /\ path[Routed(s)].on
    /\ edits < MaxEdits /\ edits' = edits + 1
    /\ chain' = BuildStepsForRaiser(path[Routed(s)].levels)
    /\ Stays(\A r \in Requests : ~At(r, "reindex"))
    /\ UNCHANGED <<held, cached, path, req>>

(* The process restarts: the cache and the requests are gone, the rows stay. *)
Restart ==
  /\ req' = [r \in Requests |-> Idle]
  /\ cached' = [p \in People |-> {}]
  /\ Stays(\A r \in Requests : \/ req[r].step \in {"none", "load", "path", "levels",
                                                   "dropPaths", "dropLevels"}
                               \/ At(r, "invalidate") /\ req[r].todo = << >>)
  /\ UNCHANGED <<held, path, chain, edits>>

(* The raiser was nominated, and whoever the unit-wide path names was granted
   the role for it. *)
Init ==
  /\ \E list \in Lists :
       /\ path = [s \in Scopes |-> IF s = "any" THEN [on |-> TRUE, levels |-> Numbered(list)] ELSE NoPath]
       /\ held = [p \in People |-> IF p = Raiser THEN {"raiser"}
                                    ELSE IF \E i \in DOMAIN list : list[i] = p THEN {"approver"} ELSE {}]
  /\ cached = [p \in People |-> {}]
  /\ chain = << >>
  /\ req = [r \in Requests |-> Idle]
  /\ edits = 0
  /\ inTurn = TRUE

Next ==
  \/ Expire \/ RemoveRaiser \/ Raise \/ Restart
  \/ \E r \in Requests :
       \/ Load(r)             \/ CommitLoad(r)  \/ Invalidate(r)
       \/ CreateAssignment(r) \/ DeleteAssignment(r)
       \/ DropPaths(r)        \/ DropLevels(r)  \/ Reindex(r)  \/ DropRow(r)
       \/ AddRaiser(r)        \/ CommitPath(r)
       \/ Replace(r)          \/ CommitLevels(r)
       \/ Grant(r)            \/ GrantRow(r)

Spec == Init /\ [][Next]_vars

-----------------------------------------------------------------------------
(* Properties *)

(* Rows the process has deleted and is still to forget. *)
Leaving(p) == {role \in Roles :
                 \E r \in Requests : At(r, "invalidate") /\ req[r].who = p /\ req[r].role = role}

(* As long as no load of permissions was overtaken by an invalidation, a role that
   was taken away is not granted by the cache, from the moment the request that
   took it away is over (wrap, invalidate, deleteAssignment). *)
RevokedIsGone ==
  inTurn => \A p \in People : \A roles \in cached[p] : roles \subseteq held[p] \cup Leaving(p)

(* A chain is numbered from 0 without a gap, so that the step appended to it never
   falls on a number already taken, unless it was raised while a gap was being
   closed or the process stopped before it was (reindexPaths, buildStepsForRaiser). *)
ChainContiguous == inTurn => \A i \in DOMAIN chain : chain[i] = i - 1

(* The request is still granting the role, or taking it away. *)
Underway(r) ==
  \/ req[r].step \in {"grant", "grantRow"} /\ req[r].role = "raiser"
  \/ req[r].step = "dropPaths" /\ req[r].who = Raiser

(* As long as nothing came back while a role was going, whoever has an approval
   path may raise through it (addRaiser, deleteAssignment). *)
PathMeansRole ==
  inTurn /\ (\E s \in Scopes : path[s].on) =>
    "raiser" \in held[Raiser] \/ \E r \in Requests : Underway(r)

(* What was taken away is gone, and a path is whole and its raiser's. *)
AccessStands == RevokedIsGone /\ ChainContiguous /\ PathMeansRole

=============================================================================
