------------------------------ MODULE Directory ------------------------------
(***************************************************************************)
(* The directory of employees and its units: the sync that reads everybody  *)
(* from ZingHR in the background, HR's corrections beside it, and the units *)
(* and departments that are set up by hand (zinghr.service, employees.      *)
(* service, units.service).                                                 *)
(*                                                                          *)
(* Of a person's data the address, the unit and the department are kept.    *)
(* A failure of the database ends the process here; who may act is left     *)
(* out, and so are passwords, which are in Account.                         *)
(***************************************************************************)
EXTENDS Integers, Sequences, FiniteSets

CONSTANTS
  Clerks,      \* requests and runs that can be under way at the same time
  Codes,       \* employee codes
  UnitNames,       \* names of units, each spelled in one way
  Key(_),      \* normalizeUnitName: the spellings of one name have one key
  Areas,       \* departments
  Addresses,   \* e-mail addresses
  Feeds,       \* bound: what ZingHR may answer: for each code whether it counts, address, unit, department
  MaxUnits,    \* bound: units ever made
  Errands      \* bound: how many requests of each kind are made

Requested == {"sync", "edit", "unit", "area"}

ASSUME ErrandsAssumption == Errands \subseteq [Requested -> Nat] /\ MaxUnits \in Nat
ASSUME CodesAssumption == IsFiniteSet(Codes)

Unset == "unset"

ASSUME FeedsAssumption ==
  Feeds \subseteq [Codes -> [counts : BOOLEAN, email : Addresses \cup {Unset},
                            unit : UnitNames \cup {Unset}, area : Areas \cup {Unset}]]

VARIABLES
  account,   \* User with its Employee row, for each code
  units,     \* Unit rows with their departments, oldest first
  runs,      \* SyncLog rows
  running,   \* ZingHrService.running
  clerk,     \* where each request or run has come to
  errands,   \* history: how many more requests are made
  doubled,   \* history: two runs were under way at once
  touched,   \* history: HR has made, renamed or removed a unit
  shared     \* history: ZingHR, or two edits at once, gave two people one address

zvars == <<account, units, runs, running, clerk, errands, doubled, touched, shared>>

-----------------------------------------------------------------------------
(* Values *)

(* `row` is whether there is an Employee row beside the User. *)
Account == [made : BOOLEAN, row : BOOLEAN, email : Addresses \cup {Unset},
            name : UnitNames \cup {Unset}, unit : 0..MaxUnits, area : Areas \cup {Unset}]

Unmade == [made |-> FALSE, row |-> FALSE, email |-> Unset, name |-> Unset, unit |-> 0,
           area |-> Unset]

Tally == [processed : Nat, inserted : Nat, updated : Nat, skipped : Nat, failed : Nat]

Zero == [processed |-> 0, inserted |-> 0, updated |-> 0, skipped |-> 0, failed |-> 0]

Run == [status : {"running", "success", "failed"}, tally : Tally]

Places == {"none", "current", "begin", "fetch", "load", "each", "user", "unit", "row",
           "check", "write"}

(* `known` and `byKey` are the maps a run has loaded, `feed` what ZingHR sent. *)
Clerk == [at : Places, run : Nat, feed : Feeds \cup {<<>>}, todo : SUBSET Codes,
          on : SUBSET Codes, known : SUBSET Codes, byKey : [{Key(n) : n \in UnitNames} -> 0..MaxUnits],
          isNew : BOOLEAN, unit : 0..MaxUnits, name : UnitNames \cup {Unset}, tally : Tally,
          email : Addresses \cup {Unset}]

Away == [at |-> "none", run |-> 0, feed |-> <<>>, todo |-> {}, on |-> {}, known |-> {},
         byKey |-> [k \in {Key(n) : n \in UnitNames} |-> 0], isNew |-> FALSE, unit |-> 0,
         name |-> Unset, tally |-> Zero, email |-> Unset]

DirectoryTypeOK ==
  /\ account \in [Codes -> Account]
  /\ units \in Seq([live : BOOLEAN, name : UnitNames, areas : SUBSET Areas])
  /\ Len(units) <= MaxUnits
  /\ runs \in Seq(Run)
  /\ running \in BOOLEAN
  /\ clerk \in [Clerks -> Clerk]
  /\ errands \in [Requested -> Nat]
  /\ {doubled, touched, shared} \subseteq BOOLEAN

Live == {i \in DOMAIN units : units[i].live}

Named(name) == {i \in Live : units[i].name = name}

Errand(kind) == errands[kind] > 0 /\ errands' = [errands EXCEPT ![kind] = @ - 1]

Runners == {z \in Clerks : clerk[z].at \in {"fetch", "load", "each", "user", "unit", "row"}}

-----------------------------------------------------------------------------
(* A run *)

(* A second start is answered with the run under way, if it has a row by now. *)
StartSync(z) ==
  /\ clerk[z].at = "none" /\ Errand("sync")
  /\ running' = TRUE
  /\ clerk' = [clerk EXCEPT ![z] = [Away EXCEPT !.at = IF running THEN "current" ELSE "begin"]]
  /\ UNCHANGED <<account, units, runs, doubled, touched, shared>>

CurrentRun(z) ==
  /\ clerk[z].at = "current"
  /\ IF \E n \in DOMAIN runs : runs[n].status = "running"
     THEN clerk' = [clerk EXCEPT ![z] = Away] /\ UNCHANGED running
     ELSE clerk' = [clerk EXCEPT ![z].at = "begin"] /\ running' = TRUE
  /\ UNCHANGED <<account, units, runs, errands, doubled, touched, shared>>

BeginRun(z) ==
  /\ clerk[z].at = "begin"
  /\ runs' = Append(runs, [status |-> "running", tally |-> Zero])
  /\ clerk' = [clerk EXCEPT ![z] = [@ EXCEPT !.at = "fetch", !.run = Len(runs) + 1]]
  /\ doubled' = (doubled \/ Runners # {})
  /\ UNCHANGED <<account, units, running, errands, touched, shared>>

(* However a run ends, nothing is taken to be running any more. *)
CloseRun(z, status) ==
  /\ runs' = [runs EXCEPT ![clerk[z].run] = [status |-> status, tally |-> clerk[z].tally]]
  /\ running' = FALSE
  /\ clerk' = [clerk EXCEPT ![z] = Away]

FetchEmployees(z) ==
  /\ clerk[z].at = "fetch"
  /\ \/ /\ CloseRun(z, "failed")
     \/ /\ \E feed \in Feeds :
             clerk' = [clerk EXCEPT ![z] = [@ EXCEPT !.at = "load", !.feed = feed, !.todo = Codes]]
        /\ UNCHANGED <<runs, running>>
  /\ UNCHANGED <<account, units, errands, doubled, touched, shared>>

(* Of units with one key any may be the one kept. *)
LoadMaps(z) ==
  \E byKey \in [{Key(n) : n \in UnitNames} -> {0} \cup Live] :
    /\ clerk[z].at = "load"
    /\ \A k \in DOMAIN byKey :
         LET having == {i \in Live : Key(units[i].name) = k}
         IN  IF having = {} THEN byKey[k] = 0 ELSE byKey[k] \in having
    /\ clerk' = [clerk EXCEPT ![z] = [@ EXCEPT !.at = "each", !.byKey = byKey,
                                               !.known = {c \in Codes : account[c].made}]]
    /\ UNCHANGED <<account, units, runs, running, errands, doubled, touched, shared>>

Counted(tally, box) == [tally EXCEPT ![box] = @ + 1]

NextEmployee(z) ==
  \E c \in clerk[z].todo :
    LET left == [clerk[z] EXCEPT !.todo = @ \ {c}, !.tally = Counted(@, "processed")]
    IN /\ clerk[z].at = "each"
       /\ clerk' = [clerk EXCEPT ![z] =
            IF clerk[z].feed[c].counts THEN [left EXCEPT !.on = {c}, !.at = "user"]
            ELSE [left EXCEPT !.tally = Counted(@, "skipped")]]
       /\ UNCHANGED <<account, units, runs, running, errands, doubled, touched, shared>>

Settled(z, box) ==
  [clerk EXCEPT ![z] = [clerk[z] EXCEPT !.at = "each", !.on = {}, !.tally = Counted(@, box)]]

Elsewhere(c, email) == email # Unset /\ \E d \in Codes \ {c} : account[d].email = email

(* The address is written as it comes; a code made meanwhile cannot be made again. *)
UpsertUser(z) ==
  \E c \in clerk[z].on :
    LET email == clerk[z].feed[c].email
        isNew == c \notin clerk[z].known
    IN /\ clerk[z].at = "user"
       /\ IF isNew /\ account[c].made
          THEN clerk' = Settled(z, "failed") /\ UNCHANGED <<account, shared>>
          ELSE /\ account' = [account EXCEPT ![c] = [@ EXCEPT !.made = TRUE, !.email = email]]
               /\ shared' = (shared \/ Elsewhere(c, email))
               /\ clerk' = [clerk EXCEPT ![z] = [clerk[z] EXCEPT !.at = "unit", !.isNew = isNew,
                                                                !.known = @ \cup {c}]]
       /\ UNCHANGED <<units, runs, running, errands, doubled, touched>>

(* Variant: the name is looked up as it is spelled. *)
UnitForSpelling(z, name) ==
  IF \E i \in Live : units[i].name = name THEN clerk[z].byKey[Key(name)] ELSE 0

UnitFor(z, name) == clerk[z].byKey[Key(name)]

(* A unit of the same key gives its own spelling; another is made as spelled. *)
ResolveUnit(z) ==
  \E c \in clerk[z].on :
    LET name == clerk[z].feed[c].unit
        found == IF name = Unset THEN 0 ELSE UnitFor(z, name)
        keyed(i, n) == IF i = 0 THEN clerk[z].byKey ELSE [clerk[z].byKey EXCEPT ![Key(n)] = i]
        with(i, n) == [clerk EXCEPT ![z] = [@ EXCEPT !.at = "row", !.unit = i, !.name = n,
                                                     !.byKey = keyed(i, n)]]
    IN /\ clerk[z].at = "unit"
       /\ CASE name = Unset -> clerk' = with(0, Unset) /\ UNCHANGED units
            [] name # Unset /\ found # 0 -> clerk' = with(found, units[found].name) /\ UNCHANGED units
            [] name # Unset /\ found = 0 /\ Named(name) # {} ->
                 clerk' = Settled(z, "failed") /\ UNCHANGED units
            [] OTHER -> /\ Len(units) < MaxUnits
                        /\ units' = Append(units, [live |-> TRUE, name |-> name, areas |-> {}])
                        /\ clerk' = with(Len(units) + 1, name)
       /\ UNCHANGED <<account, runs, running, errands, doubled, touched, shared>>

(* A unit removed meanwhile cannot be referred to. *)
UpsertRow(z) ==
  \E c \in clerk[z].on :
    /\ clerk[z].at = "row"
    /\ IF clerk[z].unit # 0 /\ clerk[z].unit \notin Live
       THEN clerk' = Settled(z, "failed") /\ UNCHANGED account
       ELSE /\ account' = [account EXCEPT ![c] = [@ EXCEPT !.row = TRUE, !.unit = clerk[z].unit,
                             !.name = clerk[z].name, !.area = clerk[z].feed[c].area]]
            /\ clerk' = Settled(z, IF clerk[z].isNew THEN "inserted" ELSE "updated")
    /\ UNCHANGED <<units, runs, running, errands, doubled, touched, shared>>

EndRun(z) ==
  /\ clerk[z].at = "each" /\ clerk[z].todo = {}
  /\ CloseRun(z, "success")
  /\ UNCHANGED <<account, units, errands, doubled, touched, shared>>

(* The process starts again: runs left under way are closed before any other begins. *)
RestartDirectory ==
  /\ \E z \in Clerks : clerk[z].at # "none"
  /\ clerk' = [z \in Clerks |-> Away]
  /\ running' = FALSE
  /\ runs' = [n \in DOMAIN runs |-> IF runs[n].status = "running"
                                    THEN [runs[n] EXCEPT !.status = "failed"] ELSE runs[n]]
  /\ UNCHANGED <<account, units, errands, doubled, touched, shared>>

-----------------------------------------------------------------------------
(* HR's own changes *)

(* Not an address another account has. *)
EditEmployee(z) ==
  \E c \in Codes, email \in Addresses :
    /\ clerk[z].at = "none" /\ account[c].row /\ Errand("edit")
    /\ clerk' = [clerk EXCEPT ![z] = [Away EXCEPT !.at = "check", !.on = {c}, !.email = email]]
    /\ UNCHANGED <<account, units, runs, running, doubled, touched, shared>>

CheckAddress(z) ==
  \E c \in clerk[z].on :
    /\ clerk[z].at = "check"
    /\ clerk' = [clerk EXCEPT ![z] = IF Elsewhere(c, clerk[z].email) THEN Away
                                     ELSE [@ EXCEPT !.at = "write"]]
    /\ UNCHANGED <<account, units, runs, running, errands, doubled, touched, shared>>

WriteAddress(z) ==
  \E c \in clerk[z].on :
    /\ clerk[z].at = "write"
    /\ account' = [account EXCEPT ![c].email = clerk[z].email]
    /\ shared' = (shared \/ Elsewhere(c, clerk[z].email))
    /\ clerk' = [clerk EXCEPT ![z] = Away]
    /\ UNCHANGED <<units, runs, running, errands, doubled, touched>>

(* Only a name spelled the same is taken. *)
CreateUnit ==
  \E name \in UnitNames :
    /\ Errand("unit") /\ Named(name) = {} /\ Len(units) < MaxUnits
    /\ units' = Append(units, [live |-> TRUE, name |-> name, areas |-> {}])
    /\ touched' = TRUE
    /\ UNCHANGED <<account, runs, running, clerk, doubled, shared>>

RenameUnit ==
  \E i \in Live, name \in UnitNames :
    /\ Errand("unit") /\ Named(name) \subseteq {i}
    /\ units' = [units EXCEPT ![i].name = name]
    /\ touched' = TRUE
    /\ UNCHANGED <<account, runs, running, clerk, doubled, shared>>

(* Its people keep its name and lose the unit. *)
RemoveUnit ==
  \E i \in Live :
    /\ Errand("unit")
    /\ units' = [units EXCEPT ![i].live = FALSE]
    /\ account' = [c \in Codes |-> IF account[c].unit = i THEN [account[c] EXCEPT !.unit = 0]
                                   ELSE account[c]]
    /\ touched' = TRUE
    /\ UNCHANGED <<runs, running, clerk, doubled, shared>>

AddDepartment ==
  \E i \in Live, area \in Areas :
    /\ Errand("area") /\ area \notin units[i].areas
    /\ units' = [units EXCEPT ![i].areas = @ \cup {area}]
    /\ UNCHANGED <<account, runs, running, clerk, doubled, touched, shared>>

RemoveDepartment ==
  \E i \in Live :
    \E area \in units[i].areas :
      /\ Errand("area")
      /\ units' = [units EXCEPT ![i].areas = @ \ {area}]
      /\ UNCHANGED <<account, runs, running, clerk, doubled, touched, shared>>

-----------------------------------------------------------------------------
(* What the forms offer *)

(* The departments of a unit, by its name: those its people are in, those set up. *)
GetStructure(name) ==
  {account[c].area : c \in {d \in Codes : account[d].row /\ account[d].name = name}}
    \cup UNION {units[i].areas : i \in Named(name)}

(* The departments people are in, with how many. *)
ListDepartments ==
  [area \in {account[c].area : c \in {d \in Codes : account[d].row}} \ {Unset} |->
     Cardinality({c \in Codes : account[c].row /\ account[c].area = area})]

-----------------------------------------------------------------------------
(* Specification *)

DirectoryInit ==
  /\ account = [c \in Codes |-> Unmade]
  /\ units = <<>> /\ runs = <<>>
  /\ running = FALSE
  /\ clerk = [z \in Clerks |-> Away]
  /\ errands \in Errands
  /\ doubled = FALSE /\ touched = FALSE /\ shared = FALSE

DirectoryNext ==
  \/ \E z \in Clerks :
       \/ StartSync(z) \/ CurrentRun(z) \/ BeginRun(z) \/ FetchEmployees(z) \/ LoadMaps(z)
       \/ NextEmployee(z) \/ UpsertUser(z) \/ ResolveUnit(z) \/ UpsertRow(z) \/ EndRun(z)
       \/ EditEmployee(z) \/ CheckAddress(z) \/ WriteAddress(z)
  \/ RestartDirectory
  \/ CreateUnit \/ RenameUnit \/ RemoveUnit \/ AddDepartment \/ RemoveDepartment

DirectorySpec == DirectoryInit /\ [][DirectoryNext]_zvars

-----------------------------------------------------------------------------
(* Properties *)

(* A row says "running" while a run is at it, and no longer; a run that ends well *)
(* has accounted for everybody, and none failed it for want of a second run or a  *)
(* unit taken away.                                                               *)
RunsSettle ==
  /\ \A n \in DOMAIN runs : runs[n].status = "running" <=> \E z \in Runners : clerk[z].run = n
  /\ \A n \in DOMAIN runs :
       LET t == runs[n].tally
       IN  runs[n].status = "success" =>
             /\ t.processed = Cardinality(Codes)
             /\ t.processed = t.inserted + t.updated + t.skipped + t.failed
             /\ t.failed = 0 \/ doubled \/ touched

(* One unit for every name however ZingHR spells it, its people under it by name   *)
(* and by reference, and their departments offered with it, unless HR has changed  *)
(* units by hand or two runs were under way; and an address is one person's, unless *)
(* ZingHR or two edits at once gave it twice.  Every person with a department is    *)
(* counted in one.                                                                  *)
OneUnitEach ==
  /\ doubled \/ touched \/
       /\ \A i, j \in Live : Key(units[i].name) = Key(units[j].name) => i = j
       /\ \A c \in Codes : account[c].unit # 0 =>
            /\ account[c].name = units[account[c].unit].name
            /\ account[c].area \in GetStructure(units[account[c].unit].name)
  /\ \A c \in Codes : account[c].unit # 0 => account[c].row /\ account[c].unit \in Live
  /\ shared \/ \A c \in Codes : ~Elsewhere(c, account[c].email)
  /\ LET listed == ListDepartments
     IN  \A c \in Codes : account[c].row /\ account[c].area # Unset => listed[account[c].area] > 0

DirectoryWhole == RunsSettle /\ OneUnitEach
=============================================================================
