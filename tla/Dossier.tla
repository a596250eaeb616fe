------------------------------- MODULE Dossier -------------------------------
(***************************************************************************)
(* What a requisition carries beside its sign-off chain: the levels the    *)
(* post may be filled at, the facilities HR decides on, and the files in   *)
(* its folder on Google Drive (requisition.service.ts, single-flight.ts,   *)
(* recruitment.service.ts, drive.service.ts).                              *)
(*                                                                         *)
(* Every handler reads the row, works out the whole new value of a column  *)
(* and writes it back; Drive is called in between.  `job` holds where each *)
(* request in flight has come to.  The uploads under way are known to the  *)
(* process only, and are lost when it stops.                               *)
(*                                                                         *)
(* Who may edit is left out: Head of Talent Acquisition always may.        *)
(***************************************************************************)
EXTENDS Integers, FiniteSets

CONSTANTS
  Jobs,          \* requests the API process can serve at the same time
  Levels,        \* designations
  Facilities,    \* facilities a requisitioner may ask for
  Names,         \* names (with sizes) of files
  MaxUploads,    \* bound: files stored on Drive
  MaxTrees,      \* bound: folder trees created on Drive
  MaxWork        \* bound: requests made

ASSUME DossierAssumption == {MaxUploads, MaxTrees, MaxWork} \subseteq Nat

VARIABLES
  analysis,    \* whether the requisition still awaits its job analysis
  post,        \* Requisition.designation and alternateDesignations
  decisions,   \* Requisition.facilities
  folder,      \* Requisition.drive: at most one folder tree
  files,       \* Requisition.attachments
  drive,       \* what lies on Drive
  trees,       \* folder trees of the requisition's name on Drive
  running,     \* SingleFlight: the uploads under way, by name
  job,         \* where each request in flight has come to
  stored,      \* history: files added and not removed since
  work,        \* history: requests made
  tidy         \* history: no request was overtaken by another, or cut off

dvars == <<analysis, post, decisions, folder, files, drive, trees, running, job,
           stored, work, tidy>>

-----------------------------------------------------------------------------
(* Values *)

Maybe(S) == {{}} \cup {{x} : x \in S}

Post == [primary : Levels, others : SUBSET Levels]

Decision == [requested : BOOLEAN, status : {"pending", "confirmed", "skipped"}]

File == [name : Names, id : 1 .. MaxUploads]
Trees == 1 .. MaxTrees
Stored == [id : 1 .. MaxUploads, in : Trees]

JobSteps == {"none", "update", "facilities", "admit", "workspace", "create", "keep",
           "upload", "reread", "append", "discard", "unlist"}

(* `fresh`: the row was not written since this request read it. *)
Job == [step : JobSteps, primary : Maybe(Levels), others : Maybe(SUBSET Levels),
        next : Maybe([Facilities -> Decision]), file : Maybe(Names),
        id : 0 .. MaxUploads, in : Maybe(Trees), saw : SUBSET File, fresh : BOOLEAN]

NoJob == [step |-> "none", primary |-> {}, others |-> {}, next |-> {}, file |-> {},
          id |-> 0, in |-> {}, saw |-> {}, fresh |-> TRUE]

DossierOK ==
  /\ analysis \in BOOLEAN
  /\ post \in Post
  /\ decisions \in [Facilities -> Decision]
  /\ folder \in Maybe(Trees)
  /\ files \subseteq File
  /\ drive \subseteq Stored
  /\ trees \in 0 .. MaxTrees
  /\ running \subseteq Names
  /\ job \in [Jobs -> Job]
  /\ stored \subseteq File
  /\ work \in 0 .. MaxWork
  /\ tidy \in BOOLEAN

-----------------------------------------------------------------------------
(* Requests *)

Has(j, step) == job[j].step = step

Begin(j, as) ==
  /\ Has(j, "none")
  /\ work < MaxWork /\ work' = work + 1
  /\ job' = [job EXCEPT ![j] = as]

Proceed(j, step) == job' = [job EXCEPT ![j].step = step]

Done(j) == job' = [job EXCEPT ![j] = NoJob]

(* A request ends by writing: those between reading and writing at one of
   the steps are overtaken. *)
Overtakes(j, steps) ==
  job' = [i \in Jobs |->
            IF i = j THEN NoJob
            ELSE IF job[i].step \in steps THEN [job[i] EXCEPT !.fresh = FALSE]
            ELSE job[i]]

Tidy(condition) == tidy' = (tidy /\ condition)

(* The job analysis goes on to the chain: nobody adds or removes a file now. *)
Submitted ==
  /\ analysis /\ analysis' = FALSE
  /\ UNCHANGED <<post, decisions, folder, files, drive, trees, running, job,
                 stored, work, tidy>>

-----------------------------------------------------------------------------
(* The post and its levels *)

(* The primary level is not one of its own alternates. *)
NormaliseAlternateDesignations(primary, others) == others \ {primary}

(* What the edit makes of the row it read: a level not sent stays, and so do
   the alternates unless one of the two is sent. *)
NextAlternates(primary, others) ==
  IF primary = {} /\ others = {} THEN {}
  ELSE LET p == IF primary = {} THEN post.primary ELSE CHOOSE x \in primary : TRUE
           o == IF others = {} THEN post.others ELSE UNION others
       IN {NormaliseAlternateDesignations(p, o)}

Update(j) ==
  \E primary \in Maybe(Levels), others \in Maybe(SUBSET Levels) :
    /\ Begin(j, [NoJob EXCEPT !.step = "update", !.primary = primary,
                              !.others = NextAlternates(primary, others)])
    /\ UNCHANGED <<analysis, post, decisions, folder, files, drive, trees, running,
                   stored, tidy>>

CommitUpdate(j) ==
  /\ Has(j, "update")
  /\ post' = [primary |-> IF job[j].primary = {} THEN post.primary
                                                 ELSE CHOOSE x \in job[j].primary : TRUE,
              others |-> IF job[j].others = {} THEN post.others ELSE UNION job[j].others]
  /\ Overtakes(j, {"update"})
  /\ Tidy(job[j].fresh)
  /\ UNCHANGED <<analysis, decisions, folder, files, drive, trees, running, stored, work>>

-----------------------------------------------------------------------------
(* The facilities *)

(* HR may grant what was never asked for: it counts as asked for from then on. *)
Decided(d, status) ==
  [requested |-> d.requested \/ status = "confirmed", status |-> status]

UpdateFacilities(j) ==
  \E f \in Facilities, status \in {"confirmed", "skipped"} :
    /\ decisions[f].status # status
    /\ Begin(j, [NoJob EXCEPT !.step = "facilities",
                   !.next = {[decisions EXCEPT ![f] = Decided(@, status)]}])
    /\ UNCHANGED <<analysis, post, decisions, folder, files, drive, trees, running,
                   stored, tidy>>

(* The column is written back whole: what another request decided meanwhile
   is lost. *)
CommitFacilities(j) ==
  /\ Has(j, "facilities")
  /\ \E next \in job[j].next : decisions' = next
  /\ Overtakes(j, {"facilities"})
  /\ Tidy(job[j].fresh)
  /\ UNCHANGED <<analysis, post, folder, files, drive, trees, running, stored, work>>

-----------------------------------------------------------------------------
(* The workspace on Drive *)

(* post: once published, a folder is made ready in the background. *)
SetupDriveWorkspace(j) ==
  /\ ~analysis
  /\ Begin(j, [NoJob EXCEPT !.step = "workspace", !.in = folder])
  /\ UNCHANGED <<analysis, post, decisions, folder, files, drive, trees, running,
                 stored, tidy>>

(* With its folder at hand the request goes on to its upload, if it has one. *)
InFolder(as) == IF as.file = {} THEN NoJob ELSE [as EXCEPT !.step = "upload"]

(* ensureWorkspace: the tree the row named when it was read, or one of those
   found by name, or a new one. *)
FindFolder(j) ==
  /\ Has(j, "workspace")
  /\ \/ job[j].in # {} /\ job' = [job EXCEPT ![j] = InFolder(@)]
     \/ /\ job[j].in = {}
        /\ \E t \in 1 .. trees : job' = [job EXCEPT ![j].step = "keep", ![j].in = {t}]
     \/ job[j].in = {} /\ trees = 0 /\ Proceed(j, "create")
  /\ UNCHANGED <<analysis, post, decisions, folder, files, drive, trees, running,
                 stored, work, tidy>>

CreateFolder(j) ==
  /\ Has(j, "create") /\ trees < MaxTrees
  /\ trees' = trees + 1
  /\ job' = [job EXCEPT ![j].step = "keep", ![j].in = {trees'}]
  /\ UNCHANGED <<analysis, post, decisions, folder, files, drive, running, stored,
                 work, tidy>>

Kept(tree) == tree

KeepFolder(j) ==
  /\ Has(j, "keep")
  /\ folder' = Kept(job[j].in)
  /\ job' = [job EXCEPT ![j] = InFolder(@)]
  /\ Tidy(folder \subseteq job[j].in)
  /\ UNCHANGED <<analysis, post, decisions, files, drive, trees, running, stored, work>>

-----------------------------------------------------------------------------
(* The files *)

NamesIn(list) == {f.name : f \in list}

AddAttachment(j) ==
  \E name \in Names :
    /\ analysis
    /\ Begin(j, [NoJob EXCEPT !.step = "admit", !.file = {name}, !.in = folder, !.saw = files])
    /\ UNCHANGED <<analysis, post, decisions, folder, files, drive, trees, running,
                   stored, tidy>>

(* The same file again is kept as it is, or joins the upload under way. *)
Again(j) == job[j].file \cap (NamesIn(job[j].saw) \cup running) # {}

Admit(j) ==
  /\ Has(j, "admit")
  /\ IF Again(j) THEN Done(j) /\ UNCHANGED running
     ELSE Proceed(j, "workspace") /\ running' = running \cup job[j].file
  /\ Tidy(Again(j) \/ job[j].file \cap NamesIn(files) = {})
  /\ UNCHANGED <<analysis, post, decisions, folder, files, drive, trees, stored, work>>

Upload(j) ==
  /\ Has(j, "upload")
  /\ \E id \in 1 .. MaxUploads :
       /\ \A x \in drive \cup stored : x.id # id
       /\ \A i \in Jobs : job[i].id # id
       /\ drive' = drive \cup {[id |-> id, in |-> t] : t \in job[j].in}
       /\ job' = [job EXCEPT ![j].step = "reread", ![j].id = id]
  /\ UNCHANGED <<analysis, post, decisions, folder, files, trees, running, stored,
                 work, tidy>>

(* Variant: the list read before the upload is the one written back. *)
ListBefore(j) == job[j].saw

(* The list is read again, as the upload took a while. *)
ListNow(j) == files

Reread(j) ==
  /\ Has(j, "reread")
  /\ job' = [job EXCEPT ![j] = [@ EXCEPT !.step = "append", !.saw = ListNow(j), !.fresh = TRUE]]
  /\ UNCHANGED <<analysis, post, decisions, folder, files, drive, trees, running,
                 stored, work, tidy>>

Added(j) == {[name |-> n, id |-> job[j].id] : n \in job[j].file}

AppendFile(j) ==
  /\ Has(j, "append")
  /\ files' = job[j].saw \cup Added(j)
  /\ stored' = stored \cup Added(j)
  /\ running' = running \ job[j].file
  /\ Overtakes(j, {"append", "discard", "unlist"})
  /\ Tidy(job[j].fresh)
  /\ UNCHANGED <<analysis, post, decisions, folder, drive, trees, work>>

RemoveAttachment(j) ==
  \E f \in files :
    /\ analysis
    /\ Begin(j, [NoJob EXCEPT !.step = "discard", !.file = {f.name}, !.id = f.id, !.saw = files])
    /\ UNCHANGED <<analysis, post, decisions, folder, files, drive, trees, running,
                   stored, tidy>>

(* As well as Drive allows: what it refuses is taken off the list anyway. *)
Discard(j) ==
  /\ Has(j, "discard")
  /\ \/ drive' = {x \in drive : x.id # job[j].id}
     \/ UNCHANGED drive
  /\ Proceed(j, "unlist")
  /\ UNCHANGED <<analysis, post, decisions, folder, files, trees, running, stored,
                 work, tidy>>

Unlist(j) ==
  /\ Has(j, "unlist")
  /\ files' = {f \in job[j].saw : f.id # job[j].id}
  /\ stored' = {f \in stored : f.id # job[j].id}
  /\ Overtakes(j, {"append", "discard", "unlist"})
  /\ Tidy(job[j].fresh)
  /\ UNCHANGED <<analysis, post, decisions, folder, drive, trees, running, work>>

(* A call to Drive fails: the request ends there, and its upload with it. *)
DriveFails(j) ==
  /\ job[j].step \in {"workspace", "create", "upload"}
  /\ running' = running \ job[j].file
  /\ Done(j)
  /\ UNCHANGED <<analysis, post, decisions, folder, files, drive, trees, stored, work, tidy>>

(* The process stops: what was being removed may be gone and still listed. *)
Stop ==
  /\ \E j \in Jobs : ~Has(j, "none")
  /\ job' = [j \in Jobs |-> NoJob]
  /\ running' = {}
  /\ Tidy(\A j \in Jobs : ~Has(j, "unlist"))
  /\ UNCHANGED <<analysis, post, decisions, folder, files, drive, trees, stored, work>>

-----------------------------------------------------------------------------
(* Specification *)

DossierInit ==
  /\ analysis = TRUE
  /\ post \in {p \in Post : p.primary \notin p.others}
  /\ decisions \in [Facilities -> {[requested |-> b, status |-> "pending"] : b \in BOOLEAN}]
  /\ folder = {} /\ files = {} /\ drive = {} /\ trees = 0 /\ running = {}
  /\ job = [j \in Jobs |-> NoJob]
  /\ stored = {} /\ work = 0 /\ tidy = TRUE

DossierNext ==
  \/ \E j \in Jobs :
       \/ Update(j) \/ CommitUpdate(j)
       \/ UpdateFacilities(j) \/ CommitFacilities(j)
       \/ SetupDriveWorkspace(j) \/ FindFolder(j) \/ CreateFolder(j) \/ KeepFolder(j)
       \/ AddAttachment(j) \/ Admit(j) \/ Upload(j) \/ Reread(j) \/ AppendFile(j)
       \/ RemoveAttachment(j) \/ Discard(j) \/ Unlist(j) \/ DriveFails(j)
  \/ Submitted \/ Stop

DossierSpec == DossierInit /\ [][DossierNext]_dvars

-----------------------------------------------------------------------------
(* Properties *)

(* The sheet never offers one level twice as long as no edit is overtaken, and
   what HR confirmed always counts as asked for, or Facility Provisioning
   would not list it: even when one decision overwrites another. *)
RecordAddsUp ==
  /\ tidy => post.primary \notin post.others
  /\ \A f \in Facilities : decisions[f].status = "confirmed" => decisions[f].requested

(* Files are added and removed by reading the list, calling Drive for a while
   and writing the list.  As long as no request is overtaken between its last
   look and its write, every file added and not removed is listed, exactly
   once by its name, lies on Drive, and lies in the folder the row names;
   whichever uploads overlap, fail or are cut off. *)
FilesStay ==
  tidy =>
    /\ stored = files
    /\ \A f, g \in files : f.name = g.name => f = g
    /\ \A f \in files :
         \/ \E x \in drive : x.id = f.id /\ folder = {x.in}
         \/ \E j \in Jobs : Has(j, "unlist") /\ job[j].id = f.id

(* The requisition adds up as it is edited, and its files are those people left there. *)
DossierInOrder == RecordAddsUp /\ FilesStay
=============================================================================
