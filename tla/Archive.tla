------------------------------- MODULE Archive -------------------------------
(***************************************************************************)
(* The permanent file of one hire on Google Drive: the candidate's folder,  *)
(* which every upload looks up or makes, the reference checks, which live   *)
(* in the database until they are written down, and the archiving that      *)
(* files the forms, moves the folder and keeps its address                  *)
(* (onboarding.service, reference-check.service, drive.service).            *)
(*                                                                          *)
(* A call to Drive is an action and may fail.  The folders of the           *)
(* requisition itself are in Dossier, what a document says is in Joining,   *)
(* and the development server's sandbox, which moves nothing, is left out.  *)
(***************************************************************************)
EXTENDS Naturals, Sequences, FiniteSets

CONSTANTS
  Works,      \* uploads and archivings that can be under way at the same time
  Scans,      \* documents the candidate may upload
  Referees,   \* people asked about the candidate
  MaxFolders, \* bound: folders ever made
  Orders      \* bound: how often each kind of request is made

Ordered == {"upload", "reference", "archive"}

ASSUME OrdersAssumption == Orders \subseteq [Ordered -> Nat] /\ MaxFolders \in Nat

VARIABLES
  folders,   \* the folders "<name> -- Joining Docs" on Drive, oldest first
  onRow,     \* OnboardingDoc rows
  refs,      \* ReferenceCheck rows: how often each was saved, 0 when there is none
  kept,      \* archivedAt and archiveFolderUrl
  work,      \* where each upload and each archiving has come to
  orders,    \* history: how many more requests are made
  late,      \* history: documents put into a new folder after the first was archived
  since,     \* history: referees whose form changed after the last listing
  unfiled,   \* history: forms of the last listing that were not rendered or not uploaded
  twins,     \* history: two were about to make the folder at once
  oneByOne   \* history: no two archivings met and none died after the folder moved

avars == <<folders, onRow, refs, kept, work, orders, late, since, unfiled, twins, oneByOne>>

-----------------------------------------------------------------------------
(* Values *)

Folder == [place : {"joining", "archive"}, docs : SUBSET Scans, forms : [Referees -> Seq(Nat)]]

Work == [at : {"none", "find", "make", "put", "list", "form", "record"},
         archive : BOOLEAN,
         scan : SUBSET Scans,            \* the document of an upload
         folder : 0..MaxFolders,
         url : 0..MaxFolders,            \* the address as read, or to be kept
         todo : SUBSET Referees,
         saw : [Referees -> Nat]]

Resting == [at |-> "none", archive |-> FALSE, scan |-> {}, folder |-> 0, url |-> 0, todo |-> {},
            saw |-> [x \in Referees |-> 0]]

ArchiveTypeOK ==
  /\ folders \in Seq(Folder) /\ Len(folders) <= MaxFolders
  /\ onRow \subseteq Scans
  /\ refs \in [Referees -> Nat]
  /\ kept \in [archived : BOOLEAN, url : 0..MaxFolders]
  /\ work \in [Works -> Work]
  /\ orders \in [Ordered -> Nat]
  /\ late \subseteq Scans /\ since \subseteq Referees /\ unfiled \subseteq Referees
  /\ {twins, oneByOne} \subseteq BOOLEAN

Order(kind) == orders[kind] > 0 /\ orders' = [orders EXCEPT ![kind] = @ - 1]

In(place) == {i \in DOMAIN folders : folders[i].place = place}

Archiving == {k \in Works : work[k].at # "none" /\ work[k].archive}

To(k, at) == [work EXCEPT ![k].at = at]

-----------------------------------------------------------------------------
(* The folder of the candidate *)

(* publicUpload; fileWithJoiningDocs for a paper the system makes. *)
PublicUploadScan(k) ==
  \E d \in Scans \ onRow :
    /\ work[k].at = "none" /\ Order("upload")
    /\ work' = [work EXCEPT ![k] = [Resting EXCEPT !.at = "find", !.scan = {d}]]
    /\ UNCHANGED <<folders, onRow, refs, kept, late, since, unfiled, twins, oneByOne>>

(* Variant: what is found is not looked at. *)
FoundNone == {}

(* findFolder: by its name, in the requisition's folder of joining documents. *)
Found == In("joining")

EnsureFolder(k) ==
  /\ work[k].at = "find"
  /\ IF Found = {} THEN work' = To(k, "make")
     ELSE \E i \in Found :
            work' = [work EXCEPT ![k] =
              [@ EXCEPT !.at = IF work[k].archive THEN "list" ELSE "put", !.folder = i]]
  /\ UNCHANGED <<folders, onRow, refs, kept, orders, late, since, unfiled, twins, oneByOne>>

MakeFolder(k) ==
  /\ work[k].at = "make"
  /\ Len(folders) < MaxFolders
  /\ folders' = Append(folders, [place |-> "joining", docs |-> {},
                                 forms |-> [x \in Referees |-> << >>]])
  /\ twins' = (twins \/ \E j \in Works \ {k} : work[j].at = "make")
  /\ work' = [work EXCEPT ![k] =
       [@ EXCEPT !.at = IF work[k].archive THEN "list" ELSE "put", !.folder = Len(folders) + 1]]
  /\ UNCHANGED <<onRow, refs, kept, orders, late, since, unfiled, oneByOne>>

(* uploadFile goes by the folder's id, wherever the folder has gone, and the row follows. *)
PutScan(k) ==
  /\ work[k].at = "put"
  /\ folders' = [folders EXCEPT ![work[k].folder].docs = @ \cup work[k].scan]
  /\ onRow' = onRow \cup work[k].scan
  /\ late' = IF In("archive") # {} /\ work[k].folder \in In("joining")
             THEN late \cup work[k].scan ELSE late
  /\ work' = [work EXCEPT ![k] = Resting]
  /\ UNCHANGED <<refs, kept, orders, since, unfiled, twins, oneByOne>>

-----------------------------------------------------------------------------
(* Reference checks *)

(* save: a new form or a change to one, before the archiving or after it. *)
SaveReference ==
  \E x \in Referees :
    /\ Order("reference")
    /\ refs' = [refs EXCEPT ![x] = @ + 1]
    /\ since' = since \cup {x}
    /\ UNCHANGED <<folders, onRow, kept, work, late, unfiled, twins, oneByOne>>

RemoveReference ==
  \E x \in Referees :
    /\ Order("reference")
    /\ refs[x] # 0
    /\ refs' = [refs EXCEPT ![x] = 0]
    /\ since' = since \cup {x}
    /\ UNCHANGED <<folders, onRow, kept, work, late, unfiled, twins, oneByOne>>

-----------------------------------------------------------------------------
(* Archiving *)

(* A second archiving keeps the address there is. *)
StartArchive(k) ==
  /\ work[k].at = "none" /\ Order("archive")
  /\ work' = [work EXCEPT ![k] =
       [Resting EXCEPT !.at = IF kept.url = 0 THEN "find" ELSE "record",
                       !.archive = TRUE, !.url = kept.url]]
  /\ oneByOne' = (oneByOne /\ Archiving = {})
  /\ UNCHANGED <<folders, onRow, refs, kept, late, since, unfiled, twins>>

(* renderAllForFiling reads every form as it is now. *)
RenderAllForFiling(k) ==
  /\ work[k].at = "list"
  /\ work' = [work EXCEPT ![k] =
       [@ EXCEPT !.at = "form", !.saw = refs, !.todo = {x \in Referees : refs[x] # 0}]]
  /\ since' = {} /\ unfiled' = {}
  /\ UNCHANGED <<folders, onRow, refs, kept, orders, late, twins, oneByOne>>

(* A form that cannot be rendered or uploaded is left out, and the log says so. *)
FileForm(k) ==
  \E x \in work[k].todo :
    /\ work[k].at = "form"
    /\ work' = [work EXCEPT ![k].todo = @ \ {x}]
    /\ \/ /\ folders' = [folders EXCEPT ![work[k].folder].forms[x] = Append(@, work[k].saw[x])]
          /\ UNCHANGED unfiled
       \/ unfiled' = unfiled \cup {x} /\ UNCHANGED folders
    /\ UNCHANGED <<onRow, refs, kept, orders, late, since, twins, oneByOne>>

MoveFolder(k) ==
  /\ work[k].at = "form"
  /\ work[k].todo = {}
  /\ folders' = [folders EXCEPT ![work[k].folder].place = "archive"]
  /\ work' = [work EXCEPT ![k] = [@ EXCEPT !.at = "record", !.url = work[k].folder]]
  /\ UNCHANGED <<onRow, refs, kept, orders, late, since, unfiled, twins, oneByOne>>

(* An archiving that Drive fails is "flag-only"; an upload is refused. *)
DriveFails(k) ==
  /\ work[k].at \in {"find", "make", "put", "form"}
  /\ work' = IF work[k].archive THEN To(k, "record") ELSE [work EXCEPT ![k] = Resting]
  /\ UNCHANGED <<folders, onRow, refs, kept, orders, late, since, unfiled, twins, oneByOne>>

RecordArchive(k) ==
  /\ work[k].at = "record"
  /\ kept' = [archived |-> TRUE, url |-> work[k].url]
  /\ work' = [work EXCEPT ![k] = Resting]
  /\ UNCHANGED <<folders, onRow, refs, orders, late, since, unfiled, twins, oneByOne>>

RestartDrive ==
  /\ \E k \in Works : work[k].at # "none"
  /\ work' = [k \in Works |-> Resting]
  /\ oneByOne' = (oneByOne /\ \A k \in Archiving : work[k].url = kept.url)
  /\ UNCHANGED <<folders, onRow, refs, kept, orders, late, since, unfiled, twins>>

(* archiveFiles: what HR may open of an archived hire; a flag-only archive has no files. *)
ArchiveFiles ==
  IF ~kept.archived \/ kept.url = 0 THEN {}
  ELSE folders[kept.url].docs \cup {x \in Referees : folders[kept.url].forms[x] # << >>}

-----------------------------------------------------------------------------

ArchiveInit ==
  /\ folders = << >>
  /\ onRow = {}
  /\ refs = [x \in Referees |-> 0]
  /\ kept = [archived |-> FALSE, url |-> 0]
  /\ work = [k \in Works |-> Resting]
  /\ orders \in Orders
  /\ late = {} /\ since = {} /\ unfiled = {}
  /\ twins = FALSE /\ oneByOne = TRUE

ArchiveNext ==
  \/ SaveReference \/ RemoveReference \/ RestartDrive
  \/ \E k \in Works :
       \/ PublicUploadScan(k) \/ EnsureFolder(k) \/ MakeFolder(k) \/ PutScan(k)
       \/ StartArchive(k) \/ RenderAllForFiling(k) \/ FileForm(k) \/ MoveFolder(k)
       \/ DriveFails(k) \/ RecordArchive(k)

ArchiveSpec == ArchiveInit /\ [][ArchiveNext]_avars

-----------------------------------------------------------------------------
(* Properties *)

Orderly == oneByOne /\ ~twins /\ kept.url # 0

(* "Anyone the recruitment gate already lets through sees every document in the file":
   every document on record is among the archived hire's, save those that came after the
   archiving, whatever Drive refused on the way (archive, publicUpload, archiveFiles).
   It takes that no archiving dies between the move and the row, and that two first
   uploads do not both make the folder. *)
PapersArchived ==
  Orderly => kept.url \in In("archive") /\ onRow \ late \subseteq ArchiveFiles

(* "This is the moment to write them down": the archive holds each reference check as it
   stands, unless it was changed since or could not be filed (renderAllForFiling). *)
FormsArchived ==
  Orderly => \A x \in Referees \ (since \cup unfiled) :
    refs[x] # 0 => \E i \in DOMAIN folders[kept.url].forms[x] :
                     folders[kept.url].forms[x][i] = refs[x]

(* Archiving again never takes the file elsewhere. *)
AddressStays == [][kept.url # 0 /\ oneByOne' => kept'.url = kept.url]_avars

(* The permanent file is whole and stays where it is. *)
ArchiveWhole == [](PapersArchived /\ FormsArchived) /\ AddressStays
=============================================================================
