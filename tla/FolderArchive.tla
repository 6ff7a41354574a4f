--------------------------- MODULE FolderArchive ---------------------------
(***************************************************************************)
(* The archiving of a deleted folder data source: the request that marks it *)
(* deleted and sends two tasks, the task that lists the folder and sends a  *)
(* task per object, and the tasks that copy an object to the archive bucket *)
(* and delete it.  People write in the folder until their access has been   *)
(* revoked.                                                                 *)
(*                                                                         *)
(* A task is delivered again when its worker dies.  Revoking all access is  *)
(* one step here; BucketAccess has its detail.                              *)
(***************************************************************************)
EXTENDS Naturals

CONSTANTS
  Keys,            \* objects of the folder
  MaxRounds,       \* bound: times the folder is listed
  MaxVersions,     \* bound: versions of an object
  MaxDeaths        \* bound: workers and requests that die, calls that fail

ASSUME FolderArchiveAssumption ==
  MaxRounds \in Nat /\ MaxVersions \in Nat \ {0} /\ MaxDeaths \in Nat

VARIABLES
  folder,     \* the request: "live", "saved", "archiving", "told" or "cut short"
  access,     \* people can still write
  object,     \* version of each object in the folder, 0 if there is none
  archive,    \* version of it in the archive bucket
  latest,     \* history: the last version written
  listing,    \* the archive_s3bucket task
  moves,      \* the archive_s3_object tasks, by object and round
  deaths,
  written     \* history: objects written while a worker had copied them

folderVars == <<folder, access, object, archive, latest, listing, moves, deaths, written>>
stores == <<object, archive, latest>>
Rounds == 1 .. MaxRounds
Moves == Keys \X Rounds
Versions == 0 .. MaxVersions
Copied(k) == \E r \in Rounds : moves[<<k, r>>] = "copied"

FolderTypeOK ==
  /\ folder \in {"live", "saved", "archiving", "told", "cut short"} /\ access \in BOOLEAN
  /\ object \in [Keys -> Versions] /\ archive \in [Keys -> Versions]
  /\ latest \in [Keys -> Versions]
  /\ listing \in [pc : {"none", "queued", "sending", "done"}, left : SUBSET Keys,
                  round : 0 .. MaxRounds]
  /\ moves \in [Moves -> {"none", "queued", "copied", "deleted", "done"}]
  /\ deaths \in 0 .. MaxDeaths /\ written \subseteq Keys

FolderInit ==
  /\ folder = "live" /\ access = TRUE
  /\ object = [k \in Keys |-> 0] /\ archive = object /\ latest = object
  /\ listing = [pc |-> "none", left |-> {}, round |-> 0]
  /\ moves = [m \in Moves |-> "none"]
  /\ deaths = 0 /\ written = {}

Dies == deaths < MaxDeaths /\ deaths' = deaths + 1

-----------------------------------------------------------------------------
(* People, and the request: S3Bucket.soft_delete *)

Write(k) ==
  /\ access /\ latest[k] < MaxVersions
  /\ latest' = [latest EXCEPT ![k] = @ + 1]
  /\ object' = [object EXCEPT ![k] = latest[k] + 1]
  /\ written' = IF Copied(k) THEN written \cup {k} ELSE written
  /\ UNCHANGED <<folder, access, archive, listing, moves, deaths>>

SaveDeleted ==
  /\ folder = "live" /\ folder' = "saved"
  /\ UNCHANGED <<access, stores, listing, moves, deaths, written>>

SendArchive ==
  /\ folder = "saved" /\ folder' = "archiving"
  /\ listing' = [listing EXCEPT !.pc = "queued"]
  /\ UNCHANGED <<access, stores, moves, deaths, written>>

SendRevoke ==
  /\ folder = "archiving" /\ folder' = "told"
  /\ UNCHANGED <<access, stores, listing, moves, deaths, written>>

\* The folder stays marked deleted, and what was not sent is not sent.
RequestCut ==
  /\ folder \in {"saved", "archiving"} /\ folder' = "cut short" /\ Dies
  /\ UNCHANGED <<access, stores, listing, moves, written>>

\* The tasks are handled in any order.
RevokeAll ==
  /\ folder = "told" /\ access /\ access' = FALSE
  /\ UNCHANGED <<folder, stores, listing, moves, deaths, written>>

-----------------------------------------------------------------------------
(* ArchiveS3Bucket and ArchiveS3Object *)

TakeListing ==
  /\ listing.pc = "queued" /\ listing.round + 1 \in Rounds
  /\ listing' = [pc |-> "sending", left |-> {k \in Keys : object[k] # 0},
                 round |-> listing.round + 1]
  /\ UNCHANGED <<folder, access, stores, moves, deaths, written>>

SendMove(k) ==
  /\ listing.pc = "sending" /\ k \in listing.left
  /\ moves' = [moves EXCEPT ![<<k, listing.round>>] = "queued"]
  /\ listing' = [listing EXCEPT !.left = @ \ {k}]
  /\ UNCHANGED <<folder, access, stores, deaths, written>>

EndListing ==
  /\ listing.pc = "sending" /\ listing.left = {}
  /\ listing' = [listing EXCEPT !.pc = "done"]
  /\ UNCHANGED <<folder, access, stores, moves, deaths, written>>

\* Delivered again, it lists what is there and sends once more.
ListingDies ==
  /\ listing.pc = "sending" /\ Dies
  /\ listing' = [listing EXCEPT !.pc = "queued", !.left = {}]
  /\ UNCHANGED <<folder, access, stores, moves, written>>

Move(m, from, to) == moves[m] = from /\ moves' = [moves EXCEPT ![m] = to]

CopySkipped(m) ==   \* mutant: the deletion does not wait for the copy
  /\ Move(m, "queued", "copied")
  /\ UNCHANGED <<folder, access, stores, listing, deaths, written>>

\* Without the object the copy raises and the message comes back.
Copy(m) ==
  /\ object[m[1]] # 0 /\ Move(m, "queued", "copied")
  /\ archive' = [archive EXCEPT ![m[1]] = object[m[1]]]
  /\ UNCHANGED <<folder, access, object, latest, listing, deaths, written>>

DeleteOriginal(m) ==
  /\ Move(m, "copied", "deleted")
  /\ object' = [object EXCEPT ![m[1]] = 0]
  /\ UNCHANGED <<folder, access, archive, latest, listing, deaths, written>>

CompleteMove(m) ==
  /\ Move(m, "deleted", "done")
  /\ UNCHANGED <<folder, access, stores, listing, deaths, written>>

MoveDies(m) ==
  /\ moves[m] \in {"copied", "deleted"} /\ Move(m, moves[m], "queued") /\ Dies
  /\ UNCHANGED <<folder, access, stores, listing, written>>

-----------------------------------------------------------------------------
FolderNext ==
  \/ \E k \in Keys : Write(k) \/ SendMove(k)
  \/ SaveDeleted \/ SendArchive \/ SendRevoke \/ RequestCut \/ RevokeAll
  \/ TakeListing \/ EndListing \/ ListingDies
  \/ \E m \in Moves : Copy(m) \/ DeleteOriginal(m) \/ CompleteMove(m) \/ MoveDies(m)

FolderSpec == FolderInit /\ [][FolderNext]_folderVars

\* However tasks are repeated, interleaved or cut off, the last version of an
\* object is in the folder or in the archive, unless it was written while a
\* worker had copied the object and not yet deleted it; then the deletion takes
\* a version nobody copied (aws.py archive_object).
LatestKept == \A k \in Keys \ written : latest[k] \in {object[k], archive[k]}
=============================================================================
