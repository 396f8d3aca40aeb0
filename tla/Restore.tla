------------------------------- MODULE Restore -------------------------------
(***************************************************************************)
(* Backup archives and the restore that replaces the whole database and    *)
(* the uploads directory (src/lib/create-backup.ts, src/lib/restore.ts),   *)
(* beside the requests that add and remove screenshots                     *)
(* (src/app/api/trades/[id]/assets/route.ts) and the factory reset.        *)
(*                                                                         *)
(* The server is one thread: code between two awaits is one step, and the  *)
(* replacement of the database is one synchronous section.  Any number of  *)
(* restore requests may await their snapshots before it; nothing but the   *)
(* section itself keeps them apart.  File system calls that were started   *)
(* earlier (an unlink, a write, the archiver's reads) still happen during  *)
(* the section.  The server may crash anywhere.                            *)
(*                                                                         *)
(* Of the database there is what validation and the file system depend on: *)
(* the status of each trade, the trade of each screenshot row, and whether *)
(* the triggers that keep posted rows from being deleted are in force.     *)
(***************************************************************************)
EXTENDS Integers, FiniteSets

CONSTANTS
  Trades,
  Assets,          \* file names, one uuid per upload
  NoTrade,         \* the owner of an asset that has no row
  Requests,        \* restore requests the server may serve at once
  MaxScreenshots,  \* 5 in the code
  MaxArchives,     \* bound: archives written or being collected
  MaxCrashes       \* bound: crashes of the server

ASSUME NoTradeAssumption == NoTrade \notin Trades
ASSUME RequestsAssumption == "job" \notin Requests
ASSUME LimitsAssumption ==
  MaxScreenshots \in Nat \ {0} /\ MaxArchives \in Nat /\ MaxCrashes \in Nat

VARIABLES
  database,    \* committed rows
  disk,        \* the uploads directory and those beside it
  archives,    \* ZIP files that were completely written
  building,    \* archive being collected, per builder
  awaiting,    \* [Requests -> the archive to restore, while its snapshot is made]
  restore,     \* the synchronous section of a restore
  work,        \* what the open transaction has written
  upload,      \* [Assets -> progress of the request that uploads it]
  unlinking,   \* files whose asynchronous removal has not happened yet
  \* history
  raced,       \* files with a write or removal in flight at a directory swap
  halfDeleted, \* files that a DELETE began to remove and whose row it then kept
  crashes,     \* crashes so far
  interrupted, \* a swap was cut off: by a crash, or as its rollback failed
  littered     \* a crash, a cleanup or a rollback has left a directory

history == <<raced, halfDeleted, crashes, interrupted, littered>>
vars == <<database, disk, archives, building, awaiting, restore, work, upload, unlinking,
          history>>

Builders == {"job"} \cup Requests
\* What is not open, planned or closed, is alike to a restore.
TradeStatuses == {"none", "notOpen", "open"}

Rows == [status : [Trades -> TradeStatuses], owner : [Assets -> Trades \cup {NoTrade}]]
Directory == [exists : BOOLEAN, files : SUBSET Assets]
Missing == [exists |-> FALSE, files |-> {}]
DirectoryOf(files) == [exists |-> TRUE, files |-> files]

NoRows == [status |-> [t \in Trades |-> "none"], owner |-> [a \in Assets |-> NoTrade]]

\* The files the rows of trade_assets name.
Referenced(rows) == {a \in Assets : rows.owner[a] # NoTrade}
-----------------------------------------------------------------------------
(* Archives *)

\* validateTradeAssetReferences: every local file a row names is in the ZIP.
\* Manifest, row counts and ledger balance hold of every archive written here.
AssetsComplete(archive) == Referenced(archive.rows) \subseteq archive.files

\* checkOpenTrades
NoOpenTrades(rows) == \A t \in Trades : rows.status[t] # "open"

ValidateRestoreZip(archive) == AssetsComplete(archive) /\ NoOpenTrades(database.rows)

IdleBuild == [active |-> FALSE, rows |-> NoRows, pending |-> {}, files |-> {},
              disturbed |-> FALSE]

\* Files whose rows may outlive them: the only ones a guarantee leaves out.
Exempt == raced \cup halfDeleted

\* createBackupBuffer up to its last await: tables are serialized and the
\* directory is listed at one instant, a missing directory lists nothing.
SerializedBuild ==
  [active |-> TRUE, rows |-> database.rows, pending |-> disk.live.files, files |-> {},
   disturbed |-> interrupted \/ Referenced(database.rows) \cap Exempt # {}]

\* Mutation: tables are read when the archive is closed.
ArchiveOfLateRows(build) ==
  [rows |-> database.rows, files |-> build.files]

ArchiveOf(build) == [rows |-> build.rows, files |-> build.files]

\* Mutation: the archiver waits for a file that is no longer there.
MayReadWhenPresent(a) == a \in disk.live.files

\* A listed file that has disappeared is skipped with a warning nobody handles.
MayRead(a) == TRUE

\* History: builds that a removal or a swap overlaps, or that began with rows
\* whose files a race, a failed DELETE or a cut-off swap had already cost.
Disturbed(builds) ==
  [b \in Builders |-> [builds[b] EXCEPT !.disturbed = builds[b].active \/ @]]

\* Bound: archives written and being collected.
MayCollect ==
  Cardinality(archives) + Cardinality({b \in Builders : building[b].active}) < MaxArchives

ReadAsset(b, a) ==
  /\ building[b].active /\ a \in building[b].pending
  /\ MayRead(a)
  /\ building' = [building EXCEPT ![b].pending = @ \ {a},
                    ![b].files = IF a \in disk.live.files THEN @ \cup {a} ELSE @]
  /\ UNCHANGED <<database, disk, archives, awaiting, restore, work, upload, unlinking, history>>

\* The job's archive is complete: its promise resolves and it is written.
FinishBackup ==
  /\ building["job"].active /\ building["job"].pending = {}
  /\ archives' = archives \cup {ArchiveOf(building["job"])}
  /\ building' = [building EXCEPT !["job"] = IdleBuild]
  /\ UNCHANGED <<database, disk, awaiting, restore, work, upload, unlinking, history>>
-----------------------------------------------------------------------------
(* The directory swap (stageUploadSwap) *)

\* Rename the live directory, if there is one, out of the way.
MovedAside(d) ==
  [d EXCEPT !.live = Missing, !.previous = IF d.live.exists THEN d.live ELSE Missing]

\* Mutation: the previous directory is removed as soon as it is replaced.
MovedInDroppingPrevious(d) ==
  [d EXCEPT !.live = d.staging, !.previous = Missing, !.staging = Missing, !.swapped = TRUE]

\* Mutation: the restored files are written into the directory as it was.
MovedInOverPrevious(d) ==
  [d EXCEPT !.live = DirectoryOf(d.staging.files \cup d.previous.files), !.staging = Missing,
            !.swapped = TRUE]

\* Rename the staging directory into its place.
MovedIn(d) == [d EXCEPT !.live = d.staging, !.staging = Missing, !.swapped = TRUE]

\* Mutation: a rollback does not remember that it ran.
RolledBackKeepingSwapped(d) ==
  LET live == IF d.swapped THEN Missing ELSE d.live
      back == d.previous.exists /\ ~live.exists
  IN [d EXCEPT !.live = IF back THEN d.previous ELSE live,
               !.previous = IF back THEN Missing ELSE d.previous,
               !.staging = Missing]

\* rollback(): the swapped-in directory is removed and the previous one returns.
RolledBack(d) ==
  LET live == IF d.swapped THEN Missing ELSE d.live
      back == d.previous.exists /\ ~live.exists
  IN [d EXCEPT !.live = IF back THEN d.previous ELSE live,
               !.previous = IF back THEN Missing ELSE d.previous,
               !.staging = Missing, !.swapped = FALSE]

\* Mutation: the directory moved aside is forgotten.
CleanedUpLeavingPrevious(d) == [d EXCEPT !.staging = Missing, !.swapped = FALSE]

\* cleanup() after the commit
CleanedUp(d) == [d EXCEPT !.staging = Missing, !.previous = Missing, !.swapped = FALSE]

\* The restore is gone and its directories stay beside the live one.
Abandoned(d) ==
  [CleanedUp(d) EXCEPT !.leftover =
     [exists |-> d.leftover.exists \/ d.previous.exists \/ d.staging.exists,
      files |-> d.leftover.files \cup d.previous.files \cup d.staging.files]]
-----------------------------------------------------------------------------
(* Restore *)

\* No other handler runs inside the synchronous section of a restore.
InSection == restore.step # "idle"

\* The live directory is not the one of the committed rows.
Swapping == restore.step \in {"moved", "swapped"}

NoWork == [rows |-> NoRows, guarded |-> TRUE]

NoArchive == ArchiveOf(IdleBuild)
NoRestore == [step |-> "idle", archive |-> NoArchive]

\* Files whose write or removal is in flight while a directory is renamed.
InFlight == unlinking \cup {a \in Assets : upload[a].step = "written"}

\* executeRestore up to the await of its snapshot: nothing tells it of another
\* request that awaits its own.
BeginRestore(r, archive) ==
  /\ ~InSection /\ ~building[r].active /\ MayCollect
  /\ ValidateRestoreZip(archive)
  /\ awaiting' = [awaiting EXCEPT ![r] = archive]
  /\ building' = [building EXCEPT ![r] = SerializedBuild]
  /\ UNCHANGED <<database, disk, archives, restore, work, upload, unlinking, history>>

\* The snapshot resolves: it is written and the restored files are staged.
StageUploads(r) ==
  /\ ~InSection /\ building[r].active /\ building[r].pending = {}
  /\ archives' = archives \cup {ArchiveOf(building[r])}
  /\ building' = [building EXCEPT ![r] = IdleBuild]
  /\ disk' = [disk EXCEPT !.staging = DirectoryOf(awaiting[r].files)]
  /\ restore' = [step |-> "staged", archive |-> awaiting[r]]
  /\ awaiting' = [awaiting EXCEPT ![r] = NoArchive]
  /\ UNCHANGED <<database, work, upload, unlinking, history>>

\* The snapshot cannot be made or written.
FailSnapshot(r) ==
  /\ ~InSection /\ building[r].active
  /\ building' = [building EXCEPT ![r] = IdleBuild]
  /\ awaiting' = [awaiting EXCEPT ![r] = NoArchive]
  /\ UNCHANGED <<database, disk, archives, restore, work, upload, unlinking, history>>

\* Mutation: the triggers are dropped before the transaction is opened.
ReplaceOutsideTransaction ==
  /\ restore.step = "staged"
  /\ work' = [rows |-> restore.archive.rows, guarded |-> FALSE]
  /\ database' = [database EXCEPT !.guarded = FALSE]
  /\ restore' = [restore EXCEPT !.step = "replaced"]
  /\ UNCHANGED <<disk, archives, building, awaiting, upload, unlinking, history>>

\* Inside the transaction: triggers dropped, rows deleted, the archive's rows
\* inserted, positions rebuilt.
ReplaceRows ==
  /\ restore.step = "staged"
  /\ work' = [rows |-> restore.archive.rows, guarded |-> FALSE]
  /\ restore' = [restore EXCEPT !.step = "replaced"]
  /\ UNCHANGED <<database, disk, archives, building, awaiting, upload, unlinking, history>>

\* Inside the transaction: the first and the second rename of swap().
MoveLiveAside ==
  /\ restore.step = "replaced"
  /\ disk' = MovedAside(disk)
  /\ raced' = raced \cup InFlight
  /\ building' = Disturbed(building)
  /\ restore' = [restore EXCEPT !.step = "moved"]
  /\ UNCHANGED <<database, archives, awaiting, work, upload, unlinking,
                 halfDeleted, crashes, interrupted, littered>>

MoveStagedIn ==
  /\ restore.step = "moved"
  /\ disk' = MovedIn(disk)
  /\ restore' = [restore EXCEPT !.step = "swapped"]
  /\ UNCHANGED <<database, archives, building, awaiting, work, upload, unlinking, history>>

\* The triggers are created again and the transaction commits: no row of it
\* misses its file for a DELETE that failed before.
CommitRestore ==
  /\ restore.step = "swapped"
  /\ database' = [work EXCEPT !.guarded = TRUE]
  /\ restore' = [NoRestore EXCEPT !.step = "committed"]
  /\ work' = NoWork
  /\ halfDeleted' = {}
  /\ UNCHANGED <<disk, archives, building, awaiting, upload, unlinking,
                 raced, crashes, interrupted, littered>>

CleanUp ==
  /\ restore.step = "committed"
  /\ disk' = CleanedUp(disk)
  /\ restore' = NoRestore
  /\ UNCHANGED <<database, archives, building, awaiting, work, upload, unlinking, history>>

\* The old directory cannot be removed, or not whole: the restore has succeeded
\* all the same and leaves it for manual cleanup.
FailCleanUp ==
  /\ restore.step = "committed" /\ disk.previous.exists
  /\ \E rest \in SUBSET disk.previous.files :
       disk' = Abandoned([disk EXCEPT !.previous = DirectoryOf(rest)])
  /\ littered' = TRUE
  /\ restore' = NoRestore
  /\ UNCHANGED <<database, archives, building, awaiting, work, upload, unlinking,
                 raced, halfDeleted, crashes, interrupted>>

\* A statement, a rename or the commit fails: SQLite rolls back, and the
\* directories are rolled back by onRollback and again by the outer catch.
FailRestore ==
  /\ restore.step \in {"staged", "replaced", "moved", "swapped"}
  /\ disk' = RolledBack(RolledBack(disk))
  /\ raced' = IF Swapping THEN raced \cup InFlight ELSE raced
  /\ restore' = NoRestore /\ work' = NoWork
  /\ UNCHANGED <<database, archives, building, awaiting, upload, unlinking,
                 halfDeleted, crashes, interrupted, littered>>

\* What a removal of the swapped-in directory that fails leaves of it.
Remains ==
  IF restore.step = "swapped" THEN {Missing} \cup {DirectoryOf(f) : f \in SUBSET disk.live.files}
  ELSE {disk.live}

\* Neither rollback gets through: a directory cannot be removed or renamed back.
FailRollback ==
  /\ restore.step \in {"staged", "replaced", "moved", "swapped"}
  /\ \E live \in Remains : disk' = [Abandoned(disk) EXCEPT !.live = live]
  /\ raced' = IF Swapping THEN raced \cup InFlight ELSE raced
  /\ interrupted' = (interrupted \/ Swapping)
  /\ littered' = TRUE
  /\ restore' = NoRestore /\ work' = NoWork
  /\ UNCHANGED <<database, archives, building, awaiting, upload, unlinking,
                 halfDeleted, crashes>>
-----------------------------------------------------------------------------
(* Other requests *)

StartBackup ==
  /\ ~InSection /\ ~building["job"].active /\ MayCollect
  /\ building' = [building EXCEPT !["job"] = SerializedBuild]
  /\ UNCHANGED <<database, disk, archives, awaiting, restore, work, upload, unlinking, history>>

\* A trade is planned, opened, closed or reopened (TradeLifecycle has the details).
TradeSteps == {<<"none", "notOpen">>, <<"notOpen", "open">>, <<"open", "notOpen">>}

MoveTrade(t, status) ==
  /\ ~InSection
  /\ <<database.rows.status[t], status>> \in TradeSteps
  /\ database' = [database EXCEPT !.rows.status[t] = status]
  /\ UNCHANGED <<disk, archives, building, awaiting, restore, work, upload, unlinking, history>>

\* A file name is a fresh uuid: it is uploaded once.
UploadDone == [step |-> "done", trade |-> NoTrade]

Screenshots(t) == Cardinality({a \in Assets : database.rows.owner[a] = t})

\* POST assets up to `await file.arrayBuffer()`: the limit is checked here.
CheckUpload(a, t) ==
  /\ ~InSection /\ upload[a].step = "fresh"
  /\ database.rows.status[t] # "none"
  /\ Screenshots(t) < MaxScreenshots
  /\ upload' = [upload EXCEPT ![a] = [step |-> "checked", trade |-> t]]
  /\ UNCHANGED <<database, disk, archives, building, awaiting, restore, work, unlinking, history>>

\* writeFile, on a thread of its own; without a directory it fails.
WriteUpload(a) ==
  /\ upload[a].step = "checked"
  /\ IF disk.live.exists
       THEN /\ disk' = [disk EXCEPT !.live.files = @ \cup {a}]
            /\ upload' = [upload EXCEPT ![a].step = "written"]
       ELSE /\ upload' = [upload EXCEPT ![a] = UploadDone]
            /\ UNCHANGED disk
  /\ UNCHANGED <<database, archives, building, awaiting, restore, work, unlinking, history>>

\* After the await: insert the row, if the trade's row is still there.
InsertAsset(a) ==
  /\ ~InSection /\ upload[a].step = "written"
  /\ upload' = [upload EXCEPT ![a] = UploadDone]
  /\ database' = IF database.rows.status[upload[a].trade] = "none" THEN database
                 ELSE [database EXCEPT !.rows.owner[a] = upload[a].trade]
  /\ UNCHANGED <<disk, archives, building, awaiting, restore, work, unlinking, history>>

\* DELETE assets: the file's removal is started on a thread of its own, and then
\* the row is deleted, or that fails (or the server dies first) and the row stays.
DeleteAsset(a) ==
  /\ ~InSection /\ database.rows.owner[a] # NoTrade
  /\ unlinking' = unlinking \cup {a}
  /\ \/ /\ database' = [database EXCEPT !.rows.owner[a] = NoTrade]
        /\ UNCHANGED halfDeleted
     \/ /\ halfDeleted' = halfDeleted \cup {a}
        /\ UNCHANGED database
  /\ building' = Disturbed(building)
  /\ UNCHANGED <<disk, archives, awaiting, restore, work, upload,
                 raced, crashes, interrupted, littered>>

\* The removal happens, or fails unheard.
Unlink(a) ==
  /\ a \in unlinking
  /\ unlinking' = unlinking \ {a}
  /\ \E gone \in SUBSET {a} : disk' = [disk EXCEPT !.live.files = @ \ gone]
  /\ building' = Disturbed(building)
  /\ UNCHANGED <<database, archives, awaiting, restore, work, upload, history>>

\* POST /api/reset: every row goes, the uploads stay.
FactoryReset ==
  /\ ~InSection
  /\ database' = [rows |-> NoRows, guarded |-> TRUE]
  /\ UNCHANGED <<disk, archives, building, awaiting, restore, work, upload, unlinking, history>>

\* The process dies: requests are gone, an open transaction was never there,
\* and directories a restore had beside the live one stay where they are.
Crash ==
  /\ crashes < MaxCrashes
  /\ crashes' = crashes + 1
  /\ interrupted' = (interrupted \/ Swapping)
  /\ littered' = (littered \/ disk.previous.exists \/ disk.staging.exists)
  /\ disk' = Abandoned(disk)
  /\ restore' = NoRestore /\ work' = NoWork
  /\ awaiting' = [r \in Requests |-> NoArchive]
  /\ building' = [b \in Builders |-> IdleBuild]
  /\ unlinking' = {}
  /\ upload' = [a \in Assets |-> IF upload[a].step \in {"checked", "written"}
                                   THEN UploadDone ELSE upload[a]]
  /\ UNCHANGED <<database, archives, raced, halfDeleted>>
-----------------------------------------------------------------------------
Init ==
  /\ database = [rows |-> NoRows, guarded |-> TRUE]
  /\ disk = [live |-> DirectoryOf({}), previous |-> Missing, staging |-> Missing,
             leftover |-> Missing, swapped |-> FALSE]
  /\ archives = {}
  /\ building = [b \in Builders |-> IdleBuild]
  /\ awaiting = [r \in Requests |-> NoArchive]
  /\ restore = NoRestore
  /\ work = NoWork
  /\ upload = [a \in Assets |-> [step |-> "fresh", trade |-> NoTrade]]
  /\ unlinking = {}
  /\ raced = {} /\ halfDeleted = {}
  /\ crashes = 0 /\ interrupted = FALSE /\ littered = FALSE

SectionStep ==
  ReplaceRows \/ MoveLiveAside \/ MoveStagedIn \/ CommitRestore \/ CleanUp \/ FailCleanUp

ReadSnapshot(r) == \E a \in Assets : ReadAsset(r, a)

Next ==
  \/ SectionStep \/ FailRestore \/ FailRollback
  \/ \E r \in Requests : StageUploads(r) \/ FailSnapshot(r)
  \/ \E r \in Requests, archive \in archives : BeginRestore(r, archive)
  \/ StartBackup \/ FinishBackup
  \/ \E b \in Builders, a \in Assets : ReadAsset(b, a)
  \/ \E t \in Trades, status \in TradeStatuses : MoveTrade(t, status)
  \/ \E a \in Assets, t \in Trades : CheckUpload(a, t)
  \/ \E a \in Assets : WriteUpload(a) \/ InsertAsset(a) \/ DeleteAsset(a) \/ Unlink(a)
  \/ FactoryReset
  \/ Crash

Spec == Init /\ [][Next]_vars
-----------------------------------------------------------------------------
(* Properties *)

Archives == [rows : Rows, files : SUBSET Assets]
Databases == [rows : Rows, guarded : BOOLEAN]
Disks == [live : Directory, previous : Directory, staging : Directory, leftover : Directory,
          swapped : BOOLEAN]
Builds == [active : BOOLEAN, rows : Rows, pending : SUBSET Assets, files : SUBSET Assets,
           disturbed : BOOLEAN]
Restores == [step : {"idle", "staged", "replaced", "moved", "swapped", "committed"},
             archive : Archives]
Uploads == [step : {"fresh", "checked", "written", "done"}, trade : Trades \cup {NoTrade}]

\* A restore has its staging directory until it is renamed, and the previous
\* one until the commit is cleaned up after; between the renames there is none.
DirectoriesFollowStep ==
  /\ disk.staging.exists <=> restore.step \in {"staged", "replaced", "moved"}
  /\ disk.previous.exists => restore.step \in {"moved", "swapped", "committed"}
  /\ disk.swapped <=> restore.step \in {"swapped", "committed"}
  /\ restore.step = "moved" => disk.live = Missing

TypeOK ==
  /\ DirectoriesFollowStep
  /\ database \in Databases /\ work \in Databases
  /\ disk \in Disks
  /\ archives \subseteq Archives
  /\ building \in [Builders -> Builds]
  /\ awaiting \in [Requests -> Archives]
  /\ restore \in Restores
  /\ upload \in [Assets -> Uploads]
  /\ unlinking \subseteq Assets /\ raced \subseteq Assets /\ halfDeleted \subseteq Assets
  /\ crashes \in 0 .. MaxCrashes /\ interrupted \in BOOLEAN /\ littered \in BOOLEAN

\* A file a committed row names is never lost to a restore: it is in the live
\* directory, in the one the swap moved aside, or in one that a crash or a failed
\* rollback left, whenever the server stops, however often a restore is rolled
\* back and however many restores were waiting.  Exempt are a file with its own
\* write or removal in flight at a swap, and one whose row outlived its DELETE.
FilesSurvive ==
  Referenced(database.rows) \ Exempt \subseteq
    disk.live.files \cup disk.previous.files \cup disk.leftover.files

\* "Prevents ... creating mixed backup state" (restore.ts lines 608-610): outside
\* the swap the rows and the live directory belong together, after a success as
\* after a failure, unless a crash or a failed rollback cut a swap off.
UploadsMatchDatabase ==
  ~interrupted /\ ~Swapping =>
    Referenced(database.rows) \ Exempt \subseteq disk.live.files

\* Posted rows can be deleted in no committed state: the maintenance transaction
\* takes its dropped triggers with it when it fails (restore.ts lines 222-231).
PostedRowsStayGuarded == database.guarded

\* An archive that was made without a removal or a restore beside it, of rows
\* that had their files, can be restored: it holds every file its rows name.
ArchivesAreRestorable ==
  \A b \in Builders :
    building[b].active /\ building[b].pending = {} /\ ~building[b].disturbed =>
      AssetsComplete(ArchiveOf(building[b]))

\* "The restore refuses to proceed if open trades exist, to prevent data loss"
\* (restore.ts line 299): no restore replaces a database with an open trade.
NoOpenTradeIsReplaced ==
  [][restore.step = "swapped" /\ restore'.step = "committed" => NoOpenTrades(database.rows)]_vars

\* "Swapping in an empty staging directory prevents assets from a previous
\* database state from surviving a restore" (restore.ts lines 608-610): when a
\* restore commits, the live directory holds the archive's files and no other, but
\* for an upload that was written after the swap and has no row yet.
OldUploadsAreGone ==
  [][restore.step = "swapped" /\ restore'.step = "committed" =>
       disk.live.files \subseteq
         restore.archive.files \cup {a \in Assets : upload[a].step = "written"}]_vars

\* No restore hangs, whatever happens to the files its snapshot listed: a request
\* can always read on or go into its section, and the section can always go on.
\* One that is over leaves no directory beside the live one, except where a crash,
\* a failed cleanup or a failed rollback left it (restore.ts lines 653-670).
RestoreEnds ==
  /\ \A r \in Requests : building[r].active /\ ~InSection =>
       ENABLED (ReadSnapshot(r) \/ StageUploads(r))
  /\ InSection => ENABLED SectionStep
  /\ ~InSection =>
       ~disk.previous.exists /\ ~disk.staging.exists /\ (disk.leftover.exists => littered)
=============================================================================
