---------------------------- MODULE RestoreProofs ----------------------------
(***************************************************************************)
(* Backup and restore keep the files of the database, for any trades,      *)
(* uploads and limits, and any number of archives and crashes.             *)
(***************************************************************************)
EXTENDS Restore, TLAPS

-----------------------------------------------------------------------------
(* The inductive invariant *)

\* A directory that is not there holds nothing.
MissingHoldsNothing ==
  \A d \in {disk.live, disk.previous, disk.staging, disk.leftover} : ~d.exists => d.files = {}

Unborn(a) == upload[a].step \in {"fresh", "checked", "written"}

AllRows ==
  {database.rows, work.rows, restore.archive.rows} \cup {archive.rows : archive \in archives}
    \cup {building[b].rows : b \in Builders} \cup {awaiting[r].rows : r \in Requests}

\* Until its request inserts it, an upload has a row nowhere, in no archive, and
\* nobody is removing it.
UploadsComeFirst ==
  \A a \in Assets : Unborn(a) =>
    /\ a \notin unlinking
    /\ \A rows \in AllRows : a \notin Referenced(rows)

\* A file whose row is about to be inserted is there, unless a swap took it.
WrittenIsThere ==
  \A a \in Assets : upload[a].step = "written" => a \in disk.live.files \cup raced

\* What is being removed has no row, unless its DELETE kept it or a swap brings
\* an older one back.
RemovedHasNoRow ==
  /\ unlinking \cap Referenced(database.rows) \subseteq Exempt
  /\ Swapping => unlinking \subseteq raced

\* What is in the live directory that the archive does not hold was written since.
OnlyRestored ==
  disk.live.files \subseteq
    restore.archive.files \cup {a \in Assets : upload[a].step = "written"}

\* What a request waits to restore was complete when it was validated.
AwaitedAreComplete ==
  \A r \in Requests : building[r].active => AssetsComplete(awaiting[r])

\* A restore holds a complete archive, stages its files and writes its rows.
RestoreCarriesItsArchive ==
  /\ restore.step \in {"staged", "replaced", "moved", "swapped"} =>
       AssetsComplete(restore.archive)
  /\ restore.step \in {"staged", "replaced", "moved"} =>
       disk.staging.files = restore.archive.files
  /\ restore.step \in {"replaced", "moved", "swapped"} =>
       work.rows = restore.archive.rows
  /\ restore.step = "swapped" => Referenced(work.rows) \ raced \subseteq disk.live.files
  /\ restore.step = "swapped" => OnlyRestored

\* Where the files of the committed rows are.
Home == IF Swapping THEN disk.previous.files ELSE disk.live.files

FilesAreHome ==
  /\ Referenced(database.rows) \ Exempt \subseteq Home \cup disk.leftover.files
  /\ ~interrupted => Referenced(database.rows) \ Exempt \subseteq Home
  /\ restore.step = "committed" => Referenced(database.rows) \ Exempt \subseteq Home

\* What a build's rows name it has read, or will still find.
BuildsFindTheirFiles ==
  \A b \in Builders : building[b].active =>
    /\ restore.step \in {"moved", "swapped", "committed"} => building[b].disturbed
    /\ ~building[b].disturbed =>
         Referenced(building[b].rows) \subseteq
           building[b].files \cup (building[b].pending \cap disk.live.files)

IInv ==
  /\ TypeOK
  /\ PostedRowsStayGuarded
  /\ MissingHoldsNothing
  /\ UploadsComeFirst
  /\ WrittenIsThere
  /\ RemovedHasNoRow
  /\ AwaitedAreComplete
  /\ RestoreCarriesItsArchive
  /\ FilesAreHome
  /\ BuildsFindTheirFiles

\* TypeOK without what the directories owe to the step of the restore.
Typed ==
  /\ database \in Databases /\ work \in Databases
  /\ disk \in Disks
  /\ archives \subseteq Archives
  /\ building \in [Builders -> Builds]
  /\ awaiting \in [Requests -> Archives]
  /\ restore \in Restores
  /\ upload \in [Assets -> Uploads]
  /\ unlinking \subseteq Assets /\ raced \subseteq Assets /\ halfDeleted \subseteq Assets
  /\ crashes \in 0 .. MaxCrashes /\ interrupted \in BOOLEAN /\ littered \in BOOLEAN

-----------------------------------------------------------------------------
(* Records of the state *)

\* Marking builds as disturbed changes nothing else of them.
LEMMA DisturbedBuilds ==
  ASSUME NEW builds \in [Builders -> Builds]
  PROVE  /\ Disturbed(builds) \in [Builders -> Builds]
         /\ \A b \in Builders :
              /\ Disturbed(builds)[b].active = builds[b].active
              /\ Disturbed(builds)[b].rows = builds[b].rows
              /\ Disturbed(builds)[b].pending = builds[b].pending
              /\ Disturbed(builds)[b].files = builds[b].files
              /\ builds[b].active => Disturbed(builds)[b].disturbed
              /\ builds[b].disturbed => Disturbed(builds)[b].disturbed
  BY DEF Disturbed, Builds

\* A rollback leaves no staging directory, and the previous one back in place.
LEMMA RolledBackDisk ==
  ASSUME NEW d \in Disks
  PROVE  /\ RolledBack(d) \in Disks
         /\ RolledBack(d).staging = Missing
         /\ RolledBack(d).leftover = d.leftover
         /\ ~RolledBack(d).swapped
         /\ d.swapped /\ d.previous.exists =>
              RolledBack(d).live = d.previous /\ RolledBack(d).previous = Missing
         /\ d.swapped /\ ~d.previous.exists =>
              RolledBack(d).live = Missing /\ RolledBack(d).previous = d.previous
         /\ ~d.swapped /\ d.previous.exists /\ ~d.live.exists =>
              RolledBack(d).live = d.previous /\ RolledBack(d).previous = Missing
         /\ ~d.swapped /\ ~d.previous.exists =>
              RolledBack(d).live = d.live /\ RolledBack(d).previous = d.previous
  BY DEF RolledBack, Disks, Missing, Directory

\* A rollback that runs twice does what it did the first time: the live directory
\* is the previous one again, or was never touched.
LEMMA RolledBackTwice ==
  ASSUME TypeOK, restore.step \in {"staged", "replaced", "moved", "swapped"}
  PROVE  LET d == RolledBack(RolledBack(disk)) IN
         /\ d \in Disks
         /\ d.staging = Missing /\ ~d.swapped /\ ~d.previous.exists
         /\ d.leftover = disk.leftover
         /\ disk.previous.exists => d.live = disk.previous /\ d.previous = Missing
         /\ ~disk.previous.exists => d.previous = disk.previous
         /\ ~disk.previous.exists /\ Swapping => d.live = Missing
         /\ ~disk.previous.exists /\ ~Swapping => d.live = disk.live
<1> DEFINE once == RolledBack(disk)
<1>1. disk \in Disks /\ once \in Disks
  BY RolledBackDisk DEF TypeOK
<1>2. disk.swapped <=> restore.step = "swapped"
  BY DEF TypeOK, DirectoriesFollowStep
<1>3. /\ ~once.previous.exists /\ ~once.swapped /\ once.leftover = disk.leftover
      /\ disk.previous.exists => once.live = disk.previous /\ once.previous = Missing
      /\ ~disk.previous.exists => once.previous = disk.previous
      /\ ~disk.previous.exists /\ disk.swapped => once.live = Missing
      /\ ~disk.previous.exists /\ ~disk.swapped => once.live = disk.live
  <2>1. CASE disk.swapped
    BY <2>1, <1>1, RolledBackDisk DEF Missing
  <2>2. CASE ~disk.swapped /\ disk.previous.exists
    <3>1. ~disk.live.exists
      BY <2>2 DEF TypeOK, DirectoriesFollowStep, Missing
    <3> QED  BY <2>2, <3>1, <1>1, RolledBackDisk DEF Missing
  <2>3. CASE ~disk.swapped /\ ~disk.previous.exists
    BY <2>3, <1>1, RolledBackDisk
  <2> QED  BY <2>1, <2>2, <2>3
<1>4. restore.step = "moved" => disk.live = Missing
  BY DEF TypeOK, DirectoriesFollowStep
<1> HIDE DEF once
<1>5. /\ RolledBack(once) \in Disks /\ RolledBack(once).staging = Missing
      /\ ~RolledBack(once).swapped /\ RolledBack(once).leftover = once.leftover
      /\ RolledBack(once).live = once.live /\ RolledBack(once).previous = once.previous
  BY <1>1, <1>3, RolledBackDisk
<1> QED  BY <1>2, <1>3, <1>4, <1>5 DEF Swapping, once

\* A write or a removal touches the files of the live directory only.
LEMMA LiveFiles ==
  ASSUME TypeOK, NEW files \in SUBSET Assets,
         disk' = [disk EXCEPT !.live.files = files]
  PROVE  /\ disk' \in Disks
         /\ disk'.live.exists = disk.live.exists /\ disk'.live.files = files
         /\ disk'.previous = disk.previous /\ disk'.staging = disk.staging
         /\ disk'.leftover = disk.leftover /\ disk'.swapped = disk.swapped
<1>1. disk \in Disks  BY DEF TypeOK
<1>2. disk' = [disk EXCEPT !.live = [disk.live EXCEPT !.files = files]]
  OBVIOUS
<1>3. [disk.live EXCEPT !.files = files] \in Directory
  BY <1>1 DEF Disks, Directory
<1> QED  BY <1>1, <1>2, <1>3 DEF Disks, Directory

\* What a restore leaves behind is added to what others left.
LEMMA AbandonedDisk ==
  ASSUME NEW d \in Disks
  PROVE  /\ Abandoned(d) \in Disks
         /\ Abandoned(d).live = d.live
         /\ Abandoned(d).previous = Missing /\ Abandoned(d).staging = Missing
         /\ ~Abandoned(d).swapped
         /\ Abandoned(d).leftover.exists <=>
              d.leftover.exists \/ d.previous.exists \/ d.staging.exists
         /\ Abandoned(d).leftover.files =
              d.leftover.files \cup d.previous.files \cup d.staging.files
  BY DEF Abandoned, CleanedUp, Disks, Directory, Missing

\* The same of a cleanup that failed and of a rollback that did.
LEMMA FailedCleanUp ==
  ASSUME TypeOK, FailCleanUp
  PROVE  /\ disk' \in Disks /\ disk'.live = disk.live
         /\ disk'.previous = Missing /\ disk'.staging = Missing /\ ~disk'.swapped
         /\ disk'.leftover.exists
         /\ disk.leftover.files \subseteq disk'.leftover.files
<1>1. PICK rest \in SUBSET disk.previous.files :
        disk' = Abandoned([disk EXCEPT !.previous = DirectoryOf(rest)])
  BY DEF FailCleanUp
<1> DEFINE d == [disk EXCEPT !.previous = DirectoryOf(rest)]
<1>2. disk \in Disks  BY DEF TypeOK
<1>3. d \in Disks /\ d.live = disk.live /\ d.leftover = disk.leftover /\ d.previous.exists
  BY <1>2 DEF Disks, Directory, DirectoryOf
<1> HIDE DEF d
<1>4. disk' = Abandoned(d)  BY <1>1 DEF d
<1>5. /\ disk' \in Disks /\ disk'.live = d.live
      /\ disk'.previous = Missing /\ disk'.staging = Missing /\ ~disk'.swapped
  BY <1>3, <1>4, AbandonedDisk
<1>6. disk'.leftover.exists /\ d.leftover.files \subseteq disk'.leftover.files
  <2> DEFINE gone == Abandoned(d)
  <2>1. /\ gone.leftover.exists <=> d.leftover.exists \/ d.previous.exists \/ d.staging.exists
        /\ gone.leftover.files = d.leftover.files \cup d.previous.files \cup d.staging.files
    BY <1>3, AbandonedDisk
  <2> HIDE DEF gone
  <2> QED  BY <1>3, <1>4, <2>1 DEF gone
<1> QED  BY <1>3, <1>5, <1>6

LEMMA FailedRollback ==
  ASSUME TypeOK, FailRollback
  PROVE  /\ disk' \in Disks
         /\ disk'.previous = Missing /\ disk'.staging = Missing /\ ~disk'.swapped
         /\ disk'.leftover.files =
              disk.leftover.files \cup disk.previous.files \cup disk.staging.files
         /\ disk'.leftover.exists <=>
              disk.leftover.exists \/ disk.previous.exists \/ disk.staging.exists
         /\ ~Swapping => disk'.live = disk.live
         /\ disk'.live.files \subseteq disk.live.files
         /\ disk'.live = disk.live \/ disk'.live = Missing \/ disk'.live.exists
<1>1. PICK live \in Remains : disk' = [Abandoned(disk) EXCEPT !.live = live]
  BY DEF FailRollback
<1>2. disk \in Disks  BY DEF TypeOK
<1>3. /\ live \in Directory /\ live.files \subseteq disk.live.files
      /\ ~Swapping => live = disk.live
      /\ live = disk.live \/ live = Missing \/ live.exists
  <2>1. disk.live \in Directory  BY <1>2 DEF Disks
  <2>2. CASE restore.step = "swapped"
    <3>1. live = Missing \/ \E f \in SUBSET disk.live.files : live = DirectoryOf(f)
      BY <1>1, <2>2 DEF Remains
    <3>2. CASE live = Missing
      BY <2>2, <3>2 DEF Swapping, Missing, Directory
    <3>3. ASSUME NEW f \in SUBSET disk.live.files, live = DirectoryOf(f)
          PROVE  live \in Directory /\ live.files \subseteq disk.live.files /\ live.exists
      BY <2>1, <3>3 DEF DirectoryOf, Directory
    <3> QED  BY <2>2, <3>1, <3>2, <3>3 DEF Swapping
  <2>3. CASE restore.step # "swapped"
    BY <1>1, <2>1, <2>3 DEF Remains
  <2> QED  BY <2>2, <2>3
<1> DEFINE d == Abandoned(disk)
<1>4. d \in Disks  BY <1>2, AbandonedDisk
<1>5. disk' = [d EXCEPT !.live = live]  BY <1>1
<1>6. /\ d.previous = Missing /\ d.staging = Missing /\ ~d.swapped
      /\ d.leftover.exists <=> disk.leftover.exists \/ disk.previous.exists \/ disk.staging.exists
      /\ d.leftover.files = disk.leftover.files \cup disk.previous.files \cup disk.staging.files
  BY <1>2, AbandonedDisk
<1> HIDE DEF d
<1>7. /\ disk' \in Disks /\ disk'.live = live /\ disk'.previous = d.previous
      /\ disk'.staging = d.staging /\ disk'.leftover = d.leftover /\ disk'.swapped = d.swapped
  BY <1>3, <1>4, <1>5 DEF Disks
<1> QED  BY <1>3, <1>6, <1>7

\* A removal takes its file from the live directory, or nothing.
LEMMA UnlinkedDisk ==
  ASSUME TypeOK, NEW a \in Assets, Unlink(a)
  PROVE  /\ disk' \in Disks
         /\ disk'.live.exists = disk.live.exists
         /\ disk'.live.files \subseteq disk.live.files
         /\ disk.live.files \ {a} \subseteq disk'.live.files
         /\ disk.live = Missing => disk'.live = Missing
         /\ disk'.previous = disk.previous /\ disk'.staging = disk.staging
         /\ disk'.leftover = disk.leftover /\ disk'.swapped = disk.swapped
<1>1. PICK gone \in SUBSET {a} : disk' = [disk EXCEPT !.live.files = disk.live.files \ gone]
  BY DEF Unlink
<1>2. disk.live.files \ gone \in SUBSET Assets  BY DEF TypeOK, Disks, Directory
<1>3. disk.live = Missing => disk'.live = Missing
  <2>1. disk'.live = [disk.live EXCEPT !.files = disk.live.files \ gone]
    BY <1>1 DEF TypeOK, Disks
  <2>2. ASSUME disk.live = Missing
        PROVE  [disk.live EXCEPT !.files = disk.live.files \ gone] = Missing
    BY <2>2 DEF Missing
  <2> QED  BY <2>1, <2>2
<1> QED  BY <1>1, <1>2, <1>3, LiveFiles

-----------------------------------------------------------------------------
(* Types *)

\* The three directories follow the restore that moves them.
LEMMA DirectoriesKept ==
  ASSUME TypeOK, [Next]_vars
  PROVE  DirectoriesFollowStep'
<1> USE DEF TypeOK, DirectoriesFollowStep, Disks, Restores, history
<1>1. ASSUME NEW r \in Requests, StageUploads(r) PROVE DirectoriesFollowStep'
  BY <1>1 DEF StageUploads, InSection, NoArchive, ArchiveOf, IdleBuild, DirectoryOf, Builders, NoRows, Archives
<1>2. CASE ReplaceRows
  BY <1>2 DEF ReplaceRows
<1>3. CASE MoveLiveAside
  BY <1>3 DEF MoveLiveAside, MovedAside, Missing, InFlight
<1>4. CASE MoveStagedIn
  BY <1>4 DEF MoveStagedIn, MovedIn, Missing
<1>5. CASE CommitRestore
  BY <1>5 DEF CommitRestore, NoRestore, NoArchive, ArchiveOf, IdleBuild, NoWork, NoRows
<1>6. CASE CleanUp
  BY <1>6 DEF CleanUp, CleanedUp, Missing, NoRestore, NoArchive, ArchiveOf, IdleBuild, NoRows
<1>7. CASE FailCleanUp
  <2>1. restore'.step = "idle"  BY <1>7 DEF FailCleanUp, NoRestore
  <2> QED  BY <1>7, <2>1, FailedCleanUp DEF Missing
<1>8. CASE FailRestore
  <2>1. disk' = RolledBack(RolledBack(disk)) /\ restore'.step = "idle"
    BY <1>8 DEF FailRestore, NoRestore
  <2> QED  BY <1>8, <2>1, RolledBackTwice DEF FailRestore, Missing
<1>9. CASE FailRollback
  BY <1>9, FailedRollback DEF FailRollback, Missing, InFlight, NoRestore, NoArchive, ArchiveOf, IdleBuild, NoWork, NoRows
<1>10. ASSUME NEW r \in Requests, FailSnapshot(r) PROVE DirectoriesFollowStep'
  BY <1>10 DEF FailSnapshot, NoRestore, NoArchive, ArchiveOf, IdleBuild, NoRows
<1>11. ASSUME NEW r \in Requests, NEW archive \in archives, BeginRestore(r, archive) PROVE DirectoriesFollowStep'
  BY <1>11 DEF BeginRestore, SerializedBuild, ValidateRestoreZip
<1>12. CASE StartBackup
  BY <1>12 DEF StartBackup, SerializedBuild, InSection
<1>13. CASE FinishBackup
  BY <1>13 DEF FinishBackup, ArchiveOf, IdleBuild, NoRows
<1>14. ASSUME NEW b \in Builders, NEW a \in Assets, ReadAsset(b, a) PROVE DirectoriesFollowStep'
  BY <1>14 DEF ReadAsset
<1>15. ASSUME NEW t \in Trades, NEW status \in TradeStatuses, MoveTrade(t, status) PROVE DirectoriesFollowStep'
  BY <1>15 DEF MoveTrade, InSection
<1>16. ASSUME NEW a \in Assets, NEW t \in Trades, CheckUpload(a, t) PROVE DirectoriesFollowStep'
  BY <1>16 DEF CheckUpload, InSection
<1>17. ASSUME NEW a \in Assets, WriteUpload(a) PROVE DirectoriesFollowStep'
  <2>1. restore' = restore  BY <1>17 DEF WriteUpload
  <2>2. CASE disk.live.exists
    <3>1. disk' = [disk EXCEPT !.live.files = disk.live.files \cup {a}]
      BY <1>17, <2>2 DEF WriteUpload
    <3>2. disk.live.files \cup {a} \in SUBSET Assets  BY DEF Directory
    <3>3. disk.live # Missing  BY <2>2 DEF Missing
    <3> QED  BY <2>1, <3>1, <3>2, <3>3, LiveFiles
  <2>3. CASE ~disk.live.exists  BY <1>17, <2>1, <2>3 DEF WriteUpload
  <2> QED  BY <2>2, <2>3
<1>18. ASSUME NEW a \in Assets, InsertAsset(a) PROVE DirectoriesFollowStep'
  BY <1>18 DEF InsertAsset, UploadDone, InSection
<1>19. ASSUME NEW a \in Assets, DeleteAsset(a) PROVE DirectoriesFollowStep'
  BY <1>19 DEF DeleteAsset, InSection
<1>20. ASSUME NEW a \in Assets, Unlink(a) PROVE DirectoriesFollowStep'
  <2>1. restore' = restore  BY <1>20, UnlinkedDisk DEF Unlink
  <2> QED  BY <1>20, <2>1, UnlinkedDisk
<1>21. CASE FactoryReset
  BY <1>21 DEF FactoryReset, NoRows, InSection
<1>22. CASE Crash
  BY <1>22 DEF Crash, Abandoned, CleanedUp, Missing, NoRestore, NoArchive, ArchiveOf, IdleBuild, NoWork, NoRows, UploadDone
<1>23. CASE UNCHANGED vars
  BY <1>23 DEF vars
<1> QED
  BY <1>1, <1>2, <1>3, <1>4, <1>5, <1>6, <1>7, <1>8, <1>9, <1>10, <1>11, <1>12, <1>13, <1>14, <1>15, <1>16, <1>17, <1>18, <1>19, <1>20, <1>21, <1>22, <1>23 DEF Next, SectionStep

\* Every variable keeps its type.
LEMMA TypesKept ==
  ASSUME TypeOK, [Next]_vars
  PROVE  Typed'
<1> USE DEF Typed, TypeOK, Databases, Rows, Directory, Archives, TradeStatuses, Disks, Restores, Uploads, history
<1>1. ASSUME NEW r \in Requests, StageUploads(r) PROVE Typed'
  <2>1. building[r] \in Builds /\ IdleBuild \in Builds
    BY DEF Builds, Builders, IdleBuild, NoRows
  <2>2. ArchiveOf(building[r]) \in Archives  BY <2>1 DEF Builds, ArchiveOf
  <2>3. disk' \in Disks  BY <1>1 DEF StageUploads, DirectoryOf
  <2>4. building' \in [Builders -> Builds]  BY <1>1, <2>1 DEF StageUploads
  <2>5. archives' \subseteq Archives  BY <1>1, <2>2 DEF StageUploads
  <2>7. awaiting' \in [Requests -> Archives]
    BY <1>1 DEF StageUploads, NoArchive, ArchiveOf, IdleBuild, NoRows
  <2>6. restore' \in Restores  BY <1>1 DEF StageUploads
  <2> QED  BY <1>1, <2>3, <2>4, <2>5, <2>6, <2>7 DEF StageUploads
<1>2. CASE ReplaceRows
  BY <1>2 DEF ReplaceRows
<1>3. CASE MoveLiveAside
  BY <1>3, DisturbedBuilds DEF MoveLiveAside, MovedAside, Missing, InFlight
<1>4. CASE MoveStagedIn
  BY <1>4 DEF MoveStagedIn, MovedIn, Missing
<1>5. CASE CommitRestore
  BY <1>5 DEF CommitRestore, NoRestore, NoArchive, ArchiveOf, IdleBuild, NoWork, NoRows
<1>6. CASE CleanUp
  BY <1>6 DEF CleanUp, CleanedUp, Missing, NoRestore, NoArchive, ArchiveOf, IdleBuild, NoRows
<1>7. CASE FailCleanUp
  BY <1>7, FailedCleanUp DEF FailCleanUp, Missing, NoRestore, NoArchive, ArchiveOf, IdleBuild, NoRows, DirectoryOf
<1>8. CASE FailRestore
  <2>1. disk' \in Disks  BY <1>8, RolledBackTwice DEF FailRestore
  <2>2. building' \in [Builders -> Builds]  BY <1>8, DisturbedBuilds DEF FailRestore
  <2> QED  BY <1>8, <2>1, <2>2 DEF FailRestore, InFlight, NoRestore, NoArchive, ArchiveOf, IdleBuild, NoWork, NoRows
<1>9. CASE FailRollback
  BY <1>9, FailedRollback DEF FailRollback, Missing, InFlight, NoRestore, NoArchive, ArchiveOf, IdleBuild, NoWork, NoRows
<1>10. ASSUME NEW r \in Requests, FailSnapshot(r) PROVE Typed'
  BY <1>10 DEF FailSnapshot, NoRestore, NoArchive, ArchiveOf, IdleBuild, NoRows, Builds
<1>11. ASSUME NEW r \in Requests, NEW archive \in archives, BeginRestore(r, archive) PROVE Typed'
  BY <1>11 DEF BeginRestore, SerializedBuild, ValidateRestoreZip, Builds
<1>12. CASE StartBackup
  BY <1>12 DEF StartBackup, SerializedBuild, InSection, Builds
<1>13. CASE FinishBackup
  <2>1. building["job"] \in Builds /\ IdleBuild \in Builds
    BY DEF Builds, Builders, IdleBuild, NoRows
  <2>2. ArchiveOf(building["job"]) \in Archives  BY <2>1 DEF Builds, ArchiveOf
  <2>3. building' \in [Builders -> Builds]  BY <1>13, <2>1 DEF FinishBackup
  <2>4. archives' \subseteq Archives  BY <1>13, <2>2 DEF FinishBackup
  <2> QED  BY <1>13, <2>3, <2>4 DEF FinishBackup
<1>14. ASSUME NEW b \in Builders, NEW a \in Assets, ReadAsset(b, a) PROVE Typed'
  <2> DEFINE found == IF a \in disk.live.files THEN building[b].files \cup {a} ELSE building[b].files
             read == [building[b] EXCEPT !.pending = building[b].pending \ {a}, !.files = found]
  <2>1. building' = [building EXCEPT ![b] = read]  BY <1>14 DEF ReadAsset, Builds
  <2>2. found \in SUBSET Assets  BY DEF Builds
  <2>3. building[b] \in Builds  OBVIOUS
  <2> HIDE DEF found
  <2>4. read \in Builds  BY <2>2, <2>3 DEF Builds
  <2> HIDE DEF read
  <2>5. building' \in [Builders -> Builds]  BY <2>1, <2>4
  <2> QED  BY <1>14, <2>5 DEF ReadAsset
<1>15. ASSUME NEW t \in Trades, NEW status \in TradeStatuses, MoveTrade(t, status) PROVE Typed'
  BY <1>15 DEF MoveTrade, InSection
<1>16. ASSUME NEW a \in Assets, NEW t \in Trades, CheckUpload(a, t) PROVE Typed'
  BY <1>16 DEF CheckUpload, InSection
<1>17. ASSUME NEW a \in Assets, WriteUpload(a) PROVE Typed'
  <2>1. CASE disk.live.exists
    <3>1. disk' = [disk EXCEPT !.live.files = disk.live.files \cup {a}]
      BY <1>17, <2>1 DEF WriteUpload
    <3>2. disk.live.files \cup {a} \in SUBSET Assets  OBVIOUS
    <3>3. disk' \in Disks  BY <3>1, <3>2, LiveFiles
    <3>4. upload' = [upload EXCEPT ![a] = [upload[a] EXCEPT !.step = "written"]]
      BY <1>17, <2>1 DEF WriteUpload
    <3> QED  BY <1>17, <3>3, <3>4 DEF WriteUpload
  <2>2. CASE ~disk.live.exists
    <3>1. upload' = [upload EXCEPT ![a] = UploadDone] /\ disk' = disk
      BY <1>17, <2>2 DEF WriteUpload
    <3>2. UploadDone \in Uploads  BY DEF UploadDone
    <3>3. upload' \in [Assets -> Uploads]  BY <3>1, <3>2
    <3> QED  BY <1>17, <3>1, <3>3 DEF WriteUpload
  <2> QED  BY <2>1, <2>2
<1>18. ASSUME NEW a \in Assets, InsertAsset(a) PROVE Typed'
  BY <1>18 DEF InsertAsset, UploadDone, InSection
<1>19. ASSUME NEW a \in Assets, DeleteAsset(a) PROVE Typed'
  <2>1. building' \in [Builders -> Builds]  BY <1>19, DisturbedBuilds DEF DeleteAsset
  <2>2. database' \in Databases
    <3>1. database' = database \/ database' = [database EXCEPT !.rows.owner[a] = NoTrade]
      BY <1>19 DEF DeleteAsset
    <3>2. [database.rows.owner EXCEPT ![a] = NoTrade] \in [Assets -> Trades \cup {NoTrade}]
      OBVIOUS
    <3>3. CASE database' = [database EXCEPT !.rows.owner[a] = NoTrade]
      <4>1. database'.rows = [database.rows EXCEPT !.owner = [database.rows.owner EXCEPT ![a] = NoTrade]]
        BY <3>3
      <4>2. database'.rows \in Rows  BY <3>2, <4>1
      <4>3. database' = [database EXCEPT !.rows = database'.rows]  BY <3>3, <4>1
      <4> QED  BY <4>2, <4>3
    <3> QED  BY <3>1, <3>3
  <2>3. unlinking' \subseteq Assets /\ halfDeleted' \subseteq Assets  BY <1>19 DEF DeleteAsset
  <2> QED  BY <1>19, <2>1, <2>2, <2>3 DEF DeleteAsset
<1>20. ASSUME NEW a \in Assets, Unlink(a) PROVE Typed'
  <2>1. building' \in [Builders -> Builds]  BY <1>20, DisturbedBuilds DEF Unlink
  <2>2. disk' \in Disks  BY <1>20, UnlinkedDisk
  <2> QED  BY <1>20, <2>1, <2>2 DEF Unlink
<1>21. CASE FactoryReset
  BY <1>21 DEF FactoryReset, NoRows, InSection
<1>22. CASE Crash
  <2>1. building' \in [Builders -> Builds]  BY <1>22 DEF Crash, Builds, IdleBuild, NoRows
  <2>2. disk' \in Disks  BY <1>22 DEF Crash, Abandoned, CleanedUp, Missing
  <2>3. restore' \in Restores /\ work' \in Databases
    BY <1>22 DEF Crash, NoRestore, NoArchive, ArchiveOf, IdleBuild, NoWork, NoRows
  <2>4. upload' \in [Assets -> Uploads]  BY <1>22 DEF Crash, UploadDone
  <2>5. awaiting' \in [Requests -> Archives]
    BY <1>22 DEF Crash, NoArchive, ArchiveOf, IdleBuild, NoRows
  <2>6. crashes' \in 0 .. MaxCrashes /\ interrupted' \in BOOLEAN
    BY <1>22, LimitsAssumption DEF Crash
  <2> QED  BY <1>22, <2>1, <2>2, <2>3, <2>4, <2>5, <2>6 DEF Crash
<1>23. CASE UNCHANGED vars
  BY <1>23 DEF vars
<1> QED
  BY <1>1, <1>2, <1>3, <1>4, <1>5, <1>6, <1>7, <1>8, <1>9, <1>10, <1>11, <1>12, <1>13, <1>14, <1>15, <1>16, <1>17, <1>18, <1>19, <1>20, <1>21, <1>22, <1>23 DEF Next, SectionStep


LEMMA TypeStep == ASSUME TypeOK, [Next]_vars PROVE TypeOK'
  BY DirectoriesKept, TypesKept DEF TypeOK, Typed

-----------------------------------------------------------------------------
(* Directories *)

\* No directory keeps files after it is gone.
LEMMA MissingKept ==
  ASSUME TypeOK, MissingHoldsNothing, [Next]_vars
  PROVE  MissingHoldsNothing'
<1> USE DEF TypeOK, DirectoriesFollowStep, Directory, Disks, Archives, Restores, MissingHoldsNothing, Missing, history
<1>1. ASSUME NEW r \in Requests, StageUploads(r) PROVE MissingHoldsNothing'
  BY <1>1 DEF StageUploads, InSection, NoArchive, ArchiveOf, IdleBuild, DirectoryOf, Builders, NoRows, Archives
<1>2. CASE ReplaceRows
  BY <1>2 DEF ReplaceRows
<1>3. CASE MoveLiveAside
  BY <1>3 DEF MoveLiveAside, MovedAside, Missing, InFlight
<1>4. CASE MoveStagedIn
  BY <1>4 DEF MoveStagedIn, MovedIn, Missing
<1>5. CASE CommitRestore
  BY <1>5 DEF CommitRestore, NoRestore, NoArchive, ArchiveOf, IdleBuild, NoWork, NoRows
<1>6. CASE CleanUp
  BY <1>6 DEF CleanUp, CleanedUp, Missing, NoRestore, NoArchive, ArchiveOf, IdleBuild, NoRows
<1>7. CASE FailCleanUp
  BY <1>7, FailedCleanUp
<1>8. CASE FailRestore
  <2>1. disk' = RolledBack(RolledBack(disk))  BY <1>8 DEF FailRestore
  <2> QED  BY <1>8, <2>1, RolledBackTwice DEF FailRestore, Swapping
<1>9. CASE FailRollback
  BY <1>9, FailedRollback DEF FailRollback, Missing, InFlight, NoRestore, NoArchive, ArchiveOf, IdleBuild, NoWork, NoRows
<1>10. ASSUME NEW r \in Requests, FailSnapshot(r) PROVE MissingHoldsNothing'
  BY <1>10 DEF FailSnapshot, NoRestore, NoArchive, ArchiveOf, IdleBuild, NoRows
<1>11. ASSUME NEW r \in Requests, NEW archive \in archives, BeginRestore(r, archive) PROVE MissingHoldsNothing'
  BY <1>11 DEF BeginRestore, SerializedBuild, ValidateRestoreZip
<1>12. CASE StartBackup
  BY <1>12 DEF StartBackup, SerializedBuild, InSection
<1>13. CASE FinishBackup
  BY <1>13 DEF FinishBackup, ArchiveOf, IdleBuild, NoRows
<1>14. ASSUME NEW b \in Builders, NEW a \in Assets, ReadAsset(b, a) PROVE MissingHoldsNothing'
  BY <1>14 DEF ReadAsset
<1>15. ASSUME NEW t \in Trades, NEW status \in TradeStatuses, MoveTrade(t, status) PROVE MissingHoldsNothing'
  BY <1>15 DEF MoveTrade, InSection
<1>16. ASSUME NEW a \in Assets, NEW t \in Trades, CheckUpload(a, t) PROVE MissingHoldsNothing'
  BY <1>16 DEF CheckUpload, InSection
<1>17. ASSUME NEW a \in Assets, WriteUpload(a) PROVE MissingHoldsNothing'
  BY <1>17 DEF WriteUpload, UploadDone
<1>18. ASSUME NEW a \in Assets, InsertAsset(a) PROVE MissingHoldsNothing'
  BY <1>18 DEF InsertAsset, UploadDone, InSection
<1>19. ASSUME NEW a \in Assets, DeleteAsset(a) PROVE MissingHoldsNothing'
  BY <1>19 DEF DeleteAsset, InSection
<1>20. ASSUME NEW a \in Assets, Unlink(a) PROVE MissingHoldsNothing'
  BY <1>20, UnlinkedDisk DEF Unlink
<1>21. CASE FactoryReset
  BY <1>21 DEF FactoryReset, NoRows, InSection
<1>22. CASE Crash
  <2>1. disk' = Abandoned(disk)  BY <1>22 DEF Crash
  <2>2. /\ disk'.live = disk.live /\ disk'.previous = Missing /\ disk'.staging = Missing
        /\ disk'.leftover.exists <=>
             disk.leftover.exists \/ disk.previous.exists \/ disk.staging.exists
        /\ disk'.leftover.files =
             disk.leftover.files \cup disk.previous.files \cup disk.staging.files
    BY <2>1, AbandonedDisk
  <2> QED  BY <2>2
<1>23. CASE UNCHANGED vars
  BY <1>23 DEF vars
<1> QED
  BY <1>1, <1>2, <1>3, <1>4, <1>5, <1>6, <1>7, <1>8, <1>9, <1>10, <1>11, <1>12, <1>13, <1>14, <1>15, <1>16, <1>17, <1>18, <1>19, <1>20, <1>21, <1>22, <1>23 DEF Next, SectionStep

-----------------------------------------------------------------------------
(* Uploads and removals *)

\* What asks for less is still answered.
LEMMA FewerRows ==
  ASSUME UploadsComeFirst,
         unlinking' \subseteq unlinking,
         \A a \in Assets : Unborn(a)' => Unborn(a),
         \A rows \in AllRows', a \in Assets : a \in Referenced(rows) =>
           \E r \in AllRows : a \in Referenced(r)
  PROVE  UploadsComeFirst'
  BY DEF UploadsComeFirst

LEMMA DisturbedRows ==
  ASSUME TypeOK, building' = Disturbed(building)
  PROVE  {building'[b].rows : b \in Builders} = {building[b].rows : b \in Builders}
  BY DisturbedBuilds DEF TypeOK

LEMMA DisturbedSame ==
  ASSUME TypeOK, building' = Disturbed(building)
  PROVE  \A b \in Builders :
           building'[b].rows = building[b].rows /\ building'[b].active = building[b].active
  BY DisturbedBuilds DEF TypeOK

\* The rows of builds and of waiting requests.
BuiltRows == {building[b].rows : b \in Builders}
AwaitedRows == {awaiting[r].rows : r \in Requests}
StoredRows == {database.rows, work.rows, restore.archive.rows}
ArchivedRows == {archive.rows : archive \in archives}

\* A step that touches no rows keeps them all.
LEMMA RowsStay ==
  ASSUME TypeOK, StoredRows' = StoredRows, archives' = archives, awaiting' = awaiting,
         building' = building \/ building' = Disturbed(building)
  PROVE  AllRows' = AllRows
<1>1. BuiltRows' = BuiltRows
  <2>1. CASE building' = building  BY <2>1 DEF BuiltRows
  <2>2. CASE building' = Disturbed(building)  BY <2>2, DisturbedRows DEF BuiltRows
  <2> QED  BY <2>1, <2>2
<1>2. AwaitedRows' = AwaitedRows /\ ArchivedRows' = ArchivedRows
  BY DEF AwaitedRows, ArchivedRows
<1>3. AllRows = StoredRows \cup ArchivedRows \cup BuiltRows \cup AwaitedRows
  BY DEF AllRows, StoredRows, ArchivedRows, BuiltRows, AwaitedRows
<1>4. AllRows' = StoredRows' \cup ArchivedRows' \cup BuiltRows' \cup AwaitedRows'
  BY DEF AllRows, StoredRows, ArchivedRows, BuiltRows, AwaitedRows
<1> QED  BY <1>1, <1>2, <1>3, <1>4

\* What is new in a step is the committed rows, or no rows at all.
LEMMA RowsShrink ==
  ASSUME TypeOK,
         work'.rows \in AllRows \cup {NoRows}, restore'.archive.rows \in AllRows \cup {NoRows},
         \A archive \in archives' : archive.rows \in AllRows,
         \A r \in Requests : awaiting'[r].rows \in AllRows \cup {NoRows},
         \A b \in Builders : building'[b].rows \in AllRows \cup {NoRows}
  PROVE  \A rows \in AllRows' : rows \in AllRows \/ rows = NoRows \/ rows = database'.rows
<1> SUFFICES ASSUME NEW rows \in AllRows'
             PROVE  rows \in AllRows \/ rows = NoRows \/ rows = database'.rows
  OBVIOUS
<1>1. CASE rows \in {database'.rows, work'.rows, restore'.archive.rows}  BY <1>1
<1>2. CASE \E archive \in archives' : rows = archive.rows  BY <1>2
<1>3. CASE \E b \in Builders : rows = building'[b].rows  BY <1>3
<1>4. CASE \E r \in Requests : rows = awaiting'[r].rows  BY <1>4
<1> QED  BY <1>1, <1>2, <1>3, <1>4 DEF AllRows

\* So uploads still come first if nothing new is asked of them.
LEMMA NoNewRows ==
  ASSUME UploadsComeFirst, unlinking' \subseteq unlinking,
         \A a \in Assets : Unborn(a)' => Unborn(a),
         \A rows \in AllRows' : rows \in AllRows \/ rows = NoRows \/ rows = database'.rows,
         database'.rows \in AllRows \cup {NoRows}
  PROVE  UploadsComeFirst'
<1>1. Referenced(NoRows) = {}  BY DEF Referenced, NoRows
<1> QED  BY <1>1 DEF UploadsComeFirst

\* An upload's row is new wherever it appears.
LEMMA UploadsKept ==
  ASSUME TypeOK, UploadsComeFirst, [Next]_vars
  PROVE  UploadsComeFirst'
<1> USE DEF TypeOK, Databases, Archives, Restores, Rows, Uploads, Builds, UploadsComeFirst, Unborn, AllRows, Referenced, history
<1>1. ASSUME NEW r \in Requests, StageUploads(r) PROVE UploadsComeFirst'
  <2>1. building[r].rows \in AllRows /\ awaiting[r].rows \in AllRows  BY DEF Builders
  <2>2. restore'.archive = awaiting[r] /\ work' = work /\ database' = database
    BY <1>1 DEF StageUploads
  <2>3. \A archive \in archives' : archive.rows \in AllRows
    BY <1>1, <2>1 DEF StageUploads, ArchiveOf
  <2>4. \A q \in Requests : awaiting'[q].rows \in AllRows \cup {NoRows}
    BY <1>1 DEF StageUploads, NoArchive, ArchiveOf, IdleBuild
  <2>5. \A b \in Builders : building'[b].rows \in AllRows \cup {NoRows}
    BY <1>1 DEF StageUploads, IdleBuild
  <2> HIDE DEF AllRows, UploadsComeFirst
  <2>6. work'.rows \in AllRows /\ database'.rows \in AllRows  BY <2>2 DEF AllRows
  <2>7. \A rows \in AllRows' : rows \in AllRows \/ rows = NoRows \/ rows = database'.rows
    BY <2>1, <2>2, <2>3, <2>4, <2>5, <2>6, RowsShrink
  <2> QED  BY <1>1, <2>6, <2>7, NoNewRows DEF StageUploads
<1>2. CASE ReplaceRows
  BY <1>2 DEF ReplaceRows
<1>3. CASE MoveLiveAside
  <2>1. AllRows' = AllRows  BY <1>3, RowsStay DEF MoveLiveAside, StoredRows
  <2> QED  BY <1>3, <2>1, FewerRows DEF MoveLiveAside
<1>4. CASE MoveStagedIn
  BY <1>4 DEF MoveStagedIn, MovedIn, Missing
<1>5. CASE CommitRestore
  BY <1>5 DEF CommitRestore, NoRestore, NoArchive, ArchiveOf, IdleBuild, NoWork, NoRows
<1>6. CASE CleanUp
  BY <1>6 DEF CleanUp, CleanedUp, Missing, NoRestore, NoArchive, ArchiveOf, IdleBuild, NoRows
<1>7. CASE FailCleanUp
  BY <1>7, FailedCleanUp DEF FailCleanUp, Missing, NoRestore, NoArchive, ArchiveOf, IdleBuild, NoRows, DirectoryOf
<1>8. CASE FailRestore
  <2>1. /\ database' = database /\ archives' = archives /\ awaiting' = awaiting
        /\ building' = building /\ upload' = upload /\ unlinking' = unlinking
        /\ work'.rows = NoRows /\ restore'.archive.rows = NoRows
    BY <1>8 DEF FailRestore, NoRestore, NoWork, NoArchive, ArchiveOf, IdleBuild
  <2>2. Referenced(NoRows) = {}  BY DEF NoRows
  <2>3. \A rows \in AllRows' : rows \in AllRows \cup {NoRows}  BY <2>1
  <2> QED  BY <2>1, <2>2, <2>3
<1>9. CASE FailRollback
  <2>1. /\ database' = database /\ archives' = archives /\ awaiting' = awaiting
        /\ building' = building /\ upload' = upload /\ unlinking' = unlinking
        /\ work'.rows = NoRows /\ restore'.archive.rows = NoRows
    BY <1>9 DEF FailRollback, NoRestore, NoWork, NoArchive, ArchiveOf, IdleBuild
  <2>2. Referenced(NoRows) = {}  BY DEF NoRows
  <2>3. \A rows \in AllRows' : rows \in AllRows \cup {NoRows}  BY <2>1
  <2> QED  BY <2>1, <2>2, <2>3
<1>10. ASSUME NEW r \in Requests, FailSnapshot(r) PROVE UploadsComeFirst'
  BY <1>10 DEF FailSnapshot, NoRestore, NoArchive, ArchiveOf, IdleBuild, NoRows
<1>11. ASSUME NEW r \in Requests, NEW archive \in archives, BeginRestore(r, archive) PROVE UploadsComeFirst'
  BY <1>11 DEF BeginRestore, SerializedBuild, ValidateRestoreZip
<1>12. CASE StartBackup
  BY <1>12 DEF StartBackup, SerializedBuild, InSection
<1>13. CASE FinishBackup
  <2>1. \A b \in Builders : building'[b].rows \in AllRows \cup {NoRows}
    BY <1>13 DEF FinishBackup, IdleBuild
  <2>2. \A archive \in archives' : archive.rows \in AllRows
    BY <1>13 DEF FinishBackup, ArchiveOf, Builders
  <2>3. /\ database' = database /\ work' = work /\ restore' = restore /\ awaiting' = awaiting
        /\ unlinking' = unlinking /\ upload' = upload
    BY <1>13 DEF FinishBackup
  <2>4. /\ \A r \in Requests : awaiting'[r].rows \in AllRows
        /\ work'.rows \in AllRows /\ database'.rows \in AllRows /\ restore'.archive.rows \in AllRows
    BY <2>3
  <2> HIDE DEF AllRows, UploadsComeFirst
  <2>5. \A rows \in AllRows' : rows \in AllRows \/ rows = NoRows \/ rows = database'.rows
    BY <2>1, <2>2, <2>4, RowsShrink
  <2> QED  BY <2>3, <2>4, <2>5, NoNewRows
<1>14. ASSUME NEW b \in Builders, NEW a \in Assets, ReadAsset(b, a) PROVE UploadsComeFirst'
  BY <1>14 DEF ReadAsset
<1>15. ASSUME NEW t \in Trades, NEW status \in TradeStatuses, MoveTrade(t, status) PROVE UploadsComeFirst'
  <2>1. Referenced(database'.rows) = Referenced(database.rows)
    <3>1. database'.rows = [database.rows EXCEPT !.status = [database.rows.status EXCEPT ![t] = status]]
      BY <1>15 DEF MoveTrade
    <3> QED  BY <3>1
  <2>2. \A rows \in AllRows' : rows \in AllRows \/ rows = database'.rows
    BY <1>15 DEF MoveTrade
  <2>3. upload' = upload /\ unlinking' = unlinking  BY <1>15 DEF MoveTrade
  <2> QED  BY <2>1, <2>2, <2>3
<1>16. ASSUME NEW a \in Assets, NEW t \in Trades, CheckUpload(a, t) PROVE UploadsComeFirst'
  BY <1>16 DEF CheckUpload, InSection
<1>17. ASSUME NEW a \in Assets, WriteUpload(a) PROVE UploadsComeFirst'
  <2>1. AllRows' = AllRows /\ unlinking' = unlinking  BY <1>17 DEF WriteUpload
  <2>2. \A x \in Assets : Unborn(x)' => Unborn(x)
    BY <1>17 DEF WriteUpload, UploadDone
  <2> QED  BY <2>1, <2>2, FewerRows
<1>18. ASSUME NEW a \in Assets, InsertAsset(a) PROVE UploadsComeFirst'
  BY <1>18 DEF InsertAsset, UploadDone, InSection
<1>19. ASSUME NEW a \in Assets, DeleteAsset(a) PROVE UploadsComeFirst'
  <2>1. a \in Referenced(database.rows)  BY <1>19 DEF DeleteAsset
  <2>2. ~Unborn(a)  BY <2>1
  <2>3. Referenced(database'.rows) \subseteq Referenced(database.rows)
    <3>1. CASE database' = database  BY <3>1
    <3>2. CASE database' = [database EXCEPT !.rows.owner[a] = NoTrade]
      <4>1. database'.rows = [database.rows EXCEPT !.owner = [database.rows.owner EXCEPT ![a] = NoTrade]]
        BY <3>2
      <4> QED  BY <4>1
    <3> QED  BY <1>19, <3>1, <3>2 DEF DeleteAsset
  <2>4. /\ upload' = upload /\ unlinking' = unlinking \cup {a} /\ work' = work
        /\ restore' = restore /\ archives' = archives /\ awaiting' = awaiting
        /\ building' = Disturbed(building)
    BY <1>19 DEF DeleteAsset
  <2>5. \A b \in Builders : building'[b].rows = building[b].rows  BY <2>4, DisturbedSame
  <2>6. \A b \in Builders : building'[b].rows \in AllRows  BY <2>5
  <2>7. /\ \A r \in Requests : awaiting'[r].rows \in AllRows
        /\ work'.rows \in AllRows /\ restore'.archive.rows \in AllRows
        /\ \A archive \in archives' : archive.rows \in AllRows
        /\ database.rows \in AllRows
    BY <2>4
  <2> HIDE DEF AllRows
  <2>8. \A rows \in AllRows' : rows \in AllRows \/ rows = NoRows \/ rows = database'.rows
    BY <2>6, <2>7, RowsShrink
  <2>9. Referenced(NoRows) = {}  BY DEF NoRows
  <2> HIDE DEF Referenced
  <2> QED  BY <2>2, <2>3, <2>4, <2>7, <2>8, <2>9
<1>20. ASSUME NEW a \in Assets, Unlink(a) PROVE UploadsComeFirst'
  <2>1. AllRows' = AllRows  BY <1>20, RowsStay DEF Unlink, StoredRows
  <2> QED  BY <1>20, <2>1, FewerRows DEF Unlink
<1>21. CASE FactoryReset
  BY <1>21 DEF FactoryReset, NoRows, InSection
<1>22. CASE Crash
  BY <1>22 DEF Crash, Abandoned, CleanedUp, Missing, NoRestore, NoArchive, ArchiveOf, IdleBuild, NoWork, NoRows, UploadDone
<1>23. CASE UNCHANGED vars
  BY <1>23 DEF vars
<1> QED
  BY <1>1, <1>2, <1>3, <1>4, <1>5, <1>6, <1>7, <1>8, <1>9, <1>10, <1>11, <1>12, <1>13, <1>14, <1>15, <1>16, <1>17, <1>18, <1>19, <1>20, <1>21, <1>22, <1>23 DEF Next, SectionStep

\* A written file waits for its row where the row will look for it.
LEMMA WrittenKept ==
  ASSUME TypeOK, UploadsComeFirst, WrittenIsThere, [Next]_vars
  PROVE  WrittenIsThere'
<1> USE DEF TypeOK, Directory, DirectoriesFollowStep, Disks, Uploads, UploadsComeFirst, Unborn, WrittenIsThere, Missing, history
<1>1. ASSUME NEW r \in Requests, StageUploads(r) PROVE WrittenIsThere'
  BY <1>1 DEF StageUploads, InSection, NoArchive, ArchiveOf, IdleBuild, DirectoryOf, Builders, NoRows, Archives
<1>2. CASE ReplaceRows
  BY <1>2 DEF ReplaceRows
<1>3. CASE MoveLiveAside
  BY <1>3 DEF MoveLiveAside, MovedAside, Missing, InFlight
<1>4. CASE MoveStagedIn
  BY <1>4 DEF MoveStagedIn, MovedIn, Missing
<1>5. CASE CommitRestore
  BY <1>5 DEF CommitRestore, NoRestore, NoArchive, ArchiveOf, IdleBuild, NoWork, NoRows
<1>6. CASE CleanUp
  BY <1>6 DEF CleanUp, CleanedUp, Missing, NoRestore, NoArchive, ArchiveOf, IdleBuild, NoRows
<1>7. CASE FailCleanUp
  BY <1>7, FailedCleanUp DEF FailCleanUp, Missing, NoRestore, NoArchive, ArchiveOf, IdleBuild, NoRows, DirectoryOf
<1>8. CASE FailRestore
  <2>1. upload' = upload /\ raced \subseteq raced'  BY <1>8 DEF FailRestore
  <2>2. CASE Swapping
    BY <1>8, <2>1, <2>2 DEF FailRestore, InFlight
  <2>3. CASE ~Swapping
    <3>1. disk' = RolledBack(RolledBack(disk))  BY <1>8 DEF FailRestore
    <3>2. ~disk.previous.exists  BY <1>8, <2>3 DEF FailRestore, Swapping
    <3>3. disk'.live = disk.live  BY <1>8, <2>3, <3>1, <3>2, RolledBackTwice DEF FailRestore
    <3> QED  BY <2>1, <3>3
  <2> QED  BY <2>2, <2>3
<1>9. CASE FailRollback
  BY <1>9, FailedRollback DEF FailRollback, Missing, InFlight, NoRestore, NoArchive, ArchiveOf, IdleBuild, NoWork, NoRows
<1>10. ASSUME NEW r \in Requests, FailSnapshot(r) PROVE WrittenIsThere'
  BY <1>10 DEF FailSnapshot, NoRestore, NoArchive, ArchiveOf, IdleBuild, NoRows
<1>11. ASSUME NEW r \in Requests, NEW archive \in archives, BeginRestore(r, archive) PROVE WrittenIsThere'
  BY <1>11 DEF BeginRestore, SerializedBuild, ValidateRestoreZip
<1>12. CASE StartBackup
  BY <1>12 DEF StartBackup, SerializedBuild, InSection
<1>13. CASE FinishBackup
  BY <1>13 DEF FinishBackup, ArchiveOf, IdleBuild, NoRows
<1>14. ASSUME NEW b \in Builders, NEW a \in Assets, ReadAsset(b, a) PROVE WrittenIsThere'
  BY <1>14 DEF ReadAsset
<1>15. ASSUME NEW t \in Trades, NEW status \in TradeStatuses, MoveTrade(t, status) PROVE WrittenIsThere'
  BY <1>15 DEF MoveTrade, InSection
<1>16. ASSUME NEW a \in Assets, NEW t \in Trades, CheckUpload(a, t) PROVE WrittenIsThere'
  BY <1>16 DEF CheckUpload, InSection
<1>17. ASSUME NEW a \in Assets, WriteUpload(a) PROVE WrittenIsThere'
  BY <1>17 DEF WriteUpload, UploadDone
<1>18. ASSUME NEW a \in Assets, InsertAsset(a) PROVE WrittenIsThere'
  BY <1>18 DEF InsertAsset, UploadDone, InSection
<1>19. ASSUME NEW a \in Assets, DeleteAsset(a) PROVE WrittenIsThere'
  BY <1>19 DEF DeleteAsset, InSection
<1>20. ASSUME NEW a \in Assets, Unlink(a) PROVE WrittenIsThere'
  BY <1>20, UnlinkedDisk DEF Unlink
<1>21. CASE FactoryReset
  BY <1>21 DEF FactoryReset, NoRows, InSection
<1>22. CASE Crash
  BY <1>22 DEF Crash, Abandoned, CleanedUp, Missing, NoRestore, NoArchive, ArchiveOf, IdleBuild, NoWork, NoRows, UploadDone
<1>23. CASE UNCHANGED vars
  BY <1>23 DEF vars
<1> QED
  BY <1>1, <1>2, <1>3, <1>4, <1>5, <1>6, <1>7, <1>8, <1>9, <1>10, <1>11, <1>12, <1>13, <1>14, <1>15, <1>16, <1>17, <1>18, <1>19, <1>20, <1>21, <1>22, <1>23 DEF Next, SectionStep

\* A removal takes no file a row names, unless a swap came between.
LEMMA RemovedKept ==
  ASSUME TypeOK, UploadsComeFirst, RemovedHasNoRow, [Next]_vars
  PROVE  RemovedHasNoRow'
<1> USE DEF TypeOK, Databases, Rows, UploadsComeFirst, Unborn, AllRows, Referenced, RemovedHasNoRow, Swapping, Uploads, history, Exempt
<1>1. ASSUME NEW r \in Requests, StageUploads(r) PROVE RemovedHasNoRow'
  BY <1>1 DEF StageUploads, InSection, NoArchive, ArchiveOf, IdleBuild, DirectoryOf, Builders, NoRows, Archives
<1>2. CASE ReplaceRows
  BY <1>2 DEF ReplaceRows
<1>3. CASE MoveLiveAside
  BY <1>3 DEF MoveLiveAside, MovedAside, Missing, InFlight
<1>4. CASE MoveStagedIn
  BY <1>4 DEF MoveStagedIn, MovedIn, Missing
<1>5. CASE CommitRestore
  BY <1>5 DEF CommitRestore, NoRestore, NoArchive, ArchiveOf, IdleBuild, NoWork, NoRows
<1>6. CASE CleanUp
  BY <1>6 DEF CleanUp, CleanedUp, Missing, NoRestore, NoArchive, ArchiveOf, IdleBuild, NoRows
<1>7. CASE FailCleanUp
  BY <1>7, FailedCleanUp DEF FailCleanUp, Missing, NoRestore, NoArchive, ArchiveOf, IdleBuild, NoRows, DirectoryOf
<1>8. CASE FailRestore
  BY <1>8 DEF FailRestore, InFlight, NoRestore, NoArchive, ArchiveOf, IdleBuild, NoWork, NoRows
<1>9. CASE FailRollback
  BY <1>9, FailedRollback DEF FailRollback, Missing, InFlight, NoRestore, NoArchive, ArchiveOf, IdleBuild, NoWork, NoRows
<1>10. ASSUME NEW r \in Requests, FailSnapshot(r) PROVE RemovedHasNoRow'
  BY <1>10 DEF FailSnapshot, NoRestore, NoArchive, ArchiveOf, IdleBuild, NoRows
<1>11. ASSUME NEW r \in Requests, NEW archive \in archives, BeginRestore(r, archive) PROVE RemovedHasNoRow'
  BY <1>11 DEF BeginRestore, SerializedBuild, ValidateRestoreZip
<1>12. CASE StartBackup
  BY <1>12 DEF StartBackup, SerializedBuild, InSection
<1>13. CASE FinishBackup
  BY <1>13 DEF FinishBackup, ArchiveOf, IdleBuild, NoRows
<1>14. ASSUME NEW b \in Builders, NEW a \in Assets, ReadAsset(b, a) PROVE RemovedHasNoRow'
  BY <1>14 DEF ReadAsset
<1>15. ASSUME NEW t \in Trades, NEW status \in TradeStatuses, MoveTrade(t, status) PROVE RemovedHasNoRow'
  BY <1>15 DEF MoveTrade, InSection
<1>16. ASSUME NEW a \in Assets, NEW t \in Trades, CheckUpload(a, t) PROVE RemovedHasNoRow'
  BY <1>16 DEF CheckUpload, InSection
<1>17. ASSUME NEW a \in Assets, WriteUpload(a) PROVE RemovedHasNoRow'
  BY <1>17 DEF WriteUpload, UploadDone
<1>18. ASSUME NEW a \in Assets, InsertAsset(a) PROVE RemovedHasNoRow'
  BY <1>18 DEF InsertAsset, UploadDone, InSection
<1>19. ASSUME NEW a \in Assets, DeleteAsset(a) PROVE RemovedHasNoRow'
  BY <1>19 DEF DeleteAsset, InSection
<1>20. ASSUME NEW a \in Assets, Unlink(a) PROVE RemovedHasNoRow'
  BY <1>20, UnlinkedDisk DEF Unlink
<1>21. CASE FactoryReset
  BY <1>21 DEF FactoryReset, NoRows, InSection
<1>22. CASE Crash
  BY <1>22 DEF Crash, Abandoned, CleanedUp, Missing, NoRestore, NoArchive, ArchiveOf, IdleBuild, NoWork, NoRows, UploadDone
<1>23. CASE UNCHANGED vars
  BY <1>23 DEF vars
<1> QED
  BY <1>1, <1>2, <1>3, <1>4, <1>5, <1>6, <1>7, <1>8, <1>9, <1>10, <1>11, <1>12, <1>13, <1>14, <1>15, <1>16, <1>17, <1>18, <1>19, <1>20, <1>21, <1>22, <1>23 DEF Next, SectionStep

-----------------------------------------------------------------------------
(* Restores and builds *)

\* No request waits with an archive that was not validated.
LEMMA AwaitedKept ==
  ASSUME TypeOK, AwaitedAreComplete, [Next]_vars
  PROVE  AwaitedAreComplete'
<1> USE DEF AwaitedAreComplete, AssetsComplete, Referenced, Builders, TypeOK
<1>1. ASSUME building' = building \/ building' = Disturbed(building), awaiting' = awaiting
      PROVE  AwaitedAreComplete'
  <2>1. \A b \in Builders : building'[b].active = building[b].active
    BY <1>1, DisturbedSame
  <2> QED  BY <1>1, <2>1
<1>2. ASSUME NEW r \in Requests, StageUploads(r) \/ FailSnapshot(r) PROVE AwaitedAreComplete'
  BY <1>2 DEF StageUploads, FailSnapshot, IdleBuild
<1>3. ASSUME NEW r \in Requests, NEW archive \in archives, BeginRestore(r, archive)
      PROVE  AwaitedAreComplete'
  BY <1>3 DEF BeginRestore, ValidateRestoreZip
<1>4. CASE StartBackup
  BY <1>4, RequestsAssumption DEF StartBackup
<1>5. CASE FinishBackup
  BY <1>5, RequestsAssumption DEF FinishBackup
<1>6. ASSUME NEW b \in Builders, NEW a \in Assets, ReadAsset(b, a) PROVE AwaitedAreComplete'
  BY <1>6 DEF ReadAsset, Builds
<1>7. CASE Crash
  BY <1>7 DEF Crash, IdleBuild
<1>8. CASE SectionStep \/ FailRestore \/ FailRollback
  BY <1>1, <1>8 DEF SectionStep, ReplaceRows, MoveLiveAside, MoveStagedIn, CommitRestore, CleanUp,
                    FailCleanUp, FailRestore, FailRollback
<1>9. ASSUME NEW t \in Trades, NEW status \in TradeStatuses, MoveTrade(t, status)
      PROVE  AwaitedAreComplete'
  BY <1>1, <1>9 DEF MoveTrade
<1>10. ASSUME NEW a \in Assets, NEW t \in Trades, CheckUpload(a, t) PROVE AwaitedAreComplete'
  BY <1>1, <1>10 DEF CheckUpload
<1>11. ASSUME NEW a \in Assets, WriteUpload(a) \/ InsertAsset(a) \/ DeleteAsset(a) \/ Unlink(a)
       PROVE  AwaitedAreComplete'
  BY <1>1, <1>11 DEF WriteUpload, InsertAsset, DeleteAsset, Unlink
<1>12. CASE FactoryReset \/ UNCHANGED vars
  BY <1>1, <1>12 DEF FactoryReset, vars
<1> QED
  BY <1>2, <1>3, <1>4, <1>5, <1>6, <1>7, <1>8, <1>9, <1>10, <1>11, <1>12 DEF Next

\* A restore goes on with the archive it validated.
LEMMA ArchiveKept ==
  ASSUME TypeOK, RemovedHasNoRow, AwaitedAreComplete, RestoreCarriesItsArchive, [Next]_vars
  PROVE  RestoreCarriesItsArchive'
<1> USE DEF TypeOK, DirectoriesFollowStep, Directory, Disks, Databases, Archives, Restores, AssetsComplete, RemovedHasNoRow, Swapping, RestoreCarriesItsArchive, Uploads, AwaitedAreComplete, OnlyRestored, history
<1>1. ASSUME NEW r \in Requests, StageUploads(r) PROVE RestoreCarriesItsArchive'
  BY <1>1 DEF StageUploads, InSection, NoArchive, ArchiveOf, IdleBuild, DirectoryOf, Builders, NoRows, Archives
<1>2. CASE ReplaceRows
  BY <1>2 DEF ReplaceRows
<1>3. CASE MoveLiveAside
  BY <1>3 DEF MoveLiveAside, MovedAside, Missing, InFlight
<1>4. CASE MoveStagedIn
  BY <1>4 DEF MoveStagedIn, MovedIn, Missing
<1>5. CASE CommitRestore
  BY <1>5 DEF CommitRestore, NoRestore, NoArchive, ArchiveOf, IdleBuild, NoWork, NoRows
<1>6. CASE CleanUp
  BY <1>6 DEF CleanUp, CleanedUp, Missing, NoRestore, NoArchive, ArchiveOf, IdleBuild, NoRows
<1>7. CASE FailCleanUp
  BY <1>7, FailedCleanUp DEF FailCleanUp, Missing, NoRestore, NoArchive, ArchiveOf, IdleBuild, NoRows, DirectoryOf
<1>8. CASE FailRestore
  BY <1>8 DEF FailRestore, InFlight, NoRestore, NoArchive, ArchiveOf, IdleBuild, NoWork, NoRows
<1>9. CASE FailRollback
  BY <1>9, FailedRollback DEF FailRollback, Missing, InFlight, NoRestore, NoArchive, ArchiveOf, IdleBuild, NoWork, NoRows
<1>10. ASSUME NEW r \in Requests, FailSnapshot(r) PROVE RestoreCarriesItsArchive'
  BY <1>10 DEF FailSnapshot, NoRestore, NoArchive, ArchiveOf, IdleBuild, NoRows
<1>11. ASSUME NEW r \in Requests, NEW archive \in archives, BeginRestore(r, archive) PROVE RestoreCarriesItsArchive'
  BY <1>11 DEF BeginRestore, SerializedBuild, ValidateRestoreZip
<1>12. CASE StartBackup
  BY <1>12 DEF StartBackup, SerializedBuild, InSection
<1>13. CASE FinishBackup
  BY <1>13 DEF FinishBackup, ArchiveOf, IdleBuild, NoRows
<1>14. ASSUME NEW b \in Builders, NEW a \in Assets, ReadAsset(b, a) PROVE RestoreCarriesItsArchive'
  BY <1>14 DEF ReadAsset
<1>15. ASSUME NEW t \in Trades, NEW status \in TradeStatuses, MoveTrade(t, status) PROVE RestoreCarriesItsArchive'
  BY <1>15 DEF MoveTrade, InSection
<1>16. ASSUME NEW a \in Assets, NEW t \in Trades, CheckUpload(a, t) PROVE RestoreCarriesItsArchive'
  BY <1>16 DEF CheckUpload, InSection
<1>17. ASSUME NEW a \in Assets, WriteUpload(a) PROVE RestoreCarriesItsArchive'
  BY <1>17 DEF WriteUpload, UploadDone
<1>18. ASSUME NEW a \in Assets, InsertAsset(a) PROVE RestoreCarriesItsArchive'
  BY <1>18 DEF InsertAsset, UploadDone, InSection
<1>19. ASSUME NEW a \in Assets, DeleteAsset(a) PROVE RestoreCarriesItsArchive'
  BY <1>19 DEF DeleteAsset, InSection
<1>20. ASSUME NEW a \in Assets, Unlink(a) PROVE RestoreCarriesItsArchive'
  BY <1>20, UnlinkedDisk DEF Unlink
<1>21. CASE FactoryReset
  BY <1>21 DEF FactoryReset, NoRows, InSection
<1>22. CASE Crash
  BY <1>22 DEF Crash, Abandoned, CleanedUp, Missing, NoRestore, NoArchive, ArchiveOf, IdleBuild, NoWork, NoRows, UploadDone
<1>23. CASE UNCHANGED vars
  BY <1>23 DEF vars
<1> QED
  BY <1>1, <1>2, <1>3, <1>4, <1>5, <1>6, <1>7, <1>8, <1>9, <1>10, <1>11, <1>12, <1>13, <1>14, <1>15, <1>16, <1>17, <1>18, <1>19, <1>20, <1>21, <1>22, <1>23 DEF Next, SectionStep

\* The files of the committed rows stay at home, or where a crash left them.
LEMMA HomeKept ==
  ASSUME TypeOK, MissingHoldsNothing, UploadsComeFirst, WrittenIsThere,
         RemovedHasNoRow, RestoreCarriesItsArchive, FilesAreHome, [Next]_vars
  PROVE  FilesAreHome'
<1> USE DEF TypeOK, DirectoriesFollowStep, Directory, Disks, Databases, Rows, Archives, Restores,
           Uploads, MissingHoldsNothing, UploadsComeFirst, Unborn, WrittenIsThere,
           RemovedHasNoRow, RestoreCarriesItsArchive, Referenced, Swapping, Home, FilesAreHome, history, Exempt
<1>1. ASSUME NEW r \in Requests, StageUploads(r) PROVE FilesAreHome'
  BY <1>1 DEF StageUploads, InSection, NoArchive, ArchiveOf, IdleBuild, DirectoryOf, Builders, NoRows, Archives
<1>2. CASE ReplaceRows
  BY <1>2 DEF ReplaceRows
<1>3. CASE MoveLiveAside
  BY <1>3 DEF MoveLiveAside, MovedAside, Missing, InFlight
<1>4. CASE MoveStagedIn
  BY <1>4 DEF MoveStagedIn, MovedIn, Missing
<1>5. CASE CommitRestore
  BY <1>5 DEF CommitRestore, NoRestore, NoArchive, ArchiveOf, IdleBuild, NoWork, NoRows
<1>6. CASE CleanUp
  BY <1>6 DEF CleanUp, CleanedUp, Missing, NoRestore, NoArchive, ArchiveOf, IdleBuild, NoRows
<1>7. CASE FailCleanUp
  BY <1>7, FailedCleanUp DEF FailCleanUp, Missing, NoRestore, NoArchive, ArchiveOf, IdleBuild, NoRows, DirectoryOf
<1>8. CASE FailRestore
  <2>1. Home' = Home
    <3>1. restore'.step = "idle" /\ disk' = RolledBack(RolledBack(disk))
      BY <1>8 DEF FailRestore, NoRestore
    <3>3. CASE Swapping
      BY <1>8, <3>1, <3>3, RolledBackTwice DEF FailRestore, Missing
    <3>4. CASE ~Swapping
      BY <1>8, <3>1, <3>4, RolledBackTwice DEF FailRestore
    <3> QED  BY <3>3, <3>4
  <2>2. /\ database' = database /\ raced \subseteq raced' /\ halfDeleted' = halfDeleted
        /\ restore'.step = "idle" /\ interrupted' = interrupted
        /\ disk' = RolledBack(RolledBack(disk))
    BY <1>8 DEF FailRestore, NoRestore
  <2>3. disk'.leftover = disk.leftover
    BY <1>8, <2>2, RolledBackTwice DEF FailRestore
  <2> QED  BY <2>1, <2>2, <2>3
<1>9. CASE FailRollback
  BY <1>9, FailedRollback DEF FailRollback, Missing, InFlight, NoRestore, NoArchive, ArchiveOf, IdleBuild, NoWork, NoRows
<1>10. ASSUME NEW r \in Requests, FailSnapshot(r) PROVE FilesAreHome'
  BY <1>10 DEF FailSnapshot, NoRestore, NoArchive, ArchiveOf, IdleBuild, NoRows
<1>11. ASSUME NEW r \in Requests, NEW archive \in archives, BeginRestore(r, archive) PROVE FilesAreHome'
  BY <1>11 DEF BeginRestore, SerializedBuild, ValidateRestoreZip
<1>12. CASE StartBackup
  BY <1>12 DEF StartBackup, SerializedBuild, InSection
<1>13. CASE FinishBackup
  BY <1>13 DEF FinishBackup, ArchiveOf, IdleBuild, NoRows
<1>14. ASSUME NEW b \in Builders, NEW a \in Assets, ReadAsset(b, a) PROVE FilesAreHome'
  BY <1>14 DEF ReadAsset
<1>15. ASSUME NEW t \in Trades, NEW status \in TradeStatuses, MoveTrade(t, status) PROVE FilesAreHome'
  BY <1>15 DEF MoveTrade, InSection
<1>16. ASSUME NEW a \in Assets, NEW t \in Trades, CheckUpload(a, t) PROVE FilesAreHome'
  BY <1>16 DEF CheckUpload, InSection
<1>17. ASSUME NEW a \in Assets, WriteUpload(a) PROVE FilesAreHome'
  <2>1. Home \subseteq Home'
    <3>1. CASE disk.live.exists
      <4>1. disk' = [disk EXCEPT !.live.files = disk.live.files \cup {a}]
        BY <1>17, <3>1 DEF WriteUpload
      <4> QED  BY <1>17, <4>1, LiveFiles DEF WriteUpload
    <3>2. CASE ~disk.live.exists  BY <1>17, <3>2 DEF WriteUpload
    <3> QED  BY <3>1, <3>2
  <2> QED  BY <1>17, <2>1 DEF WriteUpload
<1>18. ASSUME NEW a \in Assets, InsertAsset(a) PROVE FilesAreHome'
  BY <1>18 DEF InsertAsset, UploadDone, InSection
<1>19. ASSUME NEW a \in Assets, DeleteAsset(a) PROVE FilesAreHome'
  <2>1. /\ disk' = disk /\ restore' = restore /\ raced' = raced /\ interrupted' = interrupted
        /\ halfDeleted \subseteq halfDeleted'
    BY <1>19 DEF DeleteAsset
  <2>2. Referenced(database'.rows) \subseteq Referenced(database.rows)
    <3>1. CASE database' = database  BY <3>1
    <3>2. CASE database' = [database EXCEPT !.rows.owner[a] = NoTrade]
      <4>1. database'.rows = [database.rows EXCEPT !.owner = [database.rows.owner EXCEPT ![a] = NoTrade]]
        BY <3>2
      <4> QED  BY <4>1
    <3> QED  BY <1>19, <3>1, <3>2 DEF DeleteAsset
  <2> QED  BY <2>1, <2>2
<1>20. ASSUME NEW a \in Assets, Unlink(a) PROVE FilesAreHome'
  BY <1>20, UnlinkedDisk DEF Unlink
<1>21. CASE FactoryReset
  BY <1>21 DEF FactoryReset, NoRows, InSection
<1>22. CASE Crash
  BY <1>22 DEF Crash, Abandoned, CleanedUp, Missing, NoRestore, NoArchive, ArchiveOf, IdleBuild, NoWork, NoRows, UploadDone
<1>23. CASE UNCHANGED vars
  BY <1>23 DEF vars
<1> QED
  BY <1>1, <1>2, <1>3, <1>4, <1>5, <1>6, <1>7, <1>8, <1>9, <1>10, <1>11, <1>12, <1>13, <1>14, <1>15, <1>16, <1>17, <1>18, <1>19, <1>20, <1>21, <1>22, <1>23 DEF Next, SectionStep

\* A build that nothing disturbs finds every file its rows name.
LEMMA BuildsKept ==
  ASSUME TypeOK, RestoreCarriesItsArchive, FilesAreHome, BuildsFindTheirFiles, [Next]_vars
  PROVE  BuildsFindTheirFiles'
<1> USE DEF TypeOK, DirectoriesFollowStep, Directory, Disks, Databases, Archives, Restores, Builds,
           FilesAreHome, Home, Swapping, BuildsFindTheirFiles, history, Exempt
<1>1. ASSUME NEW r \in Requests, StageUploads(r) PROVE BuildsFindTheirFiles'
  BY <1>1 DEF StageUploads, InSection, NoArchive, ArchiveOf, IdleBuild, DirectoryOf, Builders, NoRows, Archives
<1>2. CASE ReplaceRows
  BY <1>2 DEF ReplaceRows
<1>3. CASE MoveLiveAside
  BY <1>3, DisturbedBuilds DEF MoveLiveAside, MovedAside, Missing, InFlight
<1>4. CASE MoveStagedIn
  BY <1>4 DEF MoveStagedIn, MovedIn, Missing
<1>5. CASE CommitRestore
  BY <1>5 DEF CommitRestore, NoRestore, NoArchive, ArchiveOf, IdleBuild, NoWork, NoRows
<1>6. CASE CleanUp
  BY <1>6 DEF CleanUp, CleanedUp, Missing, NoRestore, NoArchive, ArchiveOf, IdleBuild, NoRows
<1>7. CASE FailCleanUp
  BY <1>7, FailedCleanUp DEF FailCleanUp, Missing, NoRestore, NoArchive, ArchiveOf, IdleBuild, NoRows, DirectoryOf
<1>8. CASE FailRestore
  <2>1. /\ restore'.step = "idle" /\ disk' = RolledBack(RolledBack(disk))
        /\ building' = building
    BY <1>8 DEF FailRestore, NoRestore
  <2>2. CASE Swapping  BY <2>1, <2>2
  <2>3. CASE ~Swapping
    <3>1. ~disk.previous.exists  BY <1>8, <2>3 DEF FailRestore
    <3>2. disk'.live = disk.live
      BY <1>8, <2>1, <2>3, <3>1, RolledBackTwice DEF FailRestore
    <3> QED  BY <2>1, <3>2
  <2> QED  BY <2>2, <2>3
<1>9. CASE FailRollback
  BY <1>9, FailedRollback DEF FailRollback, Missing, InFlight, NoRestore, NoArchive, ArchiveOf, IdleBuild, NoWork, NoRows
<1>10. ASSUME NEW r \in Requests, FailSnapshot(r) PROVE BuildsFindTheirFiles'
  BY <1>10 DEF FailSnapshot, NoRestore, NoArchive, ArchiveOf, IdleBuild, NoRows
<1>11. ASSUME NEW r \in Requests, NEW archive \in archives, BeginRestore(r, archive) PROVE BuildsFindTheirFiles'
  <2>1. building' = [building EXCEPT ![r] = SerializedBuild] /\ disk' = disk
    BY <1>11 DEF BeginRestore
  <2>2. ~Swapping /\ restore.step # "committed"  BY <1>11 DEF BeginRestore, InSection
  <2>3. ~SerializedBuild.disturbed =>
          Referenced(SerializedBuild.rows) \subseteq SerializedBuild.pending \cap disk.live.files
    BY <2>2 DEF SerializedBuild
  <2> QED  BY <1>11, <2>1, <2>2, <2>3 DEF BeginRestore, Builders
<1>12. CASE StartBackup
  <2>1. building' = [building EXCEPT !["job"] = SerializedBuild] /\ disk' = disk
    BY <1>12 DEF StartBackup
  <2>2. ~Swapping /\ restore.step # "committed"  BY <1>12 DEF StartBackup, InSection
  <2>3. ~SerializedBuild.disturbed =>
          Referenced(SerializedBuild.rows) \subseteq SerializedBuild.pending \cap disk.live.files
    BY <2>2 DEF SerializedBuild
  <2> QED  BY <1>12, <2>1, <2>2, <2>3 DEF StartBackup, Builders
<1>13. CASE FinishBackup
  BY <1>13 DEF FinishBackup, ArchiveOf, IdleBuild, NoRows
<1>14. ASSUME NEW b \in Builders, NEW a \in Assets, ReadAsset(b, a) PROVE BuildsFindTheirFiles'
  BY <1>14 DEF ReadAsset
<1>15. ASSUME NEW t \in Trades, NEW status \in TradeStatuses, MoveTrade(t, status) PROVE BuildsFindTheirFiles'
  BY <1>15 DEF MoveTrade, InSection
<1>16. ASSUME NEW a \in Assets, NEW t \in Trades, CheckUpload(a, t) PROVE BuildsFindTheirFiles'
  BY <1>16 DEF CheckUpload, InSection
<1>17. ASSUME NEW a \in Assets, WriteUpload(a) PROVE BuildsFindTheirFiles'
  BY <1>17 DEF WriteUpload, UploadDone
<1>18. ASSUME NEW a \in Assets, InsertAsset(a) PROVE BuildsFindTheirFiles'
  BY <1>18 DEF InsertAsset, UploadDone, InSection
<1>19. ASSUME NEW a \in Assets, DeleteAsset(a) PROVE BuildsFindTheirFiles'
  BY <1>19, DisturbedBuilds DEF DeleteAsset, InSection
<1>20. ASSUME NEW a \in Assets, Unlink(a) PROVE BuildsFindTheirFiles'
  BY <1>20, DisturbedBuilds DEF Unlink
<1>21. CASE FactoryReset
  BY <1>21 DEF FactoryReset, NoRows, InSection
<1>22. CASE Crash
  BY <1>22 DEF Crash, Abandoned, CleanedUp, Missing, NoRestore, NoArchive, ArchiveOf, IdleBuild, NoWork, NoRows, UploadDone
<1>23. CASE UNCHANGED vars
  BY <1>23 DEF vars
<1> QED
  BY <1>1, <1>2, <1>3, <1>4, <1>5, <1>6, <1>7, <1>8, <1>9, <1>10, <1>11, <1>12, <1>13, <1>14, <1>15, <1>16, <1>17, <1>18, <1>19, <1>20, <1>21, <1>22, <1>23 DEF Next, SectionStep

\* No committed state is without the triggers.
LEMMA GuardsKept ==
  ASSUME TypeOK, PostedRowsStayGuarded, [Next]_vars
  PROVE  PostedRowsStayGuarded'
<1> USE DEF TypeOK, Databases, PostedRowsStayGuarded, history
<1>1. ASSUME NEW r \in Requests, StageUploads(r) PROVE PostedRowsStayGuarded'
  BY <1>1 DEF StageUploads, InSection, NoArchive, ArchiveOf, IdleBuild, DirectoryOf, Builders, NoRows, Archives
<1>2. CASE ReplaceRows
  BY <1>2 DEF ReplaceRows
<1>3. CASE MoveLiveAside
  BY <1>3 DEF MoveLiveAside, MovedAside, Missing, InFlight
<1>4. CASE MoveStagedIn
  BY <1>4 DEF MoveStagedIn, MovedIn, Missing
<1>5. CASE CommitRestore
  BY <1>5 DEF CommitRestore, NoRestore, NoArchive, ArchiveOf, IdleBuild, NoWork, NoRows
<1>6. CASE CleanUp
  BY <1>6 DEF CleanUp, CleanedUp, Missing, NoRestore, NoArchive, ArchiveOf, IdleBuild, NoRows
<1>7. CASE FailCleanUp
  BY <1>7, FailedCleanUp DEF FailCleanUp, Missing, NoRestore, NoArchive, ArchiveOf, IdleBuild, NoRows, DirectoryOf
<1>8. CASE FailRestore
  BY <1>8 DEF FailRestore, InFlight, NoRestore, NoArchive, ArchiveOf, IdleBuild, NoWork, NoRows
<1>9. CASE FailRollback
  BY <1>9, FailedRollback DEF FailRollback, Missing, InFlight, NoRestore, NoArchive, ArchiveOf, IdleBuild, NoWork, NoRows
<1>10. ASSUME NEW r \in Requests, FailSnapshot(r) PROVE PostedRowsStayGuarded'
  BY <1>10 DEF FailSnapshot, NoRestore, NoArchive, ArchiveOf, IdleBuild, NoRows
<1>11. ASSUME NEW r \in Requests, NEW archive \in archives, BeginRestore(r, archive) PROVE PostedRowsStayGuarded'
  BY <1>11 DEF BeginRestore, SerializedBuild, ValidateRestoreZip
<1>12. CASE StartBackup
  BY <1>12 DEF StartBackup, SerializedBuild, InSection
<1>13. CASE FinishBackup
  BY <1>13 DEF FinishBackup, ArchiveOf, IdleBuild, NoRows
<1>14. ASSUME NEW b \in Builders, NEW a \in Assets, ReadAsset(b, a) PROVE PostedRowsStayGuarded'
  BY <1>14 DEF ReadAsset
<1>15. ASSUME NEW t \in Trades, NEW status \in TradeStatuses, MoveTrade(t, status) PROVE PostedRowsStayGuarded'
  BY <1>15 DEF MoveTrade, InSection
<1>16. ASSUME NEW a \in Assets, NEW t \in Trades, CheckUpload(a, t) PROVE PostedRowsStayGuarded'
  BY <1>16 DEF CheckUpload, InSection
<1>17. ASSUME NEW a \in Assets, WriteUpload(a) PROVE PostedRowsStayGuarded'
  BY <1>17 DEF WriteUpload, UploadDone
<1>18. ASSUME NEW a \in Assets, InsertAsset(a) PROVE PostedRowsStayGuarded'
  BY <1>18 DEF InsertAsset, UploadDone, InSection
<1>19. ASSUME NEW a \in Assets, DeleteAsset(a) PROVE PostedRowsStayGuarded'
  BY <1>19 DEF DeleteAsset, InSection
<1>20. ASSUME NEW a \in Assets, Unlink(a) PROVE PostedRowsStayGuarded'
  BY <1>20, UnlinkedDisk DEF Unlink
<1>21. CASE FactoryReset
  BY <1>21 DEF FactoryReset, NoRows, InSection
<1>22. CASE Crash
  BY <1>22 DEF Crash, Abandoned, CleanedUp, Missing, NoRestore, NoArchive, ArchiveOf, IdleBuild, NoWork, NoRows, UploadDone
<1>23. CASE UNCHANGED vars
  BY <1>23 DEF vars
<1> QED
  BY <1>1, <1>2, <1>3, <1>4, <1>5, <1>6, <1>7, <1>8, <1>9, <1>10, <1>11, <1>12, <1>13, <1>14, <1>15, <1>16, <1>17, <1>18, <1>19, <1>20, <1>21, <1>22, <1>23 DEF Next, SectionStep

-----------------------------------------------------------------------------
(* Theorems *)

LEMMA InitHolds == Init => IInv
<1> SUFFICES ASSUME Init PROVE IInv
  OBVIOUS
<1> USE DEF Init, NoRows, NoRestore, NoArchive, NoWork, IdleBuild, ArchiveOf, DirectoryOf, Missing
<1>1. TypeOK
  <2>1. NoRows \in Rows  BY DEF Rows, TradeStatuses
  <2> HIDE DEF NoRows
  <2>2. IdleBuild \in Builds  BY <2>1 DEF Builds
  <2>3. building \in [Builders -> Builds]  BY <2>2
  <2>4. database \in Databases /\ work \in Databases  BY <2>1 DEF Databases
  <2>5. restore \in Restores  BY <2>1 DEF Restores, Archives
  <2>6. disk \in Disks  BY DEF Disks, Directory
  <2>7. upload \in [Assets -> Uploads]  BY DEF Uploads
  <2>8. DirectoriesFollowStep
    <3>1. restore.step = "idle" /\ ~disk.staging.exists /\ ~disk.previous.exists /\ ~disk.swapped
      OBVIOUS
    <3> QED  BY <3>1 DEF DirectoriesFollowStep
  <2>9. crashes \in 0 .. MaxCrashes
    <3>1. crashes = 0  OBVIOUS
    <3>2. 0 \in 0 .. MaxCrashes  BY ONLY LimitsAssumption
    <3> QED  BY <3>1, <3>2
  <2>10. interrupted \in BOOLEAN /\ littered \in BOOLEAN  OBVIOUS
  <2>11. awaiting \in [Requests -> Archives]  BY <2>1 DEF Archives
  <2> QED  BY <2>3, <2>4, <2>5, <2>6, <2>7, <2>8, <2>9, <2>10, <2>11 DEF TypeOK
<1>2. PostedRowsStayGuarded /\ MissingHoldsNothing /\ WrittenIsThere /\ RemovedHasNoRow
  BY DEF PostedRowsStayGuarded, MissingHoldsNothing, WrittenIsThere, RemovedHasNoRow, Swapping
<1>3. UploadsComeFirst
  <2>1. \A rows \in AllRows : rows = NoRows  BY DEF AllRows
  <2>2. Referenced(NoRows) = {}  BY DEF Referenced
  <2> QED  BY <2>1, <2>2 DEF UploadsComeFirst
<1>4. AwaitedAreComplete /\ RestoreCarriesItsArchive /\ FilesAreHome /\ BuildsFindTheirFiles
  BY DEF AwaitedAreComplete, RestoreCarriesItsArchive, FilesAreHome, Home, Swapping, Referenced,
         Builders, BuildsFindTheirFiles
<1> QED  BY <1>1, <1>2, <1>3, <1>4 DEF IInv

\* The strengthening of the properties below that every step keeps.
THEOREM IInvHolds == Spec => []IInv
<1>1. IInv /\ [Next]_vars => IInv'
  BY TypeStep, MissingKept, UploadsKept, WrittenKept, RemovedKept, AwaitedKept, ArchiveKept, HomeKept,
     BuildsKept, GuardsKept DEF IInv
<1> QED  BY <1>1, InitHolds, PTL DEF Spec

\* The directories and the request follow each other through every failure.
THEOREM TypeCorrectness == Spec => []TypeOK
<1>1. IInv => TypeOK  BY DEF IInv
<1> QED  BY <1>1, IInvHolds, PTL

\* No crash, rollback or restore loses a file that a committed row names.
THEOREM NoFileIsLost == Spec => []FilesSurvive
<1>1. IInv => FilesSurvive  BY DEF IInv, FilesAreHome, Home, FilesSurvive
<1> QED  BY <1>1, IInvHolds, PTL

\* A restore succeeds or fails for the rows and the directory together.
THEOREM NoMixedState == Spec => []UploadsMatchDatabase
<1>1. IInv => UploadsMatchDatabase
  BY DEF IInv, FilesAreHome, Home, Swapping, UploadsMatchDatabase
<1> QED  BY <1>1, IInvHolds, PTL

\* The triggers that keep posted rows are in force in every committed state.
THEOREM Guarded == Spec => []PostedRowsStayGuarded
<1>1. IInv => PostedRowsStayGuarded  BY DEF IInv
<1> QED  BY <1>1, IInvHolds, PTL

\* No file of the replaced database survives a restore that commits.
THEOREM OldUploadsGo == Spec => OldUploadsAreGone
<1>1. IInv /\ [Next]_vars =>
        (restore.step = "swapped" /\ restore'.step = "committed" => OnlyRestored)
  BY DEF IInv, RestoreCarriesItsArchive
<1> QED  BY <1>1, IInvHolds, PTL DEF Spec, OldUploadsAreGone, OnlyRestored

\* What a backup wrote undisturbed, the restore accepts.
THEOREM BackupsCanBeRestored == Spec => []ArchivesAreRestorable
<1>1. IInv => ArchivesAreRestorable
  <2> SUFFICES ASSUME IInv, NEW b \in Builders,
                      building[b].active, building[b].pending = {}, ~building[b].disturbed
               PROVE  AssetsComplete(ArchiveOf(building[b]))
    BY DEF ArchivesAreRestorable
  <2>1. Referenced(building[b].rows) \subseteq building[b].files
    BY DEF IInv, BuildsFindTheirFiles
  <2> QED  BY <2>1 DEF AssetsComplete, ArchiveOf
<1> QED  BY <1>1, IInvHolds, PTL
=============================================================================
