------------------------------ MODULE Scheduler ------------------------------
(***************************************************************************)
(* Scheduled and manual backups: the cron task of one server process       *)
(* (src/lib/scheduler.ts), the settings and the time zone that drive it    *)
(* (src/app/api/settings/route.ts, src/app/api/app-profile/route.ts,       *)
(* src/lib/start-backup-scheduler.ts), and the backup job with its         *)
(* retention (src/lib/backup-job.ts).                                      *)
(*                                                                         *)
(* What an archive holds is Restore's; here it is a file with the time its *)
(* job began.  A job is two steps around the await of the archive; every   *)
(* other handler is one.                                                   *)
(***************************************************************************)
EXTENDS Integers, Sequences, FiniteSets

CONSTANTS
  CronTimes,       \* backupCronTime values
  Zones,           \* time zones
  DefaultTime, DefaultZone,
  Retentions,      \* backupRetentionCount values
  DefaultRetention,
  ScheduledRuns,   \* slots for jobs the scheduler starts
  ManualRuns,      \* slots for jobs of POST /api/backup/now
  MaxClock,        \* bound: the clock stands still there
  MaxRowIds        \* bound: settings rows ever created

ASSUME DefaultsAssumption ==
  DefaultTime \in CronTimes /\ DefaultZone \in Zones /\ DefaultRetention \in Retentions
ASSUME RetentionAssumption == Retentions \subseteq Nat \ {0}
ASSUME RunsAssumption == ScheduledRuns \cap ManualRuns = {}
ASSUME BoundsAssumption == MaxClock \in Nat /\ MaxRowIds \in Nat

VARIABLES
  production,  \* NODE_ENV === 'production', else development
  settings,    \* rows of the settings table, oldest first
  profile,     \* the zone of the app_profile row, or NoProfile
  task,        \* cronTask: whether it exists, and its schedule
  immediate,   \* immediateTimeout is pending
  jobRunning,  \* _jobRunning
  runs,        \* [runs -> job in progress]
  files,       \* archives in the backup directory
  clock,
  rowIds,      \* settings rows created so far
  \* history
  diverged     \* settings changed along a path that leaves the scheduler alone

vars == <<production, settings, profile, task, immediate, jobRunning, runs, files, clock,
          rowIds, diverged>>

Runs == ScheduledRuns \cup ManualRuns
NoProfile == "no profile"

ASSUME ProfileAssumption == NoProfile \notin Zones

Stamps == 0 .. MaxClock
NextClock == IF clock < MaxClock THEN clock + 1 ELSE clock

Files == [time : Stamps, imported : BOOLEAN]
NoTask == [on |-> FALSE, time |-> DefaultTime, zone |-> DefaultZone]
NoRun == [active |-> FALSE, began |-> 0, row |-> 0, retention |-> DefaultRetention]

Archive(run) == [time |-> run.began, imported |-> FALSE]

HasSettings == settings # <<>>
\* db.select().from(settings).limit(1)
Existing == settings[1]
Zone == IF profile = NoProfile THEN DefaultZone ELSE profile

NewRow(enabled, time, retention) ==
  [id |-> rowIds + 1, enabled |-> enabled, time |-> time, retention |-> retention,
   lastRun |-> 0, status |-> "never"]
-----------------------------------------------------------------------------
(* The scheduler *)

\* Mutation: stopping cancels the readiness delay only.
StopDelayOnly ==
  /\ immediate' = FALSE
  /\ UNCHANGED task

\* stopScheduler; a job that is running goes on.
StopScheduler ==
  /\ task' = NoTask
  /\ immediate' = FALSE

\* startScheduler, also as reschedule: whatever was there is stopped, and a
\* first backup follows unless the next cron run is within a minute.
StartScheduler(time, zone) ==
  IF production
    THEN /\ task' = [on |-> TRUE, time |-> time, zone |-> zone]
         /\ immediate' \in BOOLEAN
    ELSE UNCHANGED <<task, immediate>>

KeepScheduler == UNCHANGED <<task, immediate>>

\* runBackupJob up to its await: the settings row and its retention are read.
BeginJob(r) ==
  /\ runs' = [runs EXCEPT ![r] =
       [active |-> TRUE, began |-> NextClock,
        row |-> IF HasSettings THEN Existing.id ELSE 0,
        retention |-> IF HasSettings THEN Existing.retention ELSE DefaultRetention]]
  /\ clock' = NextClock
  /\ UNCHANGED <<production, settings, profile, files, rowIds, diverged>>

\* Mutation: the second job is not skipped.
MayStartJobAlways == TRUE

\* The mutex that cron fires and the readiness delay share.
MayStartJob == ~jobRunning

\* A cron tick; one that finds a job running is skipped.
CronFire(r) ==
  /\ task.on /\ MayStartJob /\ ~runs[r].active
  /\ BeginJob(r)
  /\ jobRunning' = TRUE
  /\ KeepScheduler

\* The readiness delay is over.
ImmediateFire(r) ==
  /\ immediate
  /\ immediate' = FALSE /\ UNCHANGED task
  /\ IF MayStartJob
       THEN ~runs[r].active /\ BeginJob(r) /\ jobRunning' = TRUE
       ELSE UNCHANGED <<production, settings, profile, jobRunning, runs, files,
                        clock, rowIds, diverged>>

\* POST /api/backup/now has no mutex.
BackupNow(r) ==
  /\ ~runs[r].active
  /\ BeginJob(r)
  /\ KeepScheduler /\ UNCHANGED jobRunning
-----------------------------------------------------------------------------
(* Retention *)

\* `files.sort()`: names of imported archives begin with "backup-imported-" and
\* sort behind every "backup-2...".
NameBefore(f, g) ==
  \/ ~f.imported /\ g.imported
  \/ f.imported = g.imported /\ f.time < g.time

\* Mutation: the newest names are taken for the oldest.
ExcessFilesNewestFirst(dir, retention) ==
  {f \in dir : Cardinality({g \in dir : NameBefore(g, f)}) >= retention}

\* performRetentionCleanup: all but the last `retention` names.
ExcessFiles(dir, retention) ==
  {f \in dir : Cardinality({g \in dir : NameBefore(f, g)}) >= retention}

\* The status goes to the row that was read before the await, if it is still
\* there; without one a success inserts a row.
RecordedRun(run, status) ==
  IF run.row # 0
    THEN [i \in DOMAIN settings |->
           IF settings[i].id = run.row
             THEN [settings[i] EXCEPT !.lastRun = run.began, !.status = status]
             ELSE settings[i]]
  ELSE IF status = "success"
    THEN Append(settings, [NewRow(FALSE, DefaultTime, DefaultRetention) EXCEPT
                             !.lastRun = run.began, !.status = status])
  ELSE settings

\* Mutation: only a backup that succeeded gives the mutex back.
ReleasedOnSuccess(r, status) ==
  IF r \in ScheduledRuns /\ status = "success" THEN FALSE ELSE jobRunning

\* `finally { _jobRunning = false }`, around scheduled jobs only.
Released(r, status) == IF r \in ScheduledRuns THEN FALSE ELSE jobRunning

Written(r) == files \cup {Archive(runs[r])}

\* The archive is written, the run recorded, and the excess removed file by file;
\* a file that cannot be removed stays and the loop goes on.
FinishJob(r) ==
  /\ runs[r].active
  /\ runs[r].row = 0 => rowIds < MaxRowIds
  /\ \E removed \in SUBSET ExcessFiles(Written(r), runs[r].retention) :
       files' = Written(r) \ removed
  /\ settings' = RecordedRun(runs[r], "success")
  /\ rowIds' = IF runs[r].row = 0 THEN rowIds + 1 ELSE rowIds
  /\ jobRunning' = Released(r, "success")
  /\ runs' = [runs EXCEPT ![r] = NoRun]
  /\ UNCHANGED <<production, profile, task, immediate, clock, diverged>>

\* The archive or its file cannot be made, or the file is there and the run cannot
\* be recorded; the failure may not be recorded either.
FailJob(r) ==
  /\ runs[r].active
  /\ files' \in {files, Written(r)}
  /\ settings' \in {settings, RecordedRun(runs[r], "error")}
  /\ jobRunning' = Released(r, "error")
  /\ runs' = [runs EXCEPT ![r] = NoRun]
  /\ UNCHANGED <<production, profile, task, immediate, clock, rowIds, diverged>>
-----------------------------------------------------------------------------
(* Requests *)

\* PUT /api/settings when there is no row: the scheduler is not told.
CreateSettings(enabled, time, retention) ==
  /\ ~HasSettings /\ rowIds < MaxRowIds
  /\ settings' = <<NewRow(enabled, time, retention)>>
  /\ rowIds' = rowIds + 1
  /\ diverged' = (diverged \/ enabled)
  /\ KeepScheduler
  /\ UNCHANGED <<production, profile, jobRunning, runs, files, clock>>

\* PUT /api/settings with backupEnabled: it starts or stops the scheduler when
\* the value changes, with the time the request or the row carries.
ToggleBackups(enabled, time, retention) ==
  /\ HasSettings
  /\ settings' = [settings EXCEPT ![1].enabled = enabled, ![1].time = time,
                                  ![1].retention = retention]
  /\ IF enabled /\ ~Existing.enabled THEN StartScheduler(time, Zone)
     ELSE IF ~enabled /\ Existing.enabled THEN StopScheduler
     ELSE KeepScheduler
  /\ diverged' =
       IF enabled = Existing.enabled THEN diverged \/ (enabled /\ time # Existing.time)
       ELSE FALSE
  /\ UNCHANGED <<production, profile, jobRunning, runs, files, clock, rowIds>>

\* PUT /api/settings with backupCronTime alone.
ChangeCronTime(time) ==
  /\ HasSettings
  /\ settings' = [settings EXCEPT ![1].time = time]
  /\ IF Existing.enabled THEN StartScheduler(time, Zone) ELSE KeepScheduler
  /\ diverged' = (diverged /\ ~Existing.enabled)
  /\ UNCHANGED <<production, profile, jobRunning, runs, files, clock, rowIds>>

\* PUT /api/app-profile: a new zone reschedules an active scheduler, a new
\* profile does not.
ChangeZone(zone) ==
  /\ profile' = zone
  /\ LET told == profile # NoProfile /\ HasSettings /\ zone # profile IN
     /\ IF told /\ Existing.enabled /\ task.on THEN StartScheduler(Existing.time, zone)
        ELSE KeepScheduler
     /\ diverged' = (diverged \/ (profile = NoProfile /\ zone # DefaultZone))
  /\ UNCHANGED <<production, settings, jobRunning, runs, files, clock, rowIds>>

\* DELETE /api/backup/files/[filename]
DeleteFile(f) ==
  /\ f \in files
  /\ files' = files \ {f}
  /\ UNCHANGED <<production, settings, profile, task, immediate, jobRunning, runs,
                 clock, rowIds, diverged>>

\* POST /api/backup/import-local, in development only.
ImportFile ==
  /\ ~production /\ clock' = NextClock
  /\ files' = files \cup {[time |-> NextClock, imported |-> TRUE]}
  /\ UNCHANGED <<production, settings, profile, task, immediate, jobRunning, runs,
                 rowIds, diverged>>

\* A restore replaces the settings row and the profile by archived ones, a reset
\* by none (Restore).  Neither speaks to the scheduler.
ReplaceSettings(rows, zone) ==
  /\ rowIds < MaxRowIds
  /\ settings' = rows /\ rowIds' = rowIds + 1
  /\ profile' = zone
  /\ diverged' = TRUE
  /\ UNCHANGED <<production, task, immediate, jobRunning, runs, files, clock>>

\* The process ends and starts again: startSchedulerIfEnabled.
Restart ==
  /\ runs' = [r \in Runs |-> NoRun] /\ jobRunning' = FALSE
  /\ IF HasSettings /\ Existing.enabled /\ production
       THEN StartScheduler(Existing.time, Zone)
       ELSE StopScheduler
  /\ diverged' = FALSE
  /\ UNCHANGED <<production, settings, profile, files, clock, rowIds>>
-----------------------------------------------------------------------------
Init ==
  /\ production \in BOOLEAN
  /\ settings = <<>> /\ profile = NoProfile
  /\ task = NoTask /\ immediate = FALSE /\ jobRunning = FALSE
  /\ runs = [r \in Runs |-> NoRun]
  /\ files = {} /\ clock = 0 /\ rowIds = 0
  /\ diverged = FALSE

Next ==
  \/ \E r \in ScheduledRuns : CronFire(r) \/ ImmediateFire(r)
  \/ \E r \in ManualRuns : BackupNow(r)
  \/ \E r \in Runs : FinishJob(r) \/ FailJob(r)
  \/ \E enabled \in BOOLEAN, time \in CronTimes, retention \in Retentions :
       CreateSettings(enabled, time, retention) \/ ToggleBackups(enabled, time, retention)
  \/ \E time \in CronTimes : ChangeCronTime(time)
  \/ \E zone \in Zones : ChangeZone(zone)
  \/ \E f \in files : DeleteFile(f)
  \/ ImportFile
  \/ \E zone \in Zones \cup {NoProfile} :
       \/ ReplaceSettings(<<>>, zone)
       \/ \E enabled \in BOOLEAN, time \in CronTimes, status \in {"never", "success"} :
            ReplaceSettings(<<[NewRow(enabled, time, DefaultRetention) EXCEPT
                                 !.lastRun = clock, !.status = status]>>, zone)
  \/ Restart

Spec == Init /\ [][Next]_vars

\* Node's event loop runs a timer that is due and settles a started archive;
\* node-cron fires at its daily time.
FairSpec ==
  /\ Spec
  /\ WF_vars(\E r \in ScheduledRuns : CronFire(r))
  /\ WF_vars(\E r \in ScheduledRuns : ImmediateFire(r))
  /\ \A r \in Runs : WF_vars(FinishJob(r) \/ FailJob(r))
-----------------------------------------------------------------------------
(* Properties *)

SettingsRows == [id : 1 .. MaxRowIds, enabled : BOOLEAN, time : CronTimes,
                 retention : Retentions, lastRun : Stamps,
                 status : {"never", "success", "error"}]

TypeOK ==
  /\ production \in BOOLEAN
  /\ settings \in Seq(SettingsRows)
  /\ profile \in Zones \cup {NoProfile}
  /\ task \in [on : BOOLEAN, time : CronTimes, zone : Zones]
  /\ immediate \in BOOLEAN /\ (immediate => task.on)
  /\ jobRunning \in BOOLEAN
  /\ runs \in [Runs -> [active : BOOLEAN, began : Stamps, row : 0 .. MaxRowIds,
                        retention : Retentions]]
  /\ files \subseteq Files
  /\ clock \in Stamps /\ rowIds \in 0 .. MaxRowIds
  /\ diverged \in BOOLEAN

\* "A mutex prevents concurrent backup executions" (scheduler.ts lines 165-166):
\* over cron ticks, readiness delays, failures and reschedules at most one
\* scheduled job runs, and the mutex is held exactly while it does.
OneScheduledJob ==
  /\ Cardinality({r \in ScheduledRuns : runs[r].active}) <= 1
  /\ jobRunning <=> \E r \in ScheduledRuns : runs[r].active

\* The scheduler runs exactly when the settings say so, at their time and zone,
\* unless the last change took a path that does not tell it.
SchedulerFollowsSettings ==
  production /\ ~diverged =>
    /\ task.on <=> HasSettings /\ Existing.enabled
    /\ task.on => task.time = Existing.time /\ task.zone = Zone

\* "Backups will run daily" (settings/backup/page.tsx line 483) is said of every
\* row that has backups enabled: then the scheduler is on.
EnabledMeansScheduled == production /\ HasSettings /\ Existing.enabled => task.on

NothingImported == \A f \in files : ~f.imported

\* Retention never takes one of the newest archives: whatever a job's cleanup
\* removes, as many newer ones as it was told to keep are still there, however jobs
\* overlap, end out of order or leave excess behind, as long as nothing was imported
\* (backup-job.ts lines 47-57).
RetentionKeepsNewest ==
  [][\A r \in Runs : FinishJob(r) /\ NothingImported =>
       \A f \in Written(r) \ files' :
         Cardinality({g \in files' : f.time < g.time}) >= runs[r].retention]_vars

\* The same with imported archives in the directory: "Remove the oldest backup
\* files when the count exceeds retentionCount" (backup-job.ts line 49).
RetentionKeepsNewestOfAll ==
  [][\A r \in Runs : FinishJob(r) =>
       \A f \in Written(r) \ files' :
         Cardinality({g \in files' : f.time < g.time}) >= runs[r].retention]_vars

\* A scheduler that stays on, at one schedule, takes backups for ever: no failed,
\* overlapping or restarted job keeps the mutex from the next tick.
BackupsKeepComing ==
  <>[]task.on /\ <>[][FALSE]_task => []<>(\E r \in ScheduledRuns : runs[r].active)
=============================================================================
