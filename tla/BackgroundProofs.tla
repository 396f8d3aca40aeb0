-------------------------- MODULE BackgroundProofs --------------------------
(***************************************************************************)
(* What the server does by the clock.  The scheduler, its mutex and the    *)
(* retention of backups, for any cron times, zones, retention counts, jobs, *)
(* settings rows and hours; and the cooldown after a failed token refresh, *)
(* for any number of callers, any life of a token and any time a refresh   *)
(* may be awaited within it.                                               *)
(***************************************************************************)
EXTENDS Scheduler, TokenRefresh, SequenceTheorems, FiniteSetTheorems, WellFoundedInduction,
        TLAPS

-----------------------------------------------------------------------------
(* The scheduler: the inductive invariant *)

\* The mutex is held exactly while a scheduled job runs, and then by one.
MutexIsHeld ==
  /\ \A r, s \in ScheduledRuns : runs[r].active /\ runs[s].active => r = s
  /\ jobRunning <=> \E r \in ScheduledRuns : runs[r].active

IInv ==
  /\ TypeOK
  /\ MutexIsHeld
  /\ SchedulerFollowsSettings
  /\ IsFiniteSet(files)

Jobs == [active : BOOLEAN, began : Stamps, row : 0 .. MaxRowIds, retention : Retentions]
Tasks == [on : BOOLEAN, time : CronTimes, zone : Zones]

\* The invariant holds when the process starts on a fresh database.
LEMMA InitHolds == Init => IInv
<1> SUFFICES ASSUME Init PROVE IInv  OBVIOUS
<1> USE DefaultsAssumption, BoundsAssumption DEF Init
<1>1. NoRun \in Jobs /\ ~NoRun.active /\ NoTask \in Tasks /\ ~NoTask.on
  BY DEF NoRun, NoTask, Jobs, Tasks, Stamps
<1>2. TypeOK
  <2>1. settings \in Seq(SettingsRows)  OBVIOUS
  <2>2. runs \in [Runs -> Jobs]  BY <1>1
  <2>3. task \in Tasks /\ immediate = FALSE /\ production \in BOOLEAN
    BY <1>1
  <2>4. clock \in Stamps /\ rowIds \in 0 .. MaxRowIds  BY DEF Stamps
  <2> QED  BY <2>1, <2>2, <2>3, <2>4 DEF TypeOK, Jobs, Tasks
<1>3. MutexIsHeld
  BY <1>1 DEF MutexIsHeld, Runs
<1>4. SchedulerFollowsSettings
  BY <1>1 DEF SchedulerFollowsSettings, HasSettings
<1> QED  BY <1>2, <1>3, <1>4, FS_EmptySet DEF IInv

-----------------------------------------------------------------------------
(* The settings rows *)

\* The rows of the settings, and the one the code reads.
LEMMA SettingsTyped ==
  ASSUME TypeOK
  PROVE  /\ settings \in Seq(SettingsRows)
         /\ Len(settings) \in Nat /\ DOMAIN settings = 1 .. Len(settings)
         /\ \A i \in DOMAIN settings : settings[i] \in SettingsRows
         /\ HasSettings <=> Len(settings) > 0
         /\ HasSettings => 1 \in DOMAIN settings /\ Existing \in SettingsRows
<1>1. settings \in Seq(SettingsRows)  BY DEF TypeOK
<1>2. Len(settings) \in Nat /\ DOMAIN settings = 1 .. Len(settings)
  BY <1>1, LenProperties
<1>3. \A i \in DOMAIN settings : settings[i] \in SettingsRows
  BY <1>1, <1>2, ElementOfSeq
<1>4. HasSettings <=> Len(settings) > 0
  BY <1>1, <1>2, EmptySeq DEF HasSettings
<1> QED  BY <1>1, <1>2, <1>3, <1>4 DEF Existing

\* A new row is one the schema admits.
LEMMA NewRows ==
  ASSUME TypeOK, rowIds < MaxRowIds, NEW enabled \in BOOLEAN, NEW time \in CronTimes,
         NEW retention \in Retentions
  PROVE  /\ NewRow(enabled, time, retention) \in SettingsRows
         /\ NewRow(enabled, time, retention).enabled = enabled
         /\ NewRow(enabled, time, retention).time = time
         /\ rowIds + 1 \in 0 .. MaxRowIds
<1>1. rowIds + 1 \in 1 .. MaxRowIds /\ 0 \in Stamps
  BY BoundsAssumption DEF TypeOK, Stamps
<1> QED  BY <1>1 DEF NewRow, SettingsRows

\* Changing the first row.
LEMMA FirstRowChanged ==
  ASSUME TypeOK, HasSettings, NEW row \in SettingsRows,
         settings' = [settings EXCEPT ![1] = row]
  PROVE  settings' \in Seq(SettingsRows) /\ HasSettings' /\ Existing' = row
<1>1. settings \in Seq(SettingsRows) /\ 1 \in 1 .. Len(settings)
  BY SettingsTyped
<1>2. settings' \in Seq(SettingsRows) /\ Len(settings') = Len(settings) /\ settings'[1] = row
  BY <1>1, ExceptSeq
<1>3. HasSettings'  BY <1>1, <1>2, EmptySeq DEF HasSettings
<1> QED  BY <1>2, <1>3 DEF Existing

\* What a job records leaves the schedule of the first row alone; a row it
\* inserts has backups disabled.
LEMMA RecordingKeepsSchedule ==
  ASSUME TypeOK, NEW run \in Jobs, NEW status \in {"success", "error"},
         run.row = 0 /\ status = "success" => rowIds < MaxRowIds,
         settings' = RecordedRun(run, status)
  PROVE  /\ settings' \in Seq(SettingsRows)
         /\ HasSettings => /\ HasSettings'
                           /\ Existing'.enabled = Existing.enabled
                           /\ Existing'.time = Existing.time
         /\ ~HasSettings /\ HasSettings' => ~Existing'.enabled
<1>1. CASE run.row # 0
  <2> DEFINE n == Len(settings)
             new(i) == IF settings[i].id = run.row
                       THEN [settings[i] EXCEPT !.lastRun = run.began, !.status = status]
                       ELSE settings[i]
  <2>1. n \in Nat /\ DOMAIN settings = 1 .. n
    BY SettingsTyped
  <2>2. settings' = [i \in 1 .. n |-> new(i)]  BY <1>1, <2>1 DEF RecordedRun
  <2>3. ASSUME NEW i \in 1 .. n
        PROVE  /\ new(i) \in SettingsRows
               /\ new(i).enabled = settings[i].enabled /\ new(i).time = settings[i].time
    <3>1. settings[i] \in SettingsRows  BY <2>1, SettingsTyped
    <3> QED  BY <3>1 DEF SettingsRows, Jobs
  <2> HIDE DEF new
  <2>4. settings' \in Seq(SettingsRows)  BY <2>1, <2>2, <2>3, IsASeq
  <2>5. DOMAIN settings' = 1 .. n  BY <2>2
  <2>6. Len(settings') = n  BY <2>1, <2>4, <2>5, LenProperties
  <2>7. HasSettings' <=> HasSettings
    BY <2>4, <2>6, SettingsTyped, EmptySeq DEF HasSettings
  <2>8. HasSettings => Existing'.enabled = Existing.enabled /\ Existing'.time = Existing.time
    BY <2>1, <2>2, <2>3, SettingsTyped DEF Existing
  <2> QED  BY <2>4, <2>7, <2>8
<1>2. CASE run.row = 0 /\ status = "success"
  <2> DEFINE row == [NewRow(FALSE, DefaultTime, DefaultRetention) EXCEPT
                       !.lastRun = run.began, !.status = status]
  <2>1. NewRow(FALSE, DefaultTime, DefaultRetention) \in SettingsRows
        /\ ~NewRow(FALSE, DefaultTime, DefaultRetention).enabled
    BY <1>2, NewRows, DefaultsAssumption
  <2>2. row \in SettingsRows /\ ~row.enabled
    <3> HIDE DEF NewRow
    <3> QED  BY <1>2, <2>1 DEF SettingsRows, Jobs
  <2>3. settings' = Append(settings, row)  BY <1>2 DEF RecordedRun
  <2> HIDE DEF row
  <2>4. settings \in Seq(SettingsRows) /\ Len(settings) \in Nat  BY SettingsTyped
  <2>5. /\ settings' \in Seq(SettingsRows) /\ Len(settings') = Len(settings) + 1
        /\ \A i \in 1 .. Len(settings) : settings'[i] = settings[i]
        /\ settings'[Len(settings) + 1] = row
    BY <2>2, <2>3, <2>4, AppendProperties
  <2>6. HasSettings'  BY <2>4, <2>5, EmptySeq DEF HasSettings
  <2>7. HasSettings => Existing' = Existing
    BY <2>5, SettingsTyped DEF Existing
  <2>8. ~HasSettings => Existing' = row
    <3>1. ~HasSettings => Len(settings) = 0  BY <2>4, SettingsTyped
    <3> QED  BY <2>5, <3>1 DEF Existing
  <2> QED  BY <2>2, <2>5, <2>6, <2>7, <2>8
<1>3. CASE run.row = 0 /\ status = "error"
  BY <1>3, SettingsTyped DEF RecordedRun, HasSettings, Existing
<1> QED  BY <1>1, <1>2, <1>3

-----------------------------------------------------------------------------
(* Starting and stopping *)

\* Starting gives a task with the schedule asked for, in production; stopping
\* gives none.
LEMMA Started ==
  ASSUME TypeOK, NEW time \in CronTimes, NEW zone \in Zones, StartScheduler(time, zone)
  PROVE  /\ task' \in Tasks /\ immediate' \in BOOLEAN /\ (immediate' => task'.on)
         /\ production => task'.on /\ task'.time = time /\ task'.zone = zone
<1>1. CASE production
  <2>1. task' = [on |-> TRUE, time |-> time, zone |-> zone] /\ immediate' \in BOOLEAN
    BY <1>1 DEF StartScheduler
  <2> QED  BY <2>1 DEF Tasks
<1>2. CASE ~production
  <2>1. task' = task /\ immediate' = immediate  BY <1>2 DEF StartScheduler
  <2> QED  BY <1>2, <2>1 DEF TypeOK, Tasks
<1> QED  BY <1>1, <1>2

\* What stopScheduler leaves behind.
LEMMA Stopped ==
  ASSUME StopScheduler
  PROVE  task' \in Tasks /\ immediate' = FALSE /\ ~task'.on
BY DefaultsAssumption DEF StopScheduler, NoTask, Tasks

\* The zone a task starts in, the profile's or the default.
LEMMA ZoneIsOne == ASSUME TypeOK PROVE Zone \in Zones
BY DefaultsAssumption DEF TypeOK, Zone

-----------------------------------------------------------------------------
(* Jobs *)

JobStep ==
  \/ \E r \in ScheduledRuns : CronFire(r) \/ ImmediateFire(r)
  \/ \E r \in ManualRuns : BackupNow(r)
  \/ \E r \in Runs : FinishJob(r) \/ FailJob(r)

\* What beginning a job keeps.
LEMMA JobBegins ==
  ASSUME IInv, NEW r \in Runs, ~runs[r].active, BeginJob(r),
         task' = task, immediate' \in {immediate, FALSE}, jobRunning' \in BOOLEAN
  PROVE  /\ TypeOK' /\ SchedulerFollowsSettings' /\ IsFiniteSet(files)'
         /\ \A s \in Runs : runs'[s].active <=> s = r \/ runs[s].active
<1> DEFINE job == [active |-> TRUE, began |-> NextClock,
                   row |-> IF HasSettings THEN Existing.id ELSE 0,
                   retention |-> IF HasSettings THEN Existing.retention ELSE DefaultRetention]
<1>1. NextClock \in Stamps  BY BoundsAssumption DEF IInv, TypeOK, NextClock, Stamps
<1>2. HasSettings => Existing \in SettingsRows  BY SettingsTyped DEF IInv
<1>3. job \in Jobs /\ job.active
  BY <1>1, <1>2, DefaultsAssumption, BoundsAssumption DEF Jobs, SettingsRows
<1>4. runs' = [runs EXCEPT ![r] = job]  BY DEF BeginJob
<1> HIDE DEF job
<1>5. runs \in [Runs -> Jobs]  BY DEF IInv, TypeOK, Jobs
<1>6. /\ runs' \in [Runs -> Jobs]
      /\ \A s \in Runs : runs'[s] = IF s = r THEN job ELSE runs[s]
  BY <1>3, <1>4, <1>5
<1>7. clock' \in Stamps /\ UNCHANGED <<production, settings, profile, files, rowIds, diverged>>
  BY <1>1 DEF BeginJob
<1>8. TypeOK'
  <2>1. immediate' \in BOOLEAN /\ (immediate' => task'.on) /\ task' \in Tasks
    <3>1. immediate \in BOOLEAN /\ (immediate => task.on) /\ task \in Tasks
      BY DEF IInv, TypeOK, Tasks
    <3>2. CASE immediate' = immediate  BY <3>1, <3>2, Zenon
    <3>3. CASE immediate' = FALSE  BY <3>1, <3>3, Zenon
    <3> QED  BY <3>2, <3>3
  <2> QED  BY <1>6, <1>7, <2>1 DEF IInv, TypeOK, Jobs, Tasks
<1>9. SchedulerFollowsSettings'
  BY <1>7 DEF IInv, SchedulerFollowsSettings, HasSettings, Existing, Zone
<1> QED  BY <1>3, <1>6, <1>7, <1>8, <1>9 DEF IInv

\* A job that ends records its run and gives the mutex back.
LEMMA JobEnds ==
  ASSUME IInv, NEW r \in Runs, NEW status \in {"success", "error"},
         runs[r].row = 0 /\ status = "success" => rowIds < MaxRowIds,
         settings' = RecordedRun(runs[r], status) \/ settings' = settings,
         jobRunning' = Released(r, status),
         runs' = [runs EXCEPT ![r] = NoRun],
         runs[r].active, rowIds' \in 0 .. MaxRowIds,
         files' \subseteq files \cup {Archive(runs[r])},
         UNCHANGED <<production, profile, task, immediate, clock, diverged>>
  PROVE  IInv'
<1>1. runs \in [Runs -> Jobs] /\ runs[r] \in Jobs  BY DEF IInv, TypeOK, Jobs
<1>2. NoRun \in Jobs /\ ~NoRun.active
  BY DefaultsAssumption, BoundsAssumption DEF NoRun, Jobs, Stamps
<1>3. /\ runs' \in [Runs -> Jobs]
      /\ \A s \in Runs : runs'[s].active <=> s # r /\ runs[s].active
  BY <1>1, <1>2
<1>4. /\ settings' \in Seq(SettingsRows)
      /\ HasSettings => /\ HasSettings'
                        /\ Existing'.enabled = Existing.enabled
                        /\ Existing'.time = Existing.time
      /\ ~HasSettings /\ HasSettings' => ~Existing'.enabled
  <2>1. CASE settings' = RecordedRun(runs[r], status)
    BY <1>1, <2>1, RecordingKeepsSchedule DEF IInv
  <2>2. CASE settings' = settings
    BY <2>2 DEF IInv, TypeOK, HasSettings, Existing
  <2> QED  BY <2>1, <2>2
<1>5. Archive(runs[r]) \in Files  BY <1>1 DEF Archive, Files, Jobs
<1>6. jobRunning' \in BOOLEAN  BY DEF Released, IInv, TypeOK
<1>7. TypeOK'  BY <1>3, <1>4, <1>5, <1>6 DEF IInv, TypeOK, Jobs
<1>8. SchedulerFollowsSettings'
  BY <1>4 DEF IInv, SchedulerFollowsSettings, Zone
<1>9. IsFiniteSet(files')
  <2>1. IsFiniteSet(files \cup {Archive(runs[r])})  BY FS_AddElement DEF IInv
  <2> QED  BY <2>1, FS_Subset
<1>10. MutexIsHeld'
  <2>1. CASE r \in ScheduledRuns
    <3>1. \A s \in ScheduledRuns : ~runs'[s].active
      BY <1>3, <2>1 DEF IInv, MutexIsHeld, Runs
    <3> QED  BY <2>1, <3>1 DEF MutexIsHeld, Released
  <2>2. CASE r \notin ScheduledRuns
    <3>1. \A s \in ScheduledRuns : runs'[s].active <=> runs[s].active
      BY <1>3, <2>2 DEF Runs
    <3> QED  BY <2>2, <3>1 DEF IInv, MutexIsHeld, Released
  <2> QED  BY <2>1, <2>2
<1> QED  BY <1>7, <1>8, <1>9, <1>10 DEF IInv

\* The invariant over the steps of a job.
LEMMA JobStepKeeps == ASSUME IInv, JobStep PROVE IInv'
<1>1. ASSUME NEW r \in ScheduledRuns, CronFire(r) PROVE IInv'
  <2>1. r \in Runs /\ ~jobRunning /\ ~runs[r].active /\ BeginJob(r) /\ jobRunning' = TRUE
        /\ task' = task /\ immediate' = immediate
    BY <1>1 DEF CronFire, MayStartJob, KeepScheduler, Runs
  <2>2. /\ TypeOK' /\ SchedulerFollowsSettings' /\ IsFiniteSet(files)'
        /\ \A s \in Runs : runs'[s].active <=> s = r \/ runs[s].active
    BY <2>1, JobBegins
  <2> QED  BY <1>1, <2>1, <2>2 DEF IInv, MutexIsHeld, Runs
<1>2. ASSUME NEW r \in ScheduledRuns, ImmediateFire(r) PROVE IInv'
  <2>1. CASE MayStartJob
    <3>1. r \in Runs /\ ~jobRunning /\ ~runs[r].active /\ BeginJob(r) /\ jobRunning' = TRUE
          /\ task' = task /\ immediate' = FALSE
      BY <1>2, <2>1 DEF ImmediateFire, MayStartJob, Runs
    <3>2. /\ TypeOK' /\ SchedulerFollowsSettings' /\ IsFiniteSet(files)'
          /\ \A s \in Runs : runs'[s].active <=> s = r \/ runs[s].active
      BY <3>1, JobBegins
    <3> QED  BY <1>2, <3>1, <3>2 DEF IInv, MutexIsHeld, Runs
  <2>2. CASE ~MayStartJob
    BY <1>2, <2>2 DEF ImmediateFire, IInv, TypeOK, MutexIsHeld, SchedulerFollowsSettings,
       HasSettings, Existing, Zone
  <2> QED  BY <2>1, <2>2
<1>3. ASSUME NEW r \in ManualRuns, BackupNow(r) PROVE IInv'
  <2>1. r \in Runs /\ ~runs[r].active /\ BeginJob(r) /\ UNCHANGED <<jobRunning, task, immediate>>
    BY <1>3 DEF BackupNow, KeepScheduler, Runs
  <2>2. /\ TypeOK' /\ SchedulerFollowsSettings' /\ IsFiniteSet(files)'
        /\ \A s \in Runs : runs'[s].active <=> s = r \/ runs[s].active
    BY <2>1, JobBegins DEF IInv, TypeOK
  <2>3. \A s \in ScheduledRuns : runs'[s].active <=> runs[s].active
    BY <1>3, <2>2, RunsAssumption DEF Runs
  <2> QED  BY <2>1, <2>2, <2>3 DEF IInv, MutexIsHeld
<1>4. ASSUME NEW r \in Runs, FinishJob(r) PROVE IInv'
  <2>1. rowIds' \in 0 .. MaxRowIds
    BY <1>4, BoundsAssumption DEF FinishJob, IInv, TypeOK
  <2>2. files' \subseteq files \cup {Archive(runs[r])}  BY <1>4 DEF FinishJob, Written
  <2> QED  BY <1>4, <2>1, <2>2, JobEnds DEF FinishJob
<1>5. ASSUME NEW r \in Runs, FailJob(r) PROVE IInv'
  <2>1. rowIds' \in 0 .. MaxRowIds  BY <1>5 DEF FailJob, IInv, TypeOK
  <2>2. files' \subseteq files \cup {Archive(runs[r])}  BY <1>5 DEF FailJob, Written
  <2>3. settings' = RecordedRun(runs[r], "error") \/ settings' = settings
    BY <1>5 DEF FailJob
  <2> QED  BY <1>5, <2>1, <2>2, <2>3, JobEnds DEF FailJob
<1> QED  BY <1>1, <1>2, <1>3, <1>4, <1>5 DEF JobStep

-----------------------------------------------------------------------------
(* Requests *)

\* What a request keeps of the jobs.
LEMMA JobsKept ==
  ASSUME MutexIsHeld, UNCHANGED <<jobRunning, runs>>
  PROVE  MutexIsHeld'
BY DEF MutexIsHeld

\* The changes a request can make: of the settings, the profile and the task.
LEMMA RequestTyped ==
  ASSUME IInv, settings' \in Seq(SettingsRows), profile' \in Zones \cup {NoProfile},
         task' \in Tasks, immediate' \in BOOLEAN, immediate' => task'.on,
         rowIds' \in 0 .. MaxRowIds, diverged' \in BOOLEAN,
         UNCHANGED <<production, jobRunning, runs, files, clock>>
  PROVE  TypeOK' /\ MutexIsHeld' /\ IsFiniteSet(files)'
<1>1. TypeOK'  BY DEF IInv, TypeOK, Tasks
<1> QED  BY <1>1, JobsKept DEF IInv

\* The scheduler is left alone.
LEMMA TaskKept ==
  ASSUME TypeOK, KeepScheduler
  PROVE  task' \in Tasks /\ immediate' \in BOOLEAN /\ (immediate' => task'.on)
BY DEF TypeOK, KeepScheduler, Tasks

\* The invariant over the first row of the settings.
LEMMA CreateKeeps ==
  ASSUME IInv, NEW enabled \in BOOLEAN, NEW time \in CronTimes, NEW retention \in Retentions,
         CreateSettings(enabled, time, retention)
  PROVE  IInv'
<1> DEFINE row == NewRow(enabled, time, retention)
<1>1. row \in SettingsRows /\ row.enabled = enabled /\ rowIds + 1 \in 0 .. MaxRowIds
  BY NewRows DEF IInv, CreateSettings
<1>2. /\ settings' = <<row>> /\ rowIds' = rowIds + 1 /\ ~HasSettings /\ KeepScheduler
      /\ diverged' = (diverged \/ enabled)
      /\ UNCHANGED <<production, profile, jobRunning, runs, files, clock>>
  BY DEF CreateSettings
<1> HIDE DEF row
<1>3. settings' \in Seq(SettingsRows) /\ Existing' = row  BY <1>1, <1>2 DEF Existing
<1>4. /\ profile' \in Zones \cup {NoProfile} /\ diverged' \in BOOLEAN
  BY <1>2 DEF IInv, TypeOK
<1>5. task' \in Tasks /\ immediate' \in BOOLEAN /\ (immediate' => task'.on)
  BY <1>2, TaskKept DEF IInv
<1>6. TypeOK' /\ MutexIsHeld' /\ IsFiniteSet(files)'
  BY <1>1, <1>2, <1>3, <1>4, <1>5, RequestTyped
<1>7. SchedulerFollowsSettings'
  BY <1>1, <1>2, <1>3 DEF IInv, SchedulerFollowsSettings, KeepScheduler
<1> QED  BY <1>6, <1>7 DEF IInv

\* The invariant over the switch of the settings page.
LEMMA ToggleKeeps ==
  ASSUME IInv, NEW enabled \in BOOLEAN, NEW time \in CronTimes, NEW retention \in Retentions,
         ToggleBackups(enabled, time, retention)
  PROVE  IInv'
<1> DEFINE row == [Existing EXCEPT !.enabled = enabled, !.time = time, !.retention = retention]
<1>1. HasSettings /\ Existing \in SettingsRows /\ 1 \in DOMAIN settings
  BY SettingsTyped DEF IInv, ToggleBackups
<1>2. row \in SettingsRows /\ row.enabled = enabled /\ row.time = time
  BY <1>1 DEF SettingsRows
<1>3. settings' = [settings EXCEPT ![1] = row]
  BY <1>1 DEF ToggleBackups, Existing
<1> HIDE DEF row
<1>4. settings' \in Seq(SettingsRows) /\ HasSettings' /\ Existing' = row
  BY <1>1, <1>2, <1>3, FirstRowChanged DEF IInv
<1>5. /\ UNCHANGED <<production, profile, jobRunning, runs, files, clock, rowIds>>
      /\ diverged' = IF enabled = Existing.enabled
                     THEN diverged \/ (enabled /\ time # Existing.time) ELSE FALSE
  BY DEF ToggleBackups
<1>6. Zone' = Zone /\ Zone \in Zones  BY <1>5, ZoneIsOne DEF IInv, Zone
<1>7. diverged' \in BOOLEAN /\ profile' \in Zones \cup {NoProfile} /\ rowIds' \in 0 .. MaxRowIds
  BY <1>5 DEF IInv, TypeOK
<1>8. CASE enabled /\ ~Existing.enabled
  <2>1. StartScheduler(time, Zone)  BY <1>8 DEF ToggleBackups
  <2>2. /\ task' \in Tasks /\ immediate' \in BOOLEAN /\ (immediate' => task'.on)
        /\ production => task'.on /\ task'.time = time /\ task'.zone = Zone
    BY <1>6, <2>1, Started DEF IInv
  <2>3. SchedulerFollowsSettings'
    BY <1>2, <1>4, <1>5, <1>6, <1>8, <2>2 DEF SchedulerFollowsSettings
  <2> QED  BY <1>4, <1>5, <1>7, <2>2, <2>3, RequestTyped DEF IInv
<1>9. CASE ~enabled /\ Existing.enabled
  <2>1. task' \in Tasks /\ immediate' = FALSE /\ ~task'.on
    BY <1>9, Stopped DEF ToggleBackups
  <2>2. SchedulerFollowsSettings'
    BY <1>2, <1>4, <1>9, <2>1 DEF SchedulerFollowsSettings
  <2> QED  BY <1>4, <1>5, <1>7, <2>1, <2>2, RequestTyped DEF IInv
<1>10. CASE enabled = Existing.enabled
  <2>1. KeepScheduler  BY <1>10 DEF ToggleBackups
  <2>2. task' \in Tasks /\ immediate' \in BOOLEAN /\ (immediate' => task'.on)
    BY <2>1, TaskKept DEF IInv
  <2>3. SchedulerFollowsSettings'
    BY <1>1, <1>2, <1>4, <1>5, <1>6, <1>10, <2>1
       DEF IInv, SchedulerFollowsSettings, KeepScheduler
  <2> QED  BY <1>4, <1>5, <1>7, <2>2, <2>3, RequestTyped DEF IInv
<1>11. Existing.enabled \in BOOLEAN  BY <1>1 DEF SettingsRows
<1> QED  BY <1>8, <1>9, <1>10, <1>11

\* The invariant over a change of the time.
LEMMA CronTimeKeeps == ASSUME IInv, NEW time \in CronTimes, ChangeCronTime(time) PROVE IInv'
<1> DEFINE row == [Existing EXCEPT !.time = time]
<1>1. HasSettings /\ Existing \in SettingsRows /\ 1 \in DOMAIN settings
  BY SettingsTyped DEF IInv, ChangeCronTime
<1>2. row \in SettingsRows /\ row.enabled = Existing.enabled /\ row.time = time
  BY <1>1 DEF SettingsRows
<1>3. settings' = [settings EXCEPT ![1] = row]
  BY <1>1 DEF ChangeCronTime, Existing
<1> HIDE DEF row
<1>4. settings' \in Seq(SettingsRows) /\ HasSettings' /\ Existing' = row
  BY <1>1, <1>2, <1>3, FirstRowChanged DEF IInv
<1>5. /\ UNCHANGED <<production, profile, jobRunning, runs, files, clock, rowIds>>
      /\ diverged' = (diverged /\ ~Existing.enabled)
  BY DEF ChangeCronTime
<1>6. Zone' = Zone /\ Zone \in Zones  BY <1>5, ZoneIsOne DEF IInv, Zone
<1>7. diverged' \in BOOLEAN /\ profile' \in Zones \cup {NoProfile} /\ rowIds' \in 0 .. MaxRowIds
  BY <1>5 DEF IInv, TypeOK
<1>8. CASE Existing.enabled
  <2>1. StartScheduler(time, Zone)  BY <1>8 DEF ChangeCronTime
  <2>2. /\ task' \in Tasks /\ immediate' \in BOOLEAN /\ (immediate' => task'.on)
        /\ production => task'.on /\ task'.time = time /\ task'.zone = Zone
    BY <1>6, <2>1, Started DEF IInv
  <2>3. SchedulerFollowsSettings'
    BY <1>2, <1>4, <1>5, <1>6, <1>8, <2>2 DEF SchedulerFollowsSettings
  <2> QED  BY <1>4, <1>5, <1>7, <2>2, <2>3, RequestTyped DEF IInv
<1>9. CASE ~Existing.enabled
  <2>1. KeepScheduler  BY <1>9 DEF ChangeCronTime
  <2>2. task' \in Tasks /\ immediate' \in BOOLEAN /\ (immediate' => task'.on)
    BY <2>1, TaskKept DEF IInv
  <2>3. SchedulerFollowsSettings'
    BY <1>1, <1>2, <1>4, <1>5, <1>9, <2>1 DEF IInv, SchedulerFollowsSettings, KeepScheduler
  <2> QED  BY <1>4, <1>5, <1>7, <2>2, <2>3, RequestTyped DEF IInv
<1> QED  BY <1>8, <1>9

\* The invariant over a change of the zone in the profile.
LEMMA ZoneKeeps == ASSUME IInv, NEW zone \in Zones, ChangeZone(zone) PROVE IInv'
<1> DEFINE told == profile # NoProfile /\ HasSettings /\ zone # profile
<1>1. /\ profile' = zone
      /\ IF told /\ Existing.enabled /\ task.on THEN StartScheduler(Existing.time, zone)
         ELSE KeepScheduler
      /\ diverged' = (diverged \/ (profile = NoProfile /\ zone # DefaultZone))
      /\ UNCHANGED <<production, settings, jobRunning, runs, files, clock, rowIds>>
  BY DEF ChangeZone
<1>2. HasSettings' = HasSettings /\ Existing' = Existing
  BY <1>1 DEF HasSettings, Existing
<1>3. Zone' = zone  BY <1>1, ProfileAssumption DEF Zone
<1>4. /\ settings' \in Seq(SettingsRows) /\ profile' \in Zones \cup {NoProfile}
      /\ diverged' \in BOOLEAN /\ rowIds' \in 0 .. MaxRowIds
  BY <1>1 DEF IInv, TypeOK
<1>5. CASE told /\ Existing.enabled /\ task.on
  <2>1. StartScheduler(Existing.time, zone)  BY <1>1, <1>5
  <2>2. HasSettings /\ Existing.time \in CronTimes
    BY <1>5, SettingsTyped DEF IInv, SettingsRows
  <2>3. /\ task' \in Tasks /\ immediate' \in BOOLEAN /\ (immediate' => task'.on)
        /\ production => task'.on /\ task'.time = Existing.time /\ task'.zone = zone
    BY <2>1, <2>2, Started DEF IInv
  <2>4. SchedulerFollowsSettings'
    BY <1>1, <1>2, <1>3, <1>5, <2>2, <2>3 DEF SchedulerFollowsSettings
  <2> QED  BY <1>1, <1>4, <2>3, <2>4, RequestTyped DEF IInv
<1>6. CASE ~(told /\ Existing.enabled /\ task.on)
  <2>1. KeepScheduler  BY <1>1, <1>6
  <2>2. task' \in Tasks /\ immediate' \in BOOLEAN /\ (immediate' => task'.on)
    BY <2>1, TaskKept DEF IInv
  <2>3. ASSUME production', ~diverged'
        PROVE  /\ task'.on <=> HasSettings' /\ Existing'.enabled
               /\ task'.on => task'.time = Existing'.time /\ task'.zone = Zone'
    <3>1. production /\ ~diverged /\ (profile = NoProfile => zone = DefaultZone)
      BY <1>1, <2>3
    <3>2. /\ task.on <=> HasSettings /\ Existing.enabled
          /\ task.on => task.time = Existing.time /\ task.zone = Zone
      BY <3>1 DEF IInv, SchedulerFollowsSettings
    <3>3. task.on => zone = Zone  BY <1>6, <3>1, <3>2 DEF Zone
    <3> QED  BY <1>2, <1>3, <2>1, <3>2, <3>3 DEF KeepScheduler
  <2>4. SchedulerFollowsSettings'  BY <2>3 DEF SchedulerFollowsSettings
  <2> QED  BY <1>1, <1>4, <2>2, <2>4, RequestTyped DEF IInv
<1> QED  BY <1>5, <1>6

\* The invariant over archives that are imported or deleted.
LEMMA FilesKeep ==
  ASSUME IInv, ImportFile \/ \E f \in files : DeleteFile(f)
  PROVE  IInv'
<1>1. UNCHANGED <<production, settings, profile, task, immediate, jobRunning, runs, rowIds, diverged>>
  BY DEF ImportFile, DeleteFile
<1>2. files' \subseteq Files /\ clock' \in Stamps /\ IsFiniteSet(files')
  <2>1. CASE ImportFile
    <3>1. NextClock \in Stamps  BY BoundsAssumption DEF IInv, TypeOK, NextClock, Stamps
    <3>2. [time |-> NextClock, imported |-> TRUE] \in Files  BY <3>1 DEF Files
    <3> DEFINE file == [time |-> NextClock, imported |-> TRUE]
    <3>3. files' = files \cup {file} /\ clock' = NextClock  BY <2>1 DEF ImportFile
    <3>4. files \subseteq Files /\ IsFiniteSet(files)  BY DEF IInv, TypeOK
    <3> HIDE DEF file
    <3>5. IsFiniteSet(files')  BY <3>3, <3>4, FS_AddElement
    <3> QED  BY <3>1, <3>2, <3>3, <3>4, <3>5 DEF file
  <2>2. ASSUME NEW f \in files, DeleteFile(f)
        PROVE  files' \subseteq Files /\ clock' \in Stamps /\ IsFiniteSet(files')
    BY <2>2, FS_RemoveElement DEF DeleteFile, IInv, TypeOK
  <2> QED  BY <2>1, <2>2
<1>3. TypeOK'  BY <1>1, <1>2 DEF IInv, TypeOK
<1>4. MutexIsHeld' /\ SchedulerFollowsSettings'
  BY <1>1 DEF IInv, MutexIsHeld, SchedulerFollowsSettings, HasSettings, Existing, Zone
<1> QED  BY <1>2, <1>3, <1>4 DEF IInv

\* A table of one row.
LEMMA OneRow == ASSUME NEW S, NEW x \in S PROVE <<x>> \in Seq(S)
OBVIOUS

\* A row id is left while the table has not reached its bound.
LEMMA NextRowId == ASSUME TypeOK, rowIds < MaxRowIds PROVE rowIds + 1 \in 0 .. MaxRowIds
BY BoundsAssumption DEF TypeOK

\* The invariant over settings that a restore or a reset replaces.
LEMMA ReplaceKeeps ==
  ASSUME IInv, NEW zone \in Zones \cup {NoProfile},
         \/ ReplaceSettings(<<>>, zone)
         \/ \E enabled \in BOOLEAN, time \in CronTimes, status \in {"never", "success"} :
              ReplaceSettings(<<[NewRow(enabled, time, DefaultRetention) EXCEPT
                                   !.lastRun = clock, !.status = status]>>, zone)
  PROVE  IInv'
<1>1. PICK given \in Seq(SettingsRows) : ReplaceSettings(given, zone)
  <2>1. CASE ReplaceSettings(<<>>, zone)
    <3>1. <<>> \in Seq(SettingsRows)  BY EmptySeq
    <3> QED  BY <2>1, <3>1
  <2>2. ASSUME NEW enabled \in BOOLEAN, NEW time \in CronTimes, NEW status \in {"never", "success"},
               ReplaceSettings(<<[NewRow(enabled, time, DefaultRetention) EXCEPT
                                    !.lastRun = clock, !.status = status]>>, zone)
        PROVE  \E given \in Seq(SettingsRows) : ReplaceSettings(given, zone)
    <3> DEFINE row == [NewRow(enabled, time, DefaultRetention) EXCEPT
                         !.lastRun = clock, !.status = status]
    <3>1. NewRow(enabled, time, DefaultRetention) \in SettingsRows /\ clock \in Stamps
      BY <2>2, NewRows, DefaultsAssumption DEF ReplaceSettings, IInv, TypeOK
    <3>2. row \in SettingsRows
      <4> HIDE DEF NewRow
      <4> QED  BY <3>1 DEF SettingsRows
    <3> HIDE DEF row
    <3>3. <<row>> \in Seq(SettingsRows)  BY <3>2, OneRow
    <3> QED  BY <2>2, <3>3 DEF row
  <2> QED  BY <2>1, <2>2
<1>2. /\ settings' = given /\ rowIds' = rowIds + 1 /\ rowIds < MaxRowIds /\ diverged' = TRUE
      /\ profile' = zone
      /\ UNCHANGED <<production, task, immediate, jobRunning, runs, files, clock>>
  BY <1>1 DEF ReplaceSettings
<1>3. /\ profile' \in Zones \cup {NoProfile} /\ rowIds' \in 0 .. MaxRowIds
      /\ task' \in Tasks /\ immediate' \in BOOLEAN /\ (immediate' => task'.on)
  <2>1. profile' \in Zones \cup {NoProfile}  BY <1>2
  <2>2. rowIds' \in 0 .. MaxRowIds
    <3>1. TypeOK  BY DEF IInv
    <3> QED  BY <1>2, <3>1, NextRowId, Zenon
  <2>3. task \in Tasks /\ immediate \in BOOLEAN /\ (immediate => task.on)
    BY DEF IInv, TypeOK, Tasks
  <2> QED  BY <1>2, <2>1, <2>2, <2>3, Zenon
<1>4. SchedulerFollowsSettings'  BY <1>2 DEF SchedulerFollowsSettings
<1> QED  BY <1>1, <1>2, <1>3, <1>4, RequestTyped DEF IInv

\* The invariant over a restart of the process.
LEMMA RestartKeeps == ASSUME IInv, Restart PROVE IInv'
<1>1. NoRun \in Jobs /\ ~NoRun.active
  BY DefaultsAssumption, BoundsAssumption DEF NoRun, Jobs, Stamps
<1>2. /\ runs' = [r \in Runs |-> NoRun] /\ jobRunning' = FALSE /\ diverged' = FALSE
      /\ UNCHANGED <<production, settings, profile, files, clock, rowIds>>
  BY DEF Restart
<1>3. HasSettings' = HasSettings /\ Existing' = Existing /\ Zone' = Zone /\ Zone \in Zones
  BY <1>2, ZoneIsOne DEF HasSettings, Existing, Zone, IInv
<1>4. HasSettings => Existing.time \in CronTimes  BY SettingsTyped DEF IInv, SettingsRows
<1>5. /\ task' \in Tasks /\ immediate' \in BOOLEAN /\ (immediate' => task'.on)
      /\ SchedulerFollowsSettings'
  <2>1. CASE HasSettings /\ Existing.enabled /\ production
    <3>1. StartScheduler(Existing.time, Zone)  BY <2>1 DEF Restart
    <3>2. /\ task' \in Tasks /\ immediate' \in BOOLEAN /\ (immediate' => task'.on)
          /\ production => task'.on /\ task'.time = Existing.time /\ task'.zone = Zone
      BY <1>3, <1>4, <2>1, <3>1, Started DEF IInv
    <3> QED  BY <1>2, <1>3, <2>1, <3>2 DEF SchedulerFollowsSettings
  <2>2. CASE ~(HasSettings /\ Existing.enabled /\ production)
    <3>1. task' \in Tasks /\ immediate' = FALSE /\ ~task'.on
      BY <2>2, Stopped DEF Restart
    <3> QED  BY <1>2, <1>3, <2>2, <3>1 DEF SchedulerFollowsSettings
  <2> QED  BY <2>1, <2>2
<1>6. runs' \in [Runs -> Jobs]  BY <1>1, <1>2
<1>7. TypeOK'  BY <1>2, <1>5, <1>6 DEF IInv, TypeOK, Jobs, Tasks
<1>8. MutexIsHeld'  BY <1>1, <1>2 DEF MutexIsHeld, Runs
<1> QED  BY <1>2, <1>5, <1>7, <1>8 DEF IInv

-----------------------------------------------------------------------------
(* The scheduler: the theorems *)

\* The inductive invariant of the scheduler: types, the mutex, the schedule.
THEOREM IInvHolds == Spec => []IInv
<1>1. ASSUME IInv, Next PROVE IInv'
  BY <1>1, JobStepKeeps, CreateKeeps, ToggleKeeps, CronTimeKeeps, ZoneKeeps, FilesKeep,
     ReplaceKeeps, RestartKeeps
     DEF Next, JobStep
<1>2. ASSUME IInv, UNCHANGED vars PROVE IInv'
  BY <1>2 DEF vars, IInv, TypeOK, MutexIsHeld, SchedulerFollowsSettings, HasSettings, Existing, Zone
<1> QED  BY <1>1, <1>2, InitHolds, PTL DEF Spec

\* Every row, file and job is of its kind, and a readiness delay has a task.
THEOREM TypeCorrectness == Spec => []TypeOK
<1>1. IInv => TypeOK  BY DEF IInv
<1> QED  BY <1>1, IInvHolds, PTL

\* At most one scheduled job runs, and the mutex is held exactly while it does.
THEOREM OneJob == Spec => []OneScheduledJob
<1>1. ASSUME MutexIsHeld PROVE OneScheduledJob
  <2> DEFINE active == {r \in ScheduledRuns : runs[r].active}
  <2>1. CASE active = {}  BY <1>1, <2>1, FS_EmptySet DEF MutexIsHeld, OneScheduledJob
  <2>2. CASE active # {}
    <3>1. PICK r \in active : active = {r}  BY <1>1, <2>2 DEF MutexIsHeld
    <3>2. Cardinality(active) = 1  BY <3>1, FS_Singleton
    <3> QED  BY <1>1, <3>2 DEF MutexIsHeld, OneScheduledJob
  <2> QED  BY <2>1, <2>2
<1>2. IInv => OneScheduledJob  BY <1>1 DEF IInv
<1> QED  BY <1>2, IInvHolds, PTL

\* The task is the one the settings ask for, unless the last change of the
\* settings took a path that does not tell the scheduler.
THEOREM TaskFollowsSettings == Spec => []SchedulerFollowsSettings
<1>1. IInv => SchedulerFollowsSettings  BY DEF IInv
<1> QED  BY <1>1, IInvHolds, PTL

\* Of some archives one is the newest: the one with the smallest set of newer ones.
LEMMA NewestArchive ==
  ASSUME NEW S, IsFiniteSet(S), S # {}, \A f \in S : f.time \in Nat
  PROVE  \E f \in S : \A g \in S : g.time <= f.time
<1> DEFINE newer(f) == {g \in S : f.time < g.time}
           T == {newer(f) : f \in S}
<1>1. T \subseteq FiniteSubsetsOf(S) /\ T # {}
  <2>1. T \subseteq SUBSET S /\ T # {}  OBVIOUS
  <2> HIDE DEF T
  <2> QED  BY <2>1, FS_FiniteSubsetsOfFinite
<1>2. PICK m \in T : \A n \in T : <<n, m>> \notin StrictSubsetOrdering(S)
  <2> HIDE DEF T
  <2> QED  BY <1>1, FS_StrictSubsetOrderingWellFounded, WFMin
<1>3. PICK f \in S : m = newer(f)  BY <1>2
<1>4. ASSUME NEW g \in S, ~(g.time <= f.time) PROVE FALSE
  <2>1. newer(g) \in T /\ newer(g) \in SUBSET S /\ m \in SUBSET S  BY <1>3
  <2>2. newer(g) \subseteq m /\ g \in m /\ g \notin newer(g)  BY <1>3, <1>4
  <2>3. <<newer(g), m>> \in StrictSubsetOrdering(S)
    <3> HIDE DEF newer
    <3> QED  BY <2>1, <2>2 DEF StrictSubsetOrdering
  <2> QED  BY <1>2, <2>1, <2>3
<1> QED  BY <1>4

\* What a cleanup removes has as many newer archives as it keeps, in what it keeps:
\* were there fewer, the newest of the excess would not have been excess.
THEOREM RetentionIsByAge == Spec => RetentionKeepsNewest
<1>1. ASSUME IInv, NEW r \in Runs, FinishJob(r), NothingImported, NEW f \in Written(r) \ files'
      PROVE  Cardinality({g \in files' : f.time < g.time}) >= runs[r].retention
  <2> DEFINE written == Written(r)
             after(h) == {g \in written : NameBefore(h, g)}
             retention == runs[r].retention
             excess == ExcessFiles(written, retention)
             kept == written \ excess
             newer == {g \in files' : f.time < g.time}
  <2>1. runs[r] \in Jobs  BY <1>1 DEF IInv, TypeOK, Jobs
  <2>2. \A h \in written : h.imported = FALSE /\ h.time \in Nat
    BY <1>1, <2>1, BoundsAssumption
       DEF IInv, TypeOK, Files, Stamps, NothingImported, Archive, Jobs, Written
  <2>3. retention \in Nat  BY <2>1, RetentionAssumption DEF Jobs
  <2>4. IsFiniteSet(written)  BY <1>1, FS_AddElement DEF IInv, Written
  <2>5. files' \subseteq written /\ kept \subseteq files' /\ f \in excess
    BY <1>1 DEF FinishJob
  <2>6. \A h \in written : h \in excess <=> Cardinality(after(h)) >= retention
    BY DEF ExcessFiles
  <2>7. \A h, g \in written : NameBefore(h, g) <=> h.time < g.time
    BY <2>2 DEF NameBefore
  <2>8. \A h \in written : IsFiniteSet(after(h)) /\ Cardinality(after(h)) \in Nat
    <3>1. \A h \in written : after(h) \in SUBSET written  OBVIOUS
    <3> HIDE DEF after
    <3> QED  BY <2>4, <3>1, FS_Subset, FS_CardinalityType
  <2>9. /\ IsFiniteSet(excess) /\ IsFiniteSet(kept) /\ IsFiniteSet(newer)
        /\ excess \in SUBSET written /\ newer \in SUBSET written
    <3>1. excess \in SUBSET written /\ kept \in SUBSET written /\ newer \in SUBSET written
      BY <2>5 DEF ExcessFiles
    <3> HIDE DEF excess, kept, newer
    <3> QED  BY <2>4, <3>1, FS_Subset
  <2>10. Cardinality(kept) \in Nat /\ Cardinality(newer) \in Nat
    BY <2>9, FS_CardinalityType
  <2> HIDE DEF written, retention, excess
  <2>11. PICK m \in excess : \A g \in excess : g.time <= m.time
    <3>1. excess # {} /\ \A h \in excess : h.time \in Nat  BY <2>2, <2>5, <2>9
    <3> QED  BY <2>9, <3>1, NewestArchive
  <2>12. Cardinality(after(m)) <= Cardinality(kept)
    <3>1. after(m) \subseteq kept  BY <2>2, <2>7, <2>9, <2>11
    <3> HIDE DEF after, kept
    <3> QED  BY <2>9, <3>1, FS_Subset
  <2>13. kept \subseteq newer
    <3> SUFFICES ASSUME NEW g \in kept, ~(f.time < g.time) PROVE FALSE
      BY <2>5
    <3>1. f \in written /\ g \in written /\ g \notin excess  BY <2>5, <2>9
    <3>2. after(f) \subseteq after(g)  BY <2>2, <2>7, <3>1
    <3>3. Cardinality(after(f)) <= Cardinality(after(g))
      <4>1. IsFiniteSet(after(g))  BY <2>8, <3>1
      <4> HIDE DEF after
      <4> QED  BY <3>2, <4>1, FS_Subset
    <3>4. Cardinality(after(f)) >= retention /\ ~(Cardinality(after(g)) >= retention)
      BY <2>5, <2>6, <3>1
    <3> HIDE DEF after
    <3> QED  BY <2>3, <2>8, <3>1, <3>3, <3>4
  <2>14. Cardinality(kept) <= Cardinality(newer)
    <3> HIDE DEF kept, newer
    <3> QED  BY <2>9, <2>13, FS_Subset
  <2>15. m \in written /\ Cardinality(after(m)) >= retention  BY <2>6, <2>9, <2>11
  <2>16. Cardinality(after(m)) \in Nat  BY <2>8, <2>15
  <2>17. Cardinality(newer) >= retention
    <3> HIDE DEF after, kept, newer
    <3> QED  BY <2>3, <2>10, <2>12, <2>14, <2>15, <2>16
  <2> QED  BY <2>17 DEF retention
<1>2. IInv => \A r \in Runs : FinishJob(r) /\ NothingImported =>
        \A f \in Written(r) \ files' :
          Cardinality({g \in files' : f.time < g.time}) >= runs[r].retention
  BY <1>1
<1> QED  BY <1>2, IInvHolds, PTL DEF RetentionKeepsNewest

-----------------------------------------------------------------------------
(* The tokens: times and cooldowns *)

\* Of two numbers, the one that is not greater.
LEMMA LeastOfTwo ==
  ASSUME NEW x \in Int, NEW y \in Int
  PROVE  Least(x, y) = IF x <= y THEN x ELSE y
<1> DEFINE m == IF x <= y THEN x ELSE y
<1>1. m \in {x, y} /\ \A z \in {x, y} : m <= z  OBVIOUS
<1>2. \A n \in {x, y} : (\A z \in {x, y} : n <= z) => n = m  OBVIOUS
<1> HIDE DEF m
<1>3. (CHOOSE n \in {x, y} : \A z \in {x, y} : n <= z) = m  BY <1>1, <1>2
<1> QED  BY <1>3 DEF Least, Min, m

\* A number less one, but no less than zero.
LEMMA OneLess ==
  ASSUME NEW x \in Nat
  PROVE  Max({x - 1, 0}) = IF x = 0 THEN 0 ELSE x - 1
<1> DEFINE m == IF x = 0 THEN 0 ELSE x - 1
<1>1. m \in {x - 1, 0} /\ \A z \in {x - 1, 0} : m >= z  OBVIOUS
<1>2. \A n \in {x - 1, 0} : (\A z \in {x - 1, 0} : n >= z) => n = m  OBVIOUS
<1> HIDE DEF m
<1>3. (CHOOSE n \in {x - 1, 0} : \A z \in {x - 1, 0} : n >= z) = m  BY <1>1, <1>2
<1> QED  BY <1>3 DEF Max, m

\* The cooldown after one, two and three failures, in units of time.
LEMMA Cooldowns ==
  /\ Cooldown(1) = 2 /\ Cooldown(2) = 4 /\ Cooldown(3) = 6
BY LeastOfTwo DEF Cooldown, CooldownMax

-----------------------------------------------------------------------------
(* The tokens: the inductive invariant *)

\* A saved token replaces the others.
OneActiveRow == \A r1, r2 \in rows : r1 = r2

\* The age of the state is the time since the last failure.
AgeIsQuiet == refresh # None => refresh.age = quiet /\ refresh.failures \in 1 .. 3

\* A caller that waits found the token stale; a fresh one was saved meanwhile.
WaitersFoundItStale ==
  \A c \in Waiting, row \in rows : row.ttl <= Threshold \/ row.ttl >= Life - calls[c]

\* Just after a failure the token is stale still, or was saved during the wait.
FailuresLeaveStaleOrNew ==
  quiet < 2 => \A row \in rows : row.ttl <= Threshold \/ row.ttl >= Life - MaxWait - quiet

\* The failures are only forgotten together with the need for an attempt.
ForgottenWhenFresh ==
  refresh = None /\ quiet < 2 => \A row \in rows : row.ttl >= Life - MaxWait - quiet

TokenInv ==
  /\ TokenTypeOK
  /\ OneActiveRow
  /\ AgeIsQuiet
  /\ WaitersFoundItStale
  /\ FailuresLeaveStaleOrNew
  /\ ForgottenWhenFresh

\* The invariant holds before the first call.
LEMMA TokenInitHolds == TokenInit => TokenInv
BY LifeAssumption, WaitAssumption, CrashesAssumption
   DEF TokenInit, TokenInv, TokenTypeOK, OneActiveRow, AgeIsQuiet, WaitersFoundItStale, FailuresLeaveStaleOrNew,
       ForgottenWhenFresh, None, CooldownMax, Idle, Waiting

-----------------------------------------------------------------------------
(* Types *)

\* Every step keeps the types.
LEMMA TokenTypeStep == ASSUME TokenTypeOK, [TokenNext]_tokenVars PROVE TokenTypeOK'
<1> USE LifeAssumption, WaitAssumption, CrashesAssumption DEF TokenTypeOK, CooldownMax, Threshold, Idle
<1>0. None \in [age : {CooldownMax}, failures : {-1}]  BY DEF None
<1>1. ASSUME NEW c \in Callers, FindFresh(c) PROVE TokenTypeOK'
  BY <1>1 DEF FindFresh
<1>2. ASSUME NEW c \in Callers, BeginRefresh(c) PROVE TokenTypeOK'
  BY <1>2 DEF BeginRefresh
<1>3. ASSUME NEW c \in Callers, RefreshSucceeds(c) PROVE TokenTypeOK'
  BY <1>3 DEF RefreshSucceeds, Saved
<1>4. ASSUME NEW c \in Callers, RefreshFails(c) PROVE TokenTypeOK'
  <2> DEFINE failures == IF refresh = None THEN 1 ELSE Least(refresh.failures + 1, 3)
  <2>1. failures \in 1 .. 3  BY LeastOfTwo
  <2> HIDE DEF failures
  <2>2. refresh' = [age |-> 0, failures |-> failures]  BY <1>4 DEF RefreshFails, failures
  <2>3. refresh' \in [age : 0 .. CooldownMax, failures : 1 .. 3]  BY <2>1, <2>2
  <2> QED  BY <1>4, <2>3 DEF RefreshFails
<1>5. ASSUME Connect PROVE TokenTypeOK'  BY <1>5 DEF Connect, Saved
<1>6. ASSUME Disconnect PROVE TokenTypeOK'  BY <1>6 DEF Disconnect
<1>7. ASSUME ServerRestart PROVE TokenTypeOK'  BY <1>7 DEF ServerRestart
<1>8. ASSUME Tick PROVE TokenTypeOK'
  <2>1. rows' \subseteq [ttl : 0 .. Life]
    <3>1. rows' = {[ttl |-> Max({row.ttl - 1, 0})] : row \in rows}  BY <1>8 DEF Tick
    <3>2. ASSUME NEW row \in rows PROVE [ttl |-> Max({row.ttl - 1, 0})] \in [ttl : 0 .. Life]
      BY OneLess
    <3> QED  BY <3>1, <3>2
  <2>2. refresh' \in [age : 0 .. CooldownMax, failures : 1 .. 3] \cup {None}
    <3>1. refresh' = [refresh EXCEPT !.age = Least(refresh.age + 1, CooldownMax)]
      BY <1>8 DEF Tick
    <3>2. Least(refresh.age + 1, CooldownMax) \in 0 .. CooldownMax
      BY <1>0, LeastOfTwo DEF None
    <3>3. ASSUME refresh = None PROVE refresh' = None
      <4>1. Least(7, 6) = 6  BY LeastOfTwo
      <4> QED  BY <3>1, <3>3, <4>1 DEF None
    <3> QED  BY <3>1, <3>2, <3>3
  <2>3. calls' \in [Callers -> 0 .. MaxWait \cup {Idle}]
    BY <1>8 DEF Tick, Waiting
  <2>4. quiet' \in 0 .. CooldownMax
    <3>1. quiet' = Least(quiet + 1, CooldownMax)  BY <1>8 DEF Tick
    <3> QED  BY <3>1, LeastOfTwo
  <2> QED  BY <1>8, <2>1, <2>2, <2>3, <2>4 DEF Tick
<1>9. ASSUME ProviderChanges PROVE TokenTypeOK'  BY <1>9 DEF ProviderChanges
<1>10. CASE UNCHANGED tokenVars  BY <1>10 DEF tokenVars
<1> QED  BY <1>1, <1>2, <1>3, <1>4, <1>5, <1>6, <1>7, <1>8, <1>9, <1>10 DEF TokenNext, CallerNext

-----------------------------------------------------------------------------
(* Rows and time *)

\* How five minutes show.
LEMMA TimePasses ==
  ASSUME TokenTypeOK, Tick
  PROVE  /\ \A row \in rows' : \E old \in rows :
              row.ttl = IF old.ttl = 0 THEN 0 ELSE old.ttl - 1
         /\ \A c \in Waiting' : c \in Waiting /\ calls'[c] = calls[c] + 1
         /\ quiet' = IF quiet < CooldownMax THEN quiet + 1 ELSE CooldownMax
         /\ refresh = None <=> refresh' = None
         /\ refresh.age = quiet => refresh'.age = quiet'
         /\ refresh'.failures = refresh.failures
<1> USE DEF CooldownMax
<1>1. /\ rows' = {[ttl |-> Max({row.ttl - 1, 0})] : row \in rows}
      /\ calls' = [c \in Callers |-> IF c \in Waiting THEN calls[c] + 1 ELSE Idle]
      /\ refresh' = [refresh EXCEPT !.age = Least(refresh.age + 1, CooldownMax)]
      /\ quiet' = Least(quiet + 1, CooldownMax)
  BY DEF Tick
<1>2. \A row \in rows : row.ttl \in Nat  BY LifeAssumption DEF TokenTypeOK
<1>3. ASSUME NEW row \in rows'
      PROVE  \E old \in rows : row.ttl = IF old.ttl = 0 THEN 0 ELSE old.ttl - 1
  <2>1. PICK old \in rows : row = [ttl |-> Max({old.ttl - 1, 0})]  BY <1>1
  <2>2. Max({old.ttl - 1, 0}) = IF old.ttl = 0 THEN 0 ELSE old.ttl - 1
    BY <1>2, OneLess
  <2> QED  BY <2>1, <2>2
<1>4. \A c \in Waiting' : c \in Waiting /\ calls'[c] = calls[c] + 1
  BY <1>1 DEF Waiting
<1>5. quiet \in 0 .. CooldownMax /\ refresh.age \in 0 .. CooldownMax
  BY DEF TokenTypeOK, None
<1>6. quiet' = IF quiet < CooldownMax THEN quiet + 1 ELSE CooldownMax
  <2>1. quiet' = Least(quiet + 1, CooldownMax)  BY <1>1
  <2> QED  BY <1>5, <2>1, LeastOfTwo
<1>7. refresh' = [age |-> Least(refresh.age + 1, CooldownMax), failures |-> refresh.failures]
  BY <1>1 DEF TokenTypeOK, None
<1>8. refresh = None => refresh' = None
  <2>1. Least(7, 6) = 6  BY LeastOfTwo
  <2> QED  BY <1>7, <2>1 DEF None
<1>9. refresh # None => refresh'.failures # -1
  BY <1>7 DEF TokenTypeOK
<1>10. refresh = None <=> refresh' = None
  BY <1>8, <1>9 DEF None
<1>11. refresh.age = quiet => refresh'.age = quiet'
  <2>1. quiet' = Least(quiet + 1, CooldownMax)  BY <1>1
  <2> QED  BY <1>7, <2>1
<1>12. refresh'.failures = refresh.failures  BY <1>7
<1> QED  BY <1>3, <1>4, <1>6, <1>10, <1>11, <1>12

\* What a row just saved gives: it is one, new, and no caller that waits is affected.
LEMMA SavedKeeps ==
  ASSUME TokenInv, rows' = Saved, UNCHANGED quiet,
         \A c \in Waiting' : c \in Waiting /\ calls'[c] = calls[c],
         refresh' \in {refresh, None}
  PROVE  OneActiveRow' /\ AgeIsQuiet' /\ WaitersFoundItStale' /\ FailuresLeaveStaleOrNew'
           /\ ForgottenWhenFresh'
<1>1. \A row \in rows' : row.ttl = Life  BY DEF Saved
<1>2. \A c \in Waiting : calls[c] \in Nat  BY WaitAssumption DEF TokenInv, TokenTypeOK, Waiting, Idle
<1>3. quiet \in Nat  BY DEF TokenInv, TokenTypeOK, CooldownMax
<1>4. OneActiveRow'  BY DEF OneActiveRow, Saved
<1>5. AgeIsQuiet'  BY DEF TokenInv, AgeIsQuiet
<1>6. WaitersFoundItStale'
  BY <1>1, <1>2, LifeAssumption DEF WaitersFoundItStale
<1>7. FailuresLeaveStaleOrNew' /\ ForgottenWhenFresh'
  BY <1>1, <1>3, LifeAssumption, WaitAssumption DEF FailuresLeaveStaleOrNew, ForgottenWhenFresh
<1> QED  BY <1>4, <1>5, <1>6, <1>7

\* Every step keeps the invariant.
LEMMA TokenStep == ASSUME TokenInv, [TokenNext]_tokenVars PROVE TokenInv'
<1>0. TokenTypeOK'  BY TokenTypeStep DEF TokenInv
<1> USE LifeAssumption, WaitAssumption DEF TokenInv
<1> DEFINE Parts == OneActiveRow /\ AgeIsQuiet /\ WaitersFoundItStale /\ FailuresLeaveStaleOrNew
                      /\ ForgottenWhenFresh
<1>1. ASSUME NEW c \in Callers, FindFresh(c) PROVE Parts'
  <2>1. PICK row \in rows : row.ttl > Threshold  BY <1>1 DEF FindFresh, IsFresh
  <2>2. UNCHANGED <<rows, calls, quiet>> /\ refresh' = None  BY <1>1 DEF FindFresh
  <2>3. \A r \in rows : r = row /\ r.ttl \in Nat  BY <2>1 DEF OneActiveRow, TokenTypeOK
  <2>4. ForgottenWhenFresh'
    BY <2>1, <2>2, <2>3 DEF ForgottenWhenFresh, FailuresLeaveStaleOrNew, Threshold
  <2> QED  BY <2>2, <2>4 DEF OneActiveRow, AgeIsQuiet, WaitersFoundItStale, FailuresLeaveStaleOrNew, Waiting
<1>2. ASSUME NEW c \in Callers, BeginRefresh(c) PROVE Parts'
  <2>1. PICK row \in rows : row.ttl <= Threshold
    BY <1>2 DEF BeginRefresh, IsFresh, TokenTypeOK, Threshold
  <2>2. UNCHANGED <<rows, refresh, quiet>> /\ calls' = [calls EXCEPT ![c] = 0]
    BY <1>2 DEF BeginRefresh
  <2>3. \A r \in rows : r.ttl <= Threshold  BY <2>1 DEF OneActiveRow
  <2>4. WaitersFoundItStale'  BY <2>2, <2>3 DEF WaitersFoundItStale
  <2> QED  BY <2>2, <2>4 DEF OneActiveRow, AgeIsQuiet, FailuresLeaveStaleOrNew, ForgottenWhenFresh
<1>3. ASSUME NEW c \in Callers, RefreshSucceeds(c) PROVE Parts'
  BY <1>3, SavedKeeps DEF RefreshSucceeds, Waiting, TokenTypeOK
<1>4. ASSUME NEW c \in Callers, RefreshFails(c) PROVE Parts'
  <2>1. /\ UNCHANGED rows /\ c \in Waiting /\ calls' = [calls EXCEPT ![c] = Idle] /\ quiet' = 0
        /\ refresh' # None /\ refresh'.age = 0 /\ refresh'.failures \in 1 .. 3
    <3> DEFINE failures == IF refresh = None THEN 1 ELSE Least(refresh.failures + 1, 3)
    <3>1. failures \in 1 .. 3  BY LeastOfTwo DEF TokenTypeOK
    <3> HIDE DEF failures
    <3>2. refresh' = [age |-> 0, failures |-> failures]  BY <1>4 DEF RefreshFails, failures
    <3> QED  BY <1>4, <3>1, <3>2 DEF RefreshFails, None
  <2>2. \A d \in Waiting : calls[d] \in 0 .. MaxWait  BY DEF TokenTypeOK, Waiting
  <2>3. \A d \in Waiting' : d \in Waiting /\ calls'[d] = calls[d]
    BY <2>1 DEF Waiting, TokenTypeOK
  <2>4. \A row \in rows : row.ttl \in Nat  BY DEF TokenTypeOK
  <2>5. WaitersFoundItStale'  BY <2>1, <2>3 DEF WaitersFoundItStale
  <2>6. FailuresLeaveStaleOrNew'
    BY <2>1, <2>2, <2>4 DEF WaitersFoundItStale, FailuresLeaveStaleOrNew, Threshold
  <2> QED  BY <2>1, <2>5, <2>6 DEF OneActiveRow, AgeIsQuiet, ForgottenWhenFresh
<1>5. ASSUME Connect PROVE Parts'
  BY <1>5, SavedKeeps DEF Connect, Waiting
<1>6. ASSUME Disconnect PROVE Parts'
  BY <1>6 DEF Disconnect, OneActiveRow, AgeIsQuiet, WaitersFoundItStale, FailuresLeaveStaleOrNew,
     ForgottenWhenFresh
<1>7. ASSUME ServerRestart PROVE Parts'
  <2>1. rows' \subseteq rows /\ refresh' = None /\ quiet' = 6 /\ Waiting' = {}
    BY <1>7 DEF ServerRestart, CooldownMax, Waiting, Idle
  <2> QED  BY <2>1 DEF OneActiveRow, AgeIsQuiet, WaitersFoundItStale, FailuresLeaveStaleOrNew,
     ForgottenWhenFresh
<1>8. ASSUME Tick PROVE Parts'
  <2>1. /\ \A row \in rows' : \E old \in rows :
              row.ttl = IF old.ttl = 0 THEN 0 ELSE old.ttl - 1
        /\ \A c \in Waiting' : c \in Waiting /\ calls'[c] = calls[c] + 1
        /\ quiet' = IF quiet < 6 THEN quiet + 1 ELSE 6
        /\ refresh = None <=> refresh' = None
        /\ refresh.age = quiet => refresh'.age = quiet'
        /\ refresh'.failures = refresh.failures
    BY <1>8, TimePasses DEF CooldownMax
  <2>2. /\ \A row \in rows : row.ttl \in Nat
        /\ \A c \in Waiting : calls[c] \in Nat
        /\ quiet \in Nat
    BY DEF TokenTypeOK, Waiting, CooldownMax
  <2>3. OneActiveRow'
    <3>1. rows' = {[ttl |-> Max({row.ttl - 1, 0})] : row \in rows}  BY <1>8 DEF Tick
    <3> QED  BY <3>1 DEF OneActiveRow
  <2>4. AgeIsQuiet'  BY <2>1 DEF AgeIsQuiet
  <2>5. WaitersFoundItStale'
    <3> SUFFICES ASSUME NEW c \in Waiting', NEW row \in rows'
                 PROVE  row.ttl <= Threshold \/ row.ttl >= Life - calls'[c]
      BY DEF WaitersFoundItStale
    <3>1. PICK old \in rows : row.ttl = IF old.ttl = 0 THEN 0 ELSE old.ttl - 1
      BY <2>1
    <3>2. old.ttl <= Threshold \/ old.ttl >= Life - calls[c]
      BY <2>1 DEF WaitersFoundItStale
    <3> QED  BY <2>1, <2>2, <3>1, <3>2 DEF Threshold
  <2>6. ASSUME quiet' < 2, NEW row \in rows'
        PROVE  /\ row.ttl <= Threshold \/ row.ttl >= Life - MaxWait - quiet'
               /\ refresh' = None => row.ttl >= Life - MaxWait - quiet'
    <3>1. PICK old \in rows : row.ttl = IF old.ttl = 0 THEN 0 ELSE old.ttl - 1
      BY <2>1
    <3>2. quiet < 2 /\ quiet' = quiet + 1  BY <2>1, <2>2, <2>6
    <3>3. /\ old.ttl <= Threshold \/ old.ttl >= Life - MaxWait - quiet
          /\ refresh' = None => old.ttl >= Life - MaxWait - quiet
      BY <2>1, <3>2 DEF FailuresLeaveStaleOrNew, ForgottenWhenFresh
    <3> QED  BY <2>2, <3>1, <3>2, <3>3 DEF Threshold
  <2>7. FailuresLeaveStaleOrNew' /\ ForgottenWhenFresh'
    BY <2>6 DEF FailuresLeaveStaleOrNew, ForgottenWhenFresh
  <2> QED  BY <2>3, <2>4, <2>5, <2>7
<1>9. ASSUME ProviderChanges PROVE Parts'
  BY <1>9 DEF ProviderChanges, OneActiveRow, AgeIsQuiet, WaitersFoundItStale, FailuresLeaveStaleOrNew,
     ForgottenWhenFresh, Waiting
<1>10. CASE UNCHANGED tokenVars
  BY <1>10, <1>0 DEF tokenVars, OneActiveRow, AgeIsQuiet, WaitersFoundItStale, FailuresLeaveStaleOrNew,
     ForgottenWhenFresh, Waiting
<1> QED
  BY <1>0, <1>1, <1>2, <1>3, <1>4, <1>5, <1>6, <1>7, <1>8, <1>9, <1>10 DEF TokenNext, CallerNext

\* The inductive invariant: failures are forgotten only with the need to retry.
THEOREM TokenInvHolds == TokenSpec => []TokenInv
<1> QED  BY TokenInitHolds, TokenStep, PTL DEF TokenSpec

\* The state is well formed.
THEOREM TokensTyped == TokenSpec => []TokenTypeOK
<1>1. TokenInv => TokenTypeOK  BY DEF TokenInv
<1> QED  BY <1>1, TokenInvHolds, PTL

\* While a server runs, no attempt follows a failure sooner than ten minutes,
\* however many callers fail at once and whatever is saved or cleared meanwhile.
THEOREM CooldownHolds == TokenSpec => QuietAfterFailure
<1> DEFINE Begins == \A c \in Callers : c \notin Waiting /\ c \in Waiting' => quiet >= 2
<1>1. ASSUME TokenInv, [TokenNext]_tokenVars PROVE Begins \/ UNCHANGED tokenVars
  <2> SUFFICES ASSUME NEW c \in Callers, c \notin Waiting, c \in Waiting' PROVE quiet >= 2
    OBVIOUS
  <2>1. BeginRefresh(c)
    BY <1>1 DEF TokenInv, TokenTypeOK, Waiting, TokenNext, CallerNext, FindFresh, BeginRefresh, RefreshSucceeds,
       RefreshFails, Connect, Disconnect, ServerRestart, Tick, ProviderChanges, tokenVars
  <2>2. PICK row \in rows : row.ttl <= Threshold
    BY <1>1, <2>1 DEF BeginRefresh, IsFresh, TokenInv, TokenTypeOK, Threshold
  <2>3. quiet \in Nat /\ refresh.age \in Nat  BY <1>1 DEF TokenInv, TokenTypeOK, CooldownMax, None
  <2>4. CASE refresh = None
    <3>1. quiet < 2 => row.ttl >= Life - MaxWait - quiet
      BY <1>1, <2>4 DEF TokenInv, ForgottenWhenFresh
    <3>2. row.ttl \in Nat  BY <1>1 DEF TokenInv, TokenTypeOK
    <3> QED  BY <2>2, <2>3, <3>1, <3>2, LifeAssumption, WaitAssumption DEF Threshold
  <2>5. CASE refresh # None
    <3>1. refresh.age = quiet /\ refresh.failures \in 1 .. 3
      BY <1>1, <2>5 DEF TokenInv, AgeIsQuiet
    <3>2. Cooldown(refresh.failures) \in {2, 4, 6}  BY <3>1, Cooldowns
    <3>3. ~(refresh.age < Cooldown(refresh.failures))
      BY <2>1, <2>5 DEF BeginRefresh, CoolingDown
    <3> QED  BY <2>3, <3>1, <3>2, <3>3
  <2> QED  BY <2>4, <2>5
<1> QED  BY <1>1, TokenInvHolds, PTL DEF TokenSpec, QuietAfterFailure
=============================================================================
