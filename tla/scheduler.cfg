CONSTANTS
  CronTimes = {t1, t2}
  Zones = {z1, z2}
  DefaultTime = t1
  DefaultZone = z1
  Retentions = {2}
  DefaultRetention = 2
  ScheduledRuns = {s1, s2}
  ManualRuns = {m1}
  MaxClock = 3
  MaxRowIds = 2
SPECIFICATION FairSpec
INVARIANTS
  OneScheduledJob
  SchedulerFollowsSettings
PROPERTIES
  RetentionKeepsNewest
  BackupsKeepComing
