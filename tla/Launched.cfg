\* The thread variant as cache_exp.sh and run.sh start it, by the launcher.
SPECIFICATION ScheduledSpec
CONSTANTS
  NumSubpaths <- MixedNumSubpaths
  Length <- MixedLength
  NumThreads <- MixedNumThreads
  SubpathOf <- MixedSubpathOf
  MeasuredEvents = TRUE
  MaxLoads = 4
  Stop = Stop
  Main = Main
  Nobody = Nobody
  Schedules <- LauncherSchedule
PROPERTIES
  EndsInTime
