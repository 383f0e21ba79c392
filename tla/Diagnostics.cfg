SPECIFICATION DiagSpec
CONSTANTS
  Diff = {1, 2}
  MaxCount = 2
  Unreadable = Unreadable
  PowerCuts = TRUE
  DiskFills = TRUE
  Checks <- MCChecks
  WarnPercent = 5
INVARIANTS TypeOK AchievementsShown PendingMarked ReportFits
PROPERTY SharesVerdictEarned
