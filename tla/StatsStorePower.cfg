SPECIFICATION Spec
CONSTANTS
  Diff = {1, 2}
  MaxCount = 3
  Unreadable = Unreadable
  PowerCuts = TRUE
  DiskFills = FALSE
INVARIANT AchievementsSurvive
