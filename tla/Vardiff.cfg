\* floor and ceiling close enough that both are met
SPECIFICATION Spec
CONSTANTS
  Target <- TargetSpm
  Window <- VardiffWindow
  MinWindow <- VardiffMinWindow
  Interval <- VardiffInterval
  HashRates <- Miners
  MinDiff = 16
  MaxDiff = 800
  StartDiffs = {10, 20}
  Suggests = {3, 5000}
  MaxChanges = 1
  Patience = 24
INVARIANTS TypeOK SettledInTime
PROPERTIES StopsMoving 
