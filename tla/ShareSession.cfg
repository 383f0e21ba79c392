SPECIFICATION Spec
CONSTANTS
  Payout = {p1, p2}
  NoPayout = NoPayout
  Tip = {t1}
  NoTip = NoTip
  Key = {k1, k2}
  JobHistory = 2
  MaxPayouts = 2
  MaxShares = 1
  NetDiff = 2
  Settings <- MCSettings
  Suggests = {2}
  Retargets = {1, 2}
  MaxDown = 2
  MaxUp = 1
  Prompt = TRUE
SYMMETRY NameSymmetry
INVARIANTS TypeOK WorkRecognised CreditedOnce InFlightHonoured
