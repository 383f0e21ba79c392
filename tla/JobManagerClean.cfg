SPECIFICATION Spec
CONSTANTS
  Miner = {m1}
  Tip = {t1, t2}
  NoTip = NoTip
  JobHistory = 2
INVARIANT CleanOnNewBlock
