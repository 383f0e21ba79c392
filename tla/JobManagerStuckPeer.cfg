SPECIFICATION FairServerSpec
CONSTANTS
  Miner = {m1, m2}
  Tip = {t1}
  NoTip = NoTip
  JobHistory = 2
PROPERTY ReadersFollowTip
