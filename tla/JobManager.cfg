SPECIFICATION FairSpec
CONSTANTS
  Miner = {m1, m2}
  Tip = {t1, t2}
  NoTip = NoTip
  JobHistory = 2
INVARIANTS TypeOK RefreshFollowsReal NoMinerSkipped
PROPERTY MinersFollowTip
