SPECIFICATION FairSpec
CONSTANTS
  moss = moss
  ace = ace
  tab1 = tab1
  tab2 = tab2
  p1 = p1
  p2 = p2
  p3 = p3
  None = None
  Jobs <- TwoJobs
  Clients <- TwoTabs
  Pids <- TwoPids
  RecentCap = 2
INVARIANTS TypeOK OwnChildren
PROPERTIES RecentKeepsNewest NoResultLost ZombiesReaped Reported
