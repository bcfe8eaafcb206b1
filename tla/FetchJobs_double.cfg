SPECIFICATION Spec
CONSTANTS
  moss = moss
  ace = ace
  tab1 = tab1
  tab2 = tab2
  p1 = p1
  p2 = p2
  p3 = p3
  None = None
  Jobs <- OneJob
  Clients <- TwoTabs
  Pids <- ThreePids
  RecentCap = 2
INVARIANT SingleDownload
