CONSTANTS
  Zips = {z1, z2}
  EmptyZips = {}
  ReportTabs = {"overview"}
  OtherTabs = {"settings"}
  MaxJobs = 2
  MaxReloads = 1
  None = None
SPECIFICATION AppSpec
INVARIANTS
  DemoIffMock
  
  QuietShowsKept
