CONSTANTS
  Zips = {z1, z2}
  EmptyZips = {z2}
  ReportTabs = {"overview"}
  OtherTabs = {"settings"}
  MaxJobs = 2
  MaxReloads = 0
  None = None
SPECIFICATION AppSpec
PROPERTIES
  PageFills
  RefreshEnds
