\* One user saves two projects from two devices; no read fails.
SPECIFICATION SavedFairSpec
CONSTANTS
  d1 = d1
  d2 = d2
  u1 = u1
  pr1 = pr1
  pr2 = pr2
  Devices = {d1, d2}
  Users = {u1}
  Projects = {pr1, pr2}
  UserOf <- TwoDevices
  MaxTaps = 2
  MaxKills = 1
  ReadsFail = FALSE
INVARIANT UpdateFindsDoc
PROPERTIES ImplementsAbstract SaveLands
CHECK_DEADLOCK FALSE
