\* Two users like and unlike one project; no read fails, apps are killed.
SPECIFICATION LikesSpec
CONSTANTS
  d1 = d1
  d2 = d2
  d3 = d3
  u1 = u1
  u2 = u2
  pr1 = pr1
  pr2 = pr2
  Devices = {d1, d2}
  Users = {u1, u2}
  Projects = {pr1}
  UserOf <- OneDeviceEach
  MaxTaps = 3
  MaxKills = 1
  ReadsFail = FALSE
INVARIANT CleanOffStaysOff
PROPERTY ImplementsAbstract
CHECK_DEADLOCK FALSE
