\* One device, no failure: three edits of up to two projects.
SPECIFICATION Spec
CONSTANTS
  d1 = d1
  d2 = d2
  u1 = u1
  u2 = u2
  id1 = id1
  id2 = id2
  f1 = f1
  f2 = f2
  Devices = {d1}
  Users = {u1}
  AccountOf <- OneDevice
  ProjectIds = {id1, id2}
  Photos = {f1, f2}
  DeletesFrom = {"feed"}
  CallsFail = FALSE
  MaxFetches = 2
  MaxEdits = 3
  MaxKills = 0
INVARIANTS CalmInv NoOrphans SavedPostsArrive
CHECK_DEADLOCK FALSE
