\* Two devices of one user, three edits; calls fail, apps are killed.
SPECIFICATION Spec
CONSTANTS
  d1 = d1
  d2 = d2
  u1 = u1
  u2 = u2
  id1 = id1
  id2 = id2
  f1 = f1
  f2 = f2
  Devices = {d1, d2}
  Users = {u1}
  AccountOf <- SameUser
  ProjectIds = {id1}
  Photos = {f1}
  DeletesFrom = {"feed", "editor"}
  CallsFail = TRUE
  MaxFetches = 1
  MaxEdits = 3
  MaxKills = 1
INVARIANTS StoreInv LinksLead
CHECK_DEADLOCK FALSE
