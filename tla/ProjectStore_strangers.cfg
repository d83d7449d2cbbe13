\* Two users, one edits the other's project; calls fail, apps are killed, backends answer.
SPECIFICATION FairSpec
CONSTANTS
  d1 = d1
  d2 = d2
  u1 = u1
  u2 = u2
  id1 = id1
  id2 = id2
  f1 = f1
  f2 = f2
  Devices = {d1, d2}
  Users = {u1, u2}
  AccountOf <- TwoUsers
  ProjectIds = {id1}
  Photos = {f1}
  DeletesFrom = {"feed", "editor"}
  CallsFail = TRUE
  MaxFetches = 1
  MaxEdits = 2
  MaxKills = 1
PROPERTIES OnlyOwnersChange SaveEnds
CHECK_DEADLOCK FALSE
