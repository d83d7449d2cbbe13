\* Two devices and two users, one with an account; calls fail, apps are killed and reinstalled.
SPECIFICATION FairSpec
CONSTANTS
  d1 = d1
  d2 = d2
  u1 = u1
  u2 = u2
  Nobody = Nobody
  Devices = {d1, d2}
  Users = {u1, u2}
  Known = {u2}
  CallsFail = TRUE
  MaxStarts = 2
  MaxEdits = 1
  MaxWrites = 2
  MaxKills = 1
  MaxInstalls = 1
INVARIANTS AccountsInv SessionKept ProfileIsNew UpdateFindsProfile AvatarsAreThere AccountsHaveProfiles
PROPERTY HudComesDown
CHECK_DEADLOCK FALSE
