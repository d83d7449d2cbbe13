\* One device; listeners fail, the user logs out and in, others like and save.
SPECIFICATION FairSpec
CONSTANTS
  u1 = u1
  u2 = u2
  pr1 = pr1
  pr2 = pr2
  Absent = Absent
  Users = {u1, u2}
  Projects = {pr1, pr2}
  Me = u1
  Others = {u2}
  LastUser = u1
  Order <- NewestFirst
  Ownerships <- Owners
  Liked = {pr2}
  MaxInputs = 3
  MaxListeners = 2
INVARIANTS TabsInv CellsAgree ListsAreMarked TableCatchesUp
PROPERTY CascadeEnds
CHECK_DEADLOCK FALSE
