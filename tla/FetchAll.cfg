\* Two calls over at most three users, one logout.
SPECIFICATION FairSpec
CONSTANTS
  MaxUsers = 3
  MaxCalls = 2
  MaxLogouts = 1
INVARIANTS FetchInv LastUserIsThere
PROPERTY OverlayComesDown
CHECK_DEADLOCK FALSE
