\* Two calls over at most three users, one logout.
SPECIFICATION Spec
CONSTANTS
  MaxUsers = 3
  MaxCalls = 2
  MaxLogouts = 1
INVARIANT CompletionHasAllUsers

CHECK_DEADLOCK FALSE
