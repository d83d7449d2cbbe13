\* Reads may fail and apps are killed; a key shared by two devices.
SPECIFICATION Spec
CONSTANTS
  d1 = d1
  d2 = d2
  doc1 = doc1
  f1 = f1
  f2 = f2
  Devices = {d1, d2}
  Docs = {doc1}
  Fields = {f1, f2}
  Targets <- SharedKey
  MaxTaps = 2
  MaxKills = 1
  ReadsFail = TRUE
INVARIANTS IInv UpdateFindsDoc
CHECK_DEADLOCK FALSE
