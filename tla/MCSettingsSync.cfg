SPECIFICATION FairSpec
CONSTANTS
  Devices = {d1, d2}
  Keys = {k1}
  Values = {v1}
  Default = Default
  Absent = Absent
  Unmounted = Unmounted
  MaxActs = 4
  MaxFaults = 1
CHECK_DEADLOCK FALSE
INVARIANTS
  ChangesAreScheduled
  HooksShowStorage
PROPERTIES
  PutsTakeEffectInOrder
  ChangesAreSent
