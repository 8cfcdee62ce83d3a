SPECIFICATION FairSpec
CONSTANTS
  Addrs = {a1, a2}
  Delays = {1}
  Intervals = {0, 1}
  Readings = {1}
  TimeStamp <- CodeTimeStamp
  Stamps = {0}
  Residue = {1}
  MaxTimers = 3
  MaxFunctors = 2
INVARIANTS
  TypeOK
  SetsAgree
  OwnedOnce
  CancelHonoured
PROPERTY
  OneShotsFire
