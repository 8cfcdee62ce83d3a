SPECIFICATION Spec
CONSTANTS
  u1 = u1
  u2 = u2
  Users = {u1, u2}
  Sids = {s1, s2}
  Names = {f1, f2}
  Codes = {c1, c2}
  Extracts = {x1, x2}
  None = None
  NaN = NaN
  Zero = Zero
  NameValue <- MCNameValue
  NumericTitle = {f1, f2}
  Faults = {"register", "login", "logout", "select", "insertShare", "deleteShares", "deleteFile", "unlink", "crash"}
SYMMETRY MCSymmetry
INVARIANTS
  TypeOK
  RowsHaveFiles
  SharesOwned
  OrphansAreExplained
  DownloadJustified
  WithdrawnIsRefused
  StoredIsKept
  ShownIsReachable
  
CHECK_DEADLOCK FALSE
