SPECIFICATION Spec
CONSTANTS
  u1 = u1  u2 = u2  u3 = u3
  Uploads <- TwoUploads
  Bundled = Bundled
  Nil = Nil
  MaxStaged = 2
  MaxFaults = 0
  MaxCrashes = 1
INVARIANTS
  PreviousVersionPutBack
