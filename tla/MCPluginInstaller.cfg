SPECIFICATION Spec
CONSTANTS
  u1 = u1  u2 = u2  u3 = u3
  Uploads <- ThreeUploads
  Bundled = Bundled
  Nil = Nil
  MaxStaged = 2
  MaxFaults = 2
  MaxCrashes = 2
INVARIANTS
  Recoverable
  CommittedVersionInstalled
PROPERTIES
  CrasherNotReloaded
SYMMETRY Symmetry
