SPECIFICATION Spec
CONSTANTS
  p1 = p1  p2 = p2  p3 = p3  a1 = a1  a2 = a2  u1 = u1
  Plugin <- Plugins
  CmdOf <- Command
  Graphs <- AllGraphs
  Admin <- Admins
  User <- Users
  Main = main
  None = None
  MaxCrashes = 1
  MaxFaults = 1
INVARIANTS
  ResolveCorrect
  CommandsAttributed
  MappedWhileUsed
  DisabledStaysOff
