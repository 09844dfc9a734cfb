CONSTANTS
  Types = {A, B}
  MethodNames = {m, n}
  None = None
  Scanners = {"event", "controller", "policy", "external"}
  MaxArguments = 1
  MaxMethods = 2
  MaxSize = 5
SYMMETRY Symm
SPECIFICATION ScanSpec
INVARIANTS
  ScannerTypeOK
  TameIsFound
  
