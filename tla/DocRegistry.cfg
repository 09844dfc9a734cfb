SPECIFICATION DocSpec
CONSTANTS
  Threads = {t1, t2}
  Styles = {"kept", "cleared", "flat"}
  Order = Order
  Line = Line
  Receipt = Receipt
  Create = Create
  Cancel = Cancel
  Simple = Simple
  None = None
  Names <- MCNames
  Fields <- MCFields
  Roots <- MCRoots
  Commands <- MCCommands
  TypesOf <- MCTypesOf
  MaxRequests = 3
INVARIANTS
  DocTypeOK
  LoneDocsAreComplete
  WarmDocsAreComplete
  ServedFlowsAreWhole
PROPERTY RequestsEnd
CHECK_DEADLOCK FALSE
