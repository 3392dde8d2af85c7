CONSTANTS
  Directory <- SmallDirectory
  Attrs <- SmallAttrs
  Calls <- SmallCalls
  CbPosition = 1
  CbStatus = 2
  CbSize = 1
  FirstPosition <- Positions
  Faults = {"badresult"}
SPECIFICATION Spec
INVARIANTS TypeOK PositionsAgree EachOnceInOrder
PROPERTIES AdequateAdvances ImplementsEnumeration
