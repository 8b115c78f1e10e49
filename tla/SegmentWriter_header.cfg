CONSTANTS
  WriteModes = {1}
  Span = 2
  WriteBudget = 2
  Epoch = 10
  MaxWrites = 2
  MaxHeaders = 2
  MaxFailures = 0
  MaxTime = 12
SPECIFICATION Spec
PROPERTIES
  HeaderIsWhole
