SPECIFICATION Spec
CONSTANTS
  Width = 28
  MaxAdjust = 6
  Operands <- MCOperands
  Precisions = {0, 1, 2, 3}
  Terms = {6, 11}
  Depths = {3}
  MaxAngle = 2000
  MaxArgument = 100000
  MaxCalls = 3
PROPERTY ImplementsFixedPoint
CHECK_DEADLOCK FALSE
