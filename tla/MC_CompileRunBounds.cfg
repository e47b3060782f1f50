SPECIFICATION Spec
CONSTANTS
  Sources <- ElidedChecks
  Program <- MCProgram
INVARIANT
  BoundsChecked
