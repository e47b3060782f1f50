SPECIFICATION Spec
CONSTANTS
  Units <- MCUnits
  Source <- MCSource
  Iterations = 2
  Depth = 4
INVARIANTS EffectsExact  NoFalseAlarm 
 
