SPECIFICATION Spec
CONSTANTS
  Sources <- MCSources
  Program <- MCProgram
INVARIANTS
  
  ConstAgrees
  AsDocumented
  
  HandlersMatchFrames
  EscapesReported
PROPERTY
  Terminates
