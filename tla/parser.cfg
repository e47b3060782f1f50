SPECIFICATION Spec
CONSTANT Sources <- MCSources
INVARIANT TokensInOrder
INVARIANT AcceptedIsLossless
 
INVARIANT BindsByLevel
 
PROPERTY ParseEnds
CHECK_DEADLOCK FALSE
