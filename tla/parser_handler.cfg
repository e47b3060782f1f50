SPECIFICATION Spec
CONSTANT Sources <- HandlerSources
PROPERTY ParseEnds
CHECK_DEADLOCK FALSE
