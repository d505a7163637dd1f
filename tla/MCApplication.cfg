SPECIFICATION Spec
CONSTANTS
  Scripts = {"script"}
  MaxLines = 4
INVARIANTS ApplicationTypeOK PromptAfterOutput FenceIsAlive
PROPERTIES LineIsAnswered ShutdownEnds
\* The application ends.
CHECK_DEADLOCK FALSE
