SPECIFICATION Spec
CONSTANTS
  Processors <- SomeProcessors
  Word = 4294
  Million = 1
INVARIANT ApicRateKnown
CHECK_DEADLOCK FALSE
