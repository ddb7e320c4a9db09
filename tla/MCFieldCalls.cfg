SPECIFICATION SpecCalls

INVARIANTS
  SerializationRoundTrip
  EndomorphismSplitCorrect384

\* each behaviour makes one call; nothing follows
CHECK_DEADLOCK FALSE
