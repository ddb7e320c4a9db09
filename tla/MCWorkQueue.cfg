CONSTANTS
  MaxCommitments <- MCMaxCommitments

SPECIFICATION SpecInOrder

INVARIANTS
  TranscriptFollowsQueueOrder

\* a proof ends once every commitment is queued and sent
CHECK_DEADLOCK FALSE
