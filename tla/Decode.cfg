SPECIFICATION FairDecodeSpec
CONSTANTS
  Keys = {a, b, c}
  QueueCapacity = 1
  MaxActive = 2
  MaxSelections = 4
CHECK_DEADLOCK FALSE
INVARIANTS DecodingFollowsTheUser
PROPERTIES DecoderEnds
