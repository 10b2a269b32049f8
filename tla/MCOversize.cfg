\* Responses of up to five bytes, records of up to two.
SPECIFICATION Spec
CONSTANTS
  MaxSize = 2
  MaxFeed = 5
INVARIANTS OversizeRefused
\* A response comes to an end.
CHECK_DEADLOCK FALSE
