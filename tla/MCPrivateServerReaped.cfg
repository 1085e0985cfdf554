SPECIFICATION PSFairSpec
CONSTANTS
  Background = {b1, b2}
  MaxTroubles = 1
PROPERTY ReapedToTheEnd
CHECK_DEADLOCK FALSE
