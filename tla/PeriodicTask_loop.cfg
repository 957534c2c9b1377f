\* Four resets and three stops in any order.
SPECIFICATION FairSpec
CONSTANTS
  MaxResets = 4
  MaxStops = 3
PROPERTIES
  StopIsObeyed
  StopEnds
  KeepsCalling
CHECK_DEADLOCK FALSE
