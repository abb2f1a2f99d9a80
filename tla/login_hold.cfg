\* A connection held until the server is ready, with the times of the code in coarse steps.
SPECIFICATION Spec
CONSTANTS
  Patience <- MCPatience
  ReadTimeout <- MCReadTimeout
  BeatInterval <- MCBeatInterval
  ReadyTimeout <- MCReadyTimeout
  HoldTimeout = 16
  MaxBuffer = 6
  MaxWire = 4
CHECK_DEADLOCK FALSE
INVARIANTS HeldClientHears 
