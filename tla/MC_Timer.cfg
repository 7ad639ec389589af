CONSTANTS
  TickLength = 3
  Overwritten = 1
  MaxTime = 9
  SleepTimes <- Sleeps
SPECIFICATION FairTimerSpec
INVARIANTS
  TimerTypeOK
  EachLineIsAcknowledged
PROPERTIES
  EarlyOnlyIfInterrupted
  InterruptEndsSleep
  SleepReturns
