SPECIFICATION FairSpec
CONSTANTS
  Timer = {t1, t2}
  SecSize = 3
  HourSize = 2
  DaySize = 2
  MaxTimeout = 11
  Asked <- MCAsked
  Returned <- MCReturned
  MaxLag = 2
  MaxNow = 13
  NoTime = NoTime
CHECK_DEADLOCK FALSE
INVARIANTS TimerSafe CalledOnTime
PROPERTIES KeepsPromise EveryTimerEnds
