\* Two controllers, two timers, periodic ones as well, one adjustment forward.
CONSTANTS
  c1 = c1  c2 = c2  t1 = t1  t2 = t2
  Nobody = nobody
  Controller <- Two
  Timer <- Timers2
  Delay <- Delays1
  Delta <- Forward
  Periodic <- Also
  MaxTime = 2
  MaxStart = 3
  MaxAdjust = 1
SPECIFICATION Spec
INVARIANTS TypeOK QueuesSound WakesInTime
PROPERTY TimerEnds
