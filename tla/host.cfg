\* Three runs of the daemon, so that one may meet a predecessor and a successor.
CONSTANTS
  Daemons = {d1, d2, d3}
  Stops = {s1}
  None = None
  Torn = Torn
  Odd = Odd
  MaxMishaps = 1
SPECIFICATION Spec
INVARIANT OneServing
PROPERTY StoppedIsTrue
CHECK_DEADLOCK FALSE
