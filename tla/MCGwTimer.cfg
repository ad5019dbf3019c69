\* A client adds and deletes timers of both types while the timer thread runs;
\* callbacks that take up to a tick.
SPECIFICATION Spec
CONSTANTS
  Clients = {c1}
  Timers = {t1, t2}
  NoTimer = null
  Intervals = {1, 4}
  SlowTicks = 1
  Deletable = {"once", "circle"}
INVARIANTS
  OnePlace
  NeverLate
PROPERTIES
  NeverEarly
  ImplementsOneShotTimers
  TimersAreServed
\* A deletion may use freed memory, after which the model stops.
CHECK_DEADLOCK FALSE
