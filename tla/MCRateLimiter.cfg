\* Half-second ticks, a window of two seconds that begins between whole seconds; the
\* configured time to live is shorter than the window; two buckets for three keys.
SPECIFICATION LimiterSpec
CONSTANTS
  heavyKey = heavyKey
  lightKey = lightKey
  otherKey = otherKey
  Keys <- ThreeKeys
  LimitOf <- Limits
  WindowSeconds = 2
  TtlSeconds = 1
  MaxKeys = 2
  SweepSeconds = 30
  TicksPerSecond = 2
  Horizon = 7
INVARIANTS SlidingQuota PromiseKept
PROPERTIES OnlyEvictionForgets
CHECK_DEADLOCK FALSE
