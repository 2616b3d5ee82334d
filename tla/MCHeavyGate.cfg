\* Four callers, two permits, one waiter: refusals, grants to the head of the
\* line while a second permit is freed, timeouts before and after the grant.
SPECIFICATION LoopSpec
CONSTANTS
  t1 = t1
  t2 = t2
  t3 = t3
  t4 = t4
  Tasks <- FourTasks
  Limit = 2
  MaxWaiters = 1
INVARIANTS CountersHonest NoLostWakeup
PROPERTIES NoOvertaking ImplementsPool EveryCallerAnswered
