\* No Retry-After header, the 2 s of an engine that is not ready, the 60 s of a full quota.
SPECIFICATION FairPollSpec
CONSTANTS
  Deadline = 70
  RequestTimeout = 6
  RetryAfters = {0, 2, 60}
  MaxRetries = 2
INVARIANT ShownIsNewest
PROPERTIES RetryAfterHonoured PollEnds
\* A poll that ended rests until the user retries.
CHECK_DEADLOCK FALSE
