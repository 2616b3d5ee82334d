---------------------------- MODULE RateLimiter -----------------------------
(***************************************************************************)
(* BoundedRateLimiter of operations.py: a fixed window per key (client     *)
(* address, route, tier), kept in a table of bounded size ordered by last  *)
(* use, and swept of old entries from time to time.  check() runs whole    *)
(* under a lock and only on the event loop, so a call is one step; time    *)
(* passes between calls.  Times are in ticks, TicksPerSecond to a second,  *)
(* so that the rounding of Retry-After to whole seconds is visible.        *)
(***************************************************************************)
EXTENDS Integers, Sequences, SequencesExt

CONSTANTS Keys,           \* (client_ip, route, tier) triples
          LimitOf,        \* the limit a key's tier and route are checked with
          WindowSeconds,  \* DATUMGUARD_RATE_LIMIT_WINDOW_SECONDS
          TtlSeconds,     \* DATUMGUARD_RATE_LIMIT_TTL_SECONDS
          MaxKeys,        \* DATUMGUARD_RATE_LIMIT_MAX_KEYS
          SweepSeconds,   \* the 30.0 of _cleanup
          TicksPerSecond,
          Horizon         \* bound on time, for model checking

ASSUME LimiterAssumption ==
    /\ LimitOf \in [Keys -> Nat \ {0}]
    /\ {WindowSeconds, TtlSeconds, MaxKeys, SweepSeconds, TicksPerSecond} \subseteq Nat \ {0}
    /\ Horizon \in Nat

VARIABLES now,         \* time.monotonic()
          order,       \* the keys of _buckets, in the order of the OrderedDict
          started,     \* bucket.window_started
          count,       \* bucket.count
          lastSeen,    \* bucket.last_seen
          lastCleanup, \* _last_cleanup
          promise,     \* when the client of a refused key was told to come back, 0: not told
          grants       \* when requests of the key were allowed, the last window only

buckets == <<order, started, count, lastSeen, lastCleanup>>
limiterVars == <<now, buckets, promise, grants>>

SmallerOf(a, b) == IF a < b THEN a ELSE b
LargerOf(a, b) == IF a > b THEN a ELSE b

Window == WindowSeconds * TicksPerSecond

\* Mutant of Ttl: a time to live shorter than the window is taken as it is.
TtlUnchecked == TtlSeconds * TicksPerSecond

Ttl == LargerOf(TtlSeconds, WindowSeconds) * TicksPerSecond

\* The least time between two sweeps, min(30.0, ttl / 2).
SweepDue == 2 * (now - lastCleanup) >= SmallerOf(2 * SweepSeconds * TicksPerSecond, Ttl)

\* Mutant of RetryAfter: the wait is rounded down.
RetryAfterFloor(elapsed) == LargerOf(1, (Window - elapsed) \div TicksPerSecond)

\* max(1, math.ceil(window - elapsed)), in seconds.
RetryAfter(elapsed) ==
    LargerOf(1, (Window - elapsed + TicksPerSecond - 1) \div TicksPerSecond)

\* The elements of s that are in T, in their order (SelectSeq, by a function that can be
\* reasoned about).
Only(s, T) ==
    LET first[n \in 0..Len(s)] ==
          IF n = 0 THEN <<>> ELSE IF s[n] \in T THEN Append(first[n - 1], s[n]) ELSE first[n - 1]
    IN first[Len(s)]

Held == ToSet(order)

\* The keys that _cleanup leaves.
Swept == IF SweepDue THEN Only(order, {k \in Held : now - lastSeen[k] < Ttl}) ELSE order

Sweep == lastCleanup' = IF SweepDue THEN now ELSE lastCleanup

\* Room for one more key: popitem(last=False) while the table is full.
Evicted(s) == IF Len(s) < MaxKeys THEN s ELSE SubSeq(s, Len(s) - MaxKeys + 2, Len(s))
-----------------------------------------------------------------------------
LimiterInit ==
    /\ now \in {0, Window}
    /\ order = <<>>
    /\ started = [k \in Keys |-> 0]
    /\ count = [k \in Keys |-> 0]
    /\ lastSeen = [k \in Keys |-> 0]
    /\ lastCleanup = 0
    /\ promise = [k \in Keys |-> 0]
    /\ grants = [k \in Keys |-> <<>>]

\* What the table forgot because it was full is forgotten by the histories.
Remember(allowed, kept) ==
    LET evicted == Held \ kept
    IN  /\ promise' = [k \in Keys |-> IF k \in evicted \/ k \in allowed THEN 0 ELSE promise[k]]
        /\ grants' = [k \in Keys |->
              (IF k \in evicted THEN <<>> ELSE grants[k])
                  \o (IF k \in allowed THEN <<now>> ELSE <<>>)]

\* check(key) of a key without a bucket: one is made, at the cost of the
\* least recently seen when the table is full.
CheckNew(k) ==
    /\ k \notin ToSet(Swept)
    /\ order' = Append(Evicted(Swept), k)
    /\ started' = [started EXCEPT ![k] = now]
    /\ count' = [count EXCEPT ![k] = 1]
    /\ lastSeen' = [lastSeen EXCEPT ![k] = now]
    /\ Sweep
    /\ Remember({k}, ToSet(Evicted(Swept)) \cup (Held \ ToSet(Swept)))
    /\ UNCHANGED now

\* move_to_end and last_seen, for a key with a bucket.
Touch(k) ==
    /\ k \in ToSet(Swept)
    /\ order' = Append(Only(Swept, Held \ {k}), k)
    /\ lastSeen' = [lastSeen EXCEPT ![k] = now]
    /\ Sweep

Elapsed(k) == now - started[k]

\* check(key) after the window: a new one begins.
CheckRenew(k) ==
    /\ Touch(k)
    /\ Elapsed(k) >= Window
    /\ started' = [started EXCEPT ![k] = now]
    /\ count' = [count EXCEPT ![k] = 1]
    /\ Remember({k}, Held)
    /\ UNCHANGED now

\* check(key) in the window with no quota left: 429 and Retry-After.
CheckRefuse(k) ==
    /\ Touch(k)
    /\ Elapsed(k) < Window
    /\ count[k] >= LimitOf[k]
    /\ promise' = [promise EXCEPT ![k] = now + RetryAfter(Elapsed(k)) * TicksPerSecond]
    /\ UNCHANGED <<now, started, count, grants>>

\* Mutant of CheckCount: one request more than the limit.
CheckCountOneMore(k) ==
    /\ Touch(k)
    /\ Elapsed(k) < Window
    /\ count[k] <= LimitOf[k]
    /\ count' = [count EXCEPT ![k] = @ + 1]
    /\ Remember({k}, Held)
    /\ UNCHANGED <<now, started>>

\* check(key) in the window with quota left.
CheckCount(k) ==
    /\ Touch(k)
    /\ Elapsed(k) < Window
    /\ count[k] < LimitOf[k]
    /\ count' = [count EXCEPT ![k] = @ + 1]
    /\ Remember({k}, Held)
    /\ UNCHANGED <<now, started>>

Check(k) == CheckNew(k) \/ CheckRenew(k) \/ CheckRefuse(k) \/ CheckCount(k)

Tick ==
    /\ now < Horizon
    /\ now' = now + 1
    /\ grants' = [k \in Keys |-> Only(grants[k], (now' - Window + 1)..now')]
    /\ UNCHANGED <<buckets, promise>>

LimiterNext == Tick \/ \E k \in Keys : Check(k)

LimiterSpec == LimiterInit /\ [][LimiterNext]_limiterVars
-----------------------------------------------------------------------------
(* Properties *)

\* Fixed windows let through at most 2 * limit - 1 requests in any interval of
\* one window's length, unless the table was full and forgot the key.
SlidingQuota ==
    \A k \in Keys : Len(grants[k]) <= 2 * LimitOf[k] - 1

\* A client that waits as long as Retry-After said is let through, if nobody
\* else used its key meanwhile: neither later refusals nor the rounding to
\* whole seconds keep it out.
PromiseKept ==
    \A k \in Held : promise[k] # 0 /\ now >= promise[k] => Elapsed(k) >= Window

\* The table forgets a key whose window runs, and with it the requests already
\* counted, only to make room when it is full, and then the least recently seen.
OnlyEvictionForgets ==
    [][\A k \in Held : k \notin ToSet(order') /\ now - started[k] < Window =>
          /\ Len(order) = MaxKeys /\ Len(order') = MaxKeys
          /\ \A j \in Held : lastSeen[k] <= lastSeen[j]]_limiterVars
=============================================================================
