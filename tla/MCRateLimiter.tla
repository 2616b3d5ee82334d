--------------------------- MODULE MCRateLimiter ----------------------------
(* A small instance of RateLimiter for TLC. *)
EXTENDS RateLimiter

CONSTANTS heavyKey, lightKey, otherKey

ThreeKeys == {heavyKey, lightKey, otherKey}

\* A heavy route has the smaller quota.
Limits == [k \in ThreeKeys |-> IF k = heavyKey THEN 1 ELSE 2]
=============================================================================
