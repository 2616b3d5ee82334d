-------------------------- MODULE ReadinessPolling --------------------------
(***************************************************************************)
(* How a workspace of the web client waits for the engine: the hook        *)
(* useBackendReadiness starts a poll and replaces it when the user         *)
(* retries; waitForBackendReadiness (api-client.ts) asks /ready and then   *)
(* /domains, backs off between attempts and gives up at a deadline.  Times *)
(* are seconds since the current poll began.                               *)
(***************************************************************************)
EXTENDS Naturals

CONSTANTS Deadline,       \* deadlineMs
          RequestTimeout, \* the 6 s a request gets at most
          RetryAfters,    \* the seconds a Retry-After header may hold, 0 for no header
          MaxRetries      \* bound: how often the user asks for a new poll

ASSUME PollingAssumption ==
    /\ Deadline \in Nat \ {0} /\ RequestTimeout \in Nat \ {0}
    /\ RetryAfters \subseteq Nat /\ MaxRetries \in Nat

VARIABLES now,     \* Date.now()
          at,      \* where the current poll is in its loop
          attempt, \* attempts made, counted up to the one whose delay is the longest
          limit,   \* timeoutMs of this attempt's requests
          due,     \* when the running timer fires
          asked,   \* the earliest time the server asked to be tried again
          shown,   \* the state of the hook
          retries, \* polls the user started
          stale    \* aborted polls whose rejection has not reached the hook

pollVars == <<now, at, attempt, limit, due, asked, shown, retries, stale>>

LongestDelay == 4  \* from the fourth attempt on the base delay is 8 s
Least(a, b) == IF a < b THEN a ELSE b
Most(a, b) == IF a > b THEN a ELSE b

\* readinessDelay: 1, 2, 4, 8 s, each between 82 and 118 percent of it.
Backoff(n) == {d \in 1 .. 10 : 82 * 2^(n - 1) <= 100 * d /\ 100 * d <= 118 * 2^(n - 1)}

Requesting == at \in {"ready?", "domains?"}

PollInit == /\ now = 0 /\ at = "loop" /\ attempt = 0 /\ limit = 1 /\ due = 0 /\ asked = 0
        /\ shown = "checking" /\ retries = 0 /\ stale = 0

\* timeoutMs: never beyond the deadline by more than a second.
TimeoutFor(t) == Least(RequestTimeout, Most(1, Deadline - t))

\* while (Date.now() < deadline): the next attempt asks /ready.
Attempt ==
    /\ at = "loop" /\ now < Deadline
    /\ attempt' = Least(attempt + 1, LongestDelay)
    /\ limit' = TimeoutFor(now)
    /\ due' = now + TimeoutFor(now)
    /\ at' = "ready?" /\ shown' = "checking" /\ asked' = 0
    /\ UNCHANGED <<now, retries, stale>>

\* The loop is over: the last error is thrown.
GiveUp ==
    /\ at = "loop" /\ now >= Deadline
    /\ at' = "done" /\ shown' = "failed"
    /\ UNCHANGED <<now, attempt, limit, due, asked, retries, stale>>

\* /ready says ready; /domains gets the same timeout.
EngineReady ==
    /\ at = "ready?"
    /\ at' = "domains?" /\ due' = now + limit
    /\ UNCHANGED <<now, attempt, limit, asked, shown, retries, stale>>

\* /domains lists the workspace's domain.
DomainServed ==
    /\ at = "domains?"
    /\ at' = "done" /\ shown' = "ready"
    /\ UNCHANGED <<now, attempt, limit, due, asked, retries, stale>>

\* The deployment lacks or has disabled the capability: no use in waiting.
Unavailable ==
    /\ Requesting
    /\ at' = "done" /\ shown' = "failed"
    /\ UNCHANGED <<now, attempt, limit, due, asked, retries, stale>>

\* Mutant of Delay: no wait is longer than the longest backoff.
DelayCapped(backoff, after) == Least(Deadline - now, Most(backoff, Least(after, 8)))

\* delayMs
Delay(backoff, after) == Least(Deadline - now, Most(backoff, after))

\* catch: the attempt failed; wait, or leave the loop if no time remains.
Catch(after) ==
    /\ asked' = IF after = 0 THEN 0 ELSE now + after
    /\ IF now >= Deadline
         THEN /\ at' = "done" /\ shown' = "failed"
              /\ UNCHANGED due
         ELSE /\ at' = "sleep" /\ shown' = "waiting"
              /\ \E b \in Backoff(attempt) : due' = now + Delay(b, after)
    /\ UNCHANGED <<now, attempt, limit, retries, stale>>

\* The server refuses, is not ready, cannot be reached or sends no JSON.
AttemptFails == Requesting /\ \E after \in RetryAfters : Catch(after)

\* Mutant of TimesOut: the timer is cleared when the response's head arrives,
\* so it never fires while the body is read.
TimesOutForHeadOnly == at = "ready?" /\ now = due /\ Catch(0)

\* The request's timer fires before its body was read.
TimesOut == Requesting /\ now = due /\ Catch(0)

\* abortableDelay is over.
Wakes ==
    /\ at = "sleep" /\ now = due
    /\ at' = "loop"
    /\ UNCHANGED <<now, attempt, limit, due, asked, shown, retries, stale>>

\* retry(): abort the poll under way and begin another.  The notice offers it
\* after a failure; asking for a verification calls it unless the engine is ready.
Retry ==
    /\ retries < MaxRetries /\ shown # "ready"
    /\ retries' = retries + 1
    /\ stale' = IF at = "done" THEN stale ELSE stale + 1
    /\ now' = 0 /\ at' = "loop" /\ attempt' = 0 /\ limit' = 1 /\ due' = 0 /\ asked' = 0
    /\ shown' = "checking"

\* Mutant of StaleSettles: the rejection of an aborted poll is shown.
StaleSettlesShown ==
    /\ stale > 0 /\ stale' = stale - 1
    /\ shown' = "failed"
    /\ UNCHANGED <<now, at, attempt, limit, due, asked, retries>>

\* The rejection of an aborted poll reaches the hook, which ignores it.
StaleSettles ==
    /\ stale > 0 /\ stale' = stale - 1
    /\ UNCHANGED <<now, at, attempt, limit, due, asked, shown, retries>>

\* Time passes while a request is under way or a delay runs.
Tick ==
    /\ Requesting \/ at = "sleep"
    /\ now < due
    /\ now' = now + 1
    /\ UNCHANGED <<at, attempt, limit, due, asked, shown, retries, stale>>

Loop == Attempt \/ GiveUp \/ Wakes \/ TimesOut
Network == EngineReady \/ DomainServed \/ Unavailable \/ AttemptFails
PollNext == Loop \/ Network \/ Retry \/ StaleSettles \/ Tick

PollSpec == PollInit /\ [][PollNext]_pollVars

\* Time passes and the browser runs what is due; the server may stay silent.
FairPollSpec == PollSpec /\ WF_pollVars(Loop) /\ WF_pollVars(Tick)
-----------------------------------------------------------------------------
(* Properties *)

\* A server that asked for time is not asked again before it is over: the
\* cut at the deadline ends the poll instead.
RetryAfterHonoured == [][at = "loop" /\ at' = "ready?" => now >= asked]_pollVars

\* What the workspace shows is the state of the newest poll: a verdict exactly
\* when that poll ended, whatever aborted polls still report.
ShownIsNewest == shown \in {"ready", "failed"} <=> at = "done"

\* Every poll ends, even if the server never answers a request.
PollEnds == at # "done" ~> at = "done"
=============================================================================
