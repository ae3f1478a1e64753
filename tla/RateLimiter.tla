---------------------------- MODULE RateLimiter ----------------------------
(***************************************************************************)
(* The Concierge's rate limiter: a sliding window of the times at which a  *)
(* pubkey's requests were let through, kept in memory, in front of the     *)
(* admin endpoints.  The other endpoints have none.                        *)
(***************************************************************************)
EXTENDS Integers, Sequences, FiniteSets

CONSTANTS
    Keys,     \* pubkeys
    Limit,    \* 30 in the code
    Window,   \* a minute, in ticks of the clock
    Second,   \* a second, in ticks
    MaxTime   \* bound on the clock

ASSUME LimiterAssumption ==
    /\ Limit \in Nat \ {0} /\ Window \in Nat \ {0} /\ Second \in Nat \ {0}
    /\ MaxTime \in Nat

VARIABLES
    now,      \* the limiter's clock
    served,   \* the times at which an admin request of each key passed
    entries,  \* which of them the limiter still keeps, by their number
    refusal   \* the last refusal of each key: when, and the Retry-After sent

limiterVars == <<now, served, entries, refusal>>

NoRefusal == [at |-> -1, retryAfter |-> 0]

None == [k \in Keys |-> <<>>]

LimiterInit ==
    /\ now = 0
    /\ served = None
    /\ entries = [k \in Keys |-> {}]
    /\ refusal = [k \in Keys |-> NoRefusal]

-----------------------------------------------------------------------------
FreshExclusive(key) == {i \in entries[key] : served[key][i] > now - Window}
NeverStale(key) == entries[key]
\* if !ts.Before(cutoff): an entry exactly one window old still counts.
Fresh(key) == {i \in entries[key] : served[key][i] >= now - Window}

\* A refused request is not counted.
KeptOnRefusal(key) == Fresh(key)

RetryFloor(oldest, t) == (oldest + Window - t) \div Second
\* Whole seconds, rounded up, at least one.
RetryAfter(oldest, t) ==
    LET up == (oldest + Window - t + Second - 1) \div Second
    IN  IF up < 1 THEN 1 ELSE up

\* A request to an admin endpoint.
AdminRequest(key) ==
    /\ IF Cardinality(Fresh(key)) >= Limit
         THEN /\ entries' = [entries EXCEPT ![key] = KeptOnRefusal(key)]
              /\ LET oldest == CHOOSE i \in Fresh(key) : \A j \in Fresh(key) : i <= j
                 IN  refusal' = [refusal EXCEPT ![key] =
                       [at |-> now, retryAfter |-> RetryAfter(served[key][oldest], now)]]
              /\ UNCHANGED served
         ELSE /\ entries' = [entries EXCEPT ![key] = Fresh(key) \cup {Len(served[key]) + 1}]
              /\ served' = [served EXCEPT ![key] = Append(@, now)]
              /\ UNCHANGED refusal
    /\ UNCHANGED now

ClockTicks ==
    /\ now < MaxTime
    /\ now' = now + 1
    /\ UNCHANGED <<entries, served, refusal>>

\* A new process knows nothing of the requests served by the last one.
Restart ==
    /\ served' = None
    /\ entries' = [k \in Keys |-> {}]
    /\ refusal' = [k \in Keys |-> NoRefusal]
    /\ UNCHANGED now

LimiterNext ==
    \/ \E key \in Keys : AdminRequest(key)
    \/ ClockTicks
    \/ Restart

LimiterSpec == LimiterInit /\ [][LimiterNext]_limiterVars

-----------------------------------------------------------------------------
\* Of any Limit + 1 requests of a key that one process let through, the last
\* came more than a window after the first.
WindowRespected ==
    \A k \in Keys : \A i \in DOMAIN served[k] :
        i + Limit \in DOMAIN served[k] => served[k][i + Limit] - served[k][i] > Window

\* A refusal is never unfair: Limit requests of that key passed in the window
\* before it.
RefusalsFair ==
    \A k \in Keys : refusal[k] # NoRefusal =>
        \E i \in DOMAIN served[k] :
            /\ i + Limit - 1 \in DOMAIN served[k]
            /\ served[k][i] >= refusal[k].at - Window
            /\ served[k][i + Limit - 1] <= refusal[k].at

\* A client that waits longer than Retry-After says, and sends nothing
\* meanwhile, is let through.
RetryAfterSuffices ==
    \A k \in Keys :
        ( /\ refusal[k] # NoRefusal
          /\ now > refusal[k].at + refusal[k].retryAfter * Second
          /\ \A i \in DOMAIN served[k] : served[k][i] <= refusal[k].at )
        => Cardinality(Fresh(k)) < Limit
=============================================================================
