--------------------------- MODULE BreakerPromise ---------------------------
(***************************************************************************)
(* What a circuit breaker promises, with one counter in place of the       *)
(* code's three: "streak" counts the failed calls since the breaker was    *)
(* last closed, half-opened or (while closed) last had a success.          *)
(***************************************************************************)
EXTENDS Naturals

CONSTANTS Trip,    \* failures in a row that open a closed breaker
          Retrip   \* failures that open a half-open one again

VARIABLES state, streak,
          cooling  \* open, and the recovery time is not over

pvars == <<state, streak, cooling>>

Limit == IF state = "closed" THEN Trip ELSE Retrip

Closed == state = "closed" /\ streak = 0 /\ cooling = FALSE
PInit == Closed

\* The recovery time ends.
Cool == cooling /\ cooling' = FALSE /\ UNCHANGED <<state, streak>>

\* The first call after it is let through as a probe.
Probe ==
    /\ state = "open" /\ ~cooling
    /\ state' = "half-open" /\ streak' = 0 /\ UNCHANGED cooling

Succeed ==
    /\ state # "open"
    /\ \/ state' = "closed" /\ streak' = 0
       \/ state = "half-open" /\ UNCHANGED <<state, streak>>
    /\ UNCHANGED cooling

Fail ==
    /\ state # "open"
    /\ IF streak + 1 < Limit
         THEN streak' = streak + 1 /\ UNCHANGED <<state, cooling>>
         ELSE state' = "open" /\ streak' = 0 /\ cooling' = TRUE

\* The process that keeps the breaker is replaced.
Reset == Closed'

PNext == Cool \/ Probe \/ Succeed \/ Fail \/ Reset
PSpec == PInit /\ [][PNext]_pvars

\* No more calls fail in a row than the limit allows before the breaker opens.
StreakBounded == streak < Limit
=============================================================================
