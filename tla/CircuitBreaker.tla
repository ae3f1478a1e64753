--------------------------- MODULE CircuitBreaker ---------------------------
(***************************************************************************)
(* The circuit breaker's three methods, as functions of its fields.  Time  *)
(* is only ever read as Now() - lastOpenedAt and only compared with the    *)
(* recovery timeout: "elapsed" is that difference, in ticks, and stops     *)
(* counting at the timeout.                                                *)
(***************************************************************************)
EXTENDS Naturals

CONSTANTS
    FailureThreshold,          \* 5 in the code
    HalfOpenFailureThreshold,  \* 3
    SuccessThreshold,          \* 1
    RecoveryTimeout            \* 30 s

\* New replaces a zero by the default: no threshold is ever zero.
ASSUME BreakerAssumption ==
    {FailureThreshold, HalfOpenFailureThreshold, SuccessThreshold, RecoveryTimeout} \subseteq Nat \ {0}

States == {"closed", "open", "half-open"}

Breaker == [state: States, consecutiveFails: Nat, halfOpenFails: Nat,
            halfOpenSuccess: Nat, elapsed: 0..RecoveryTimeout]

NewBreaker == [state |-> "closed", consecutiveFails |-> 0, halfOpenFails |-> 0,
               halfOpenSuccess |-> 0, elapsed |-> 0]

Cooled(b) == b.elapsed >= RecoveryTimeout

AllowsAlways(b) == TRUE
\* Allow: whether it lets the call through, and what it makes of the breaker.
Allows(b) ==
    \/ b.state = "closed"
    \/ b.state = "open" /\ Cooled(b)
    \/ b.state = "half-open" /\ b.halfOpenFails < HalfOpenFailureThreshold

AfterAllowNoProbe(b) ==
    IF b.state = "open" /\ Cooled(b) THEN [b EXCEPT !.halfOpenFails = 0, !.halfOpenSuccess = 0] ELSE b
AfterAllow(b) ==
    IF b.state = "open" /\ Cooled(b)
        THEN [b EXCEPT !.state = "half-open", !.halfOpenFails = 0, !.halfOpenSuccess = 0]
        ELSE b

CloseKeepingCount(b) == [b EXCEPT !.state = "closed", !.halfOpenFails = 0, !.halfOpenSuccess = 0]
Close(b) == [NewBreaker EXCEPT !.elapsed = b.elapsed]

AfterSuccess(b) ==
    CASE b.state = "closed" -> [b EXCEPT !.consecutiveFails = 0]
      [] b.state = "half-open" ->
            IF b.halfOpenSuccess + 1 >= SuccessThreshold
                THEN Close(b) ELSE [b EXCEPT !.halfOpenSuccess = @ + 1]
      [] OTHER -> b

Open(b) == [b EXCEPT !.state = "open", !.elapsed = 0]

AfterFailureLate(b) ==
    LET counted ==
          CASE b.state = "closed"    -> [b EXCEPT !.consecutiveFails = @ + 1]
            [] b.state = "half-open" -> [b EXCEPT !.halfOpenFails = @ + 1]
            [] OTHER                 -> b
    IN  IF \/ b.state = "closed" /\ counted.consecutiveFails >= FailureThreshold
           \/ b.state = "half-open" /\ counted.halfOpenFails > HalfOpenFailureThreshold
          THEN Open(counted) ELSE counted
\* A counter keeps the value that opened the breaker.
AfterFailure(b) ==
    LET counted ==
          CASE b.state = "closed"    -> [b EXCEPT !.consecutiveFails = @ + 1]
            [] b.state = "half-open" -> [b EXCEPT !.halfOpenFails = @ + 1]
            [] OTHER                 -> b
    IN  IF \/ b.state = "closed" /\ counted.consecutiveFails >= FailureThreshold
           \/ b.state = "half-open" /\ counted.halfOpenFails >= HalfOpenFailureThreshold
          THEN Open(counted) ELSE counted

\* A tick of the clock.
Aged(b) == IF Cooled(b) THEN b ELSE [b EXCEPT !.elapsed = @ + 1]
=============================================================================
