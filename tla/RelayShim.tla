------------------------------ MODULE RelayShim ------------------------------
(***************************************************************************)
(* The relay shim: strfry writes one line per event to the shim's standard *)
(* input, the shim asks the Concierge unless the circuit breaker forbids   *)
(* it, and writes accept or reject.  One line at a time: the loop in       *)
(* cmd/relay-shim/main.go reads a line only when the last was answered.    *)
(***************************************************************************)
EXTENDS CircuitBreaker, Sequences

CONSTANT MaxPending  \* bound on the lines waiting in the pipe

ASSUME PendingAssumption == MaxPending \in Nat \ {0}

VARIABLES
    breaker,  \* the fields of the process's circuit breaker
    pending,  \* lines strfry has written and the shim has not read
    busy,     \* a request to the Concierge is under way
    healthy   \* the Concierge answers the shim with 200 and a verdict

vars == <<breaker, pending, busy, healthy>>

\* "new" asks for a verdict; "other" types get no answer; a "long" line does
\* not fit the scanner's 64 KiB buffer.
Lines == {"new", "other", "long"}

TypeOK ==
    /\ breaker \in Breaker
    /\ pending \in Seq(Lines) /\ Len(pending) <= MaxPending
    /\ busy \in BOOLEAN
    /\ healthy \in BOOLEAN

Init ==
    /\ breaker = NewBreaker
    /\ pending = <<>>
    /\ busy = FALSE
    /\ healthy = TRUE

Arrive(line) ==
    /\ Len(pending) < MaxPending
    /\ pending' = Append(pending, line)
    /\ UNCHANGED <<breaker, busy, healthy>>

\* ProcessLine up to the request; refused by the breaker, the event is
\* rejected at once.
Read ==
    /\ ~busy
    /\ pending # <<>> /\ Head(pending) # "long"
    /\ pending' = Tail(pending)
    /\ busy' = (Head(pending) = "new" /\ Allows(breaker))
    /\ breaker' = IF Head(pending) = "new" THEN AfterAllow(breaker) ELSE breaker
    /\ UNCHANGED healthy

\* scanner.Err() is not nil: the shim exits and strfry starts another, which
\* finds a new pipe and a new breaker.
Exit ==
    /\ ~busy
    /\ pending # <<>> /\ Head(pending) = "long"
    /\ pending' = <<>>
    /\ breaker' = NewBreaker
    /\ UNCHANGED <<busy, healthy>>

\* 200 and a verdict, allow or deny: both are a success to the breaker.
Verdict ==
    /\ busy /\ healthy
    /\ busy' = FALSE
    /\ breaker' = AfterSuccess(breaker)
    /\ UNCHANGED <<pending, healthy>>

\* A refused connection, a timeout of 5 s, any status but 200, a body that is
\* no JSON: the event is rejected.
Failure ==
    /\ busy /\ ~healthy
    /\ busy' = FALSE
    /\ breaker' = AfterFailure(breaker)
    /\ UNCHANGED <<pending, healthy>>

Tick ==
    /\ breaker' = Aged(breaker)
    /\ UNCHANGED <<pending, busy, healthy>>

\* The Concierge goes down or comes back.
ChangeHealth == healthy' = ~healthy /\ UNCHANGED <<breaker, pending, busy>>

Next ==
    \/ \E line \in Lines : Arrive(line)
    \/ Read
    \/ Exit
    \/ Verdict
    \/ Failure
    \/ Tick
    \/ ChangeHealth

Spec == Init /\ [][Next]_vars

\* The loop runs while it has input, a request ends (the client times out),
\* the clock ticks, and the relay keeps receiving events.
Fairness ==
    /\ WF_vars(Read) /\ WF_vars(Exit)
    /\ WF_vars(Verdict \/ Failure)
    /\ WF_vars(Tick)
    /\ SF_vars(Arrive("new"))
FairSpec == Spec /\ Fairness

-----------------------------------------------------------------------------
\* The shim's breaker does what a breaker promises (BreakerPromise).
Promise == INSTANCE BreakerPromise WITH
    Trip    <- FailureThreshold,
    Retrip  <- HalfOpenFailureThreshold,
    state   <- breaker.state,
    streak  <- CASE breaker.state = "closed"    -> breaker.consecutiveFails
                 [] breaker.state = "half-open" -> breaker.halfOpenFails
                 [] OTHER                       -> 0,
    cooling <- breaker.state = "open" /\ ~Cooled(breaker)
KeepsPromise == Promise!PSpec

\* A call that began while the breaker was open, or that would find it so
\* when it ends, does not exist: a request under way means the breaker is
\* closed or probing, so its outcome is always counted.
OutcomeCounts == busy => breaker.state # "open"

\* A half-open breaker lets the next call through: it can never be stuck in
\* the state where Allow refuses, which only a call could leave.
HalfOpenNotStuck == breaker.state = "half-open" => Allows(breaker)

\* Once the Concierge is back for good, the breaker closes and stays closed.
Recovers == <>[]healthy => <>[](breaker.state = "closed")
=============================================================================
