------------------------------ MODULE Beacons ------------------------------
(***************************************************************************)
(* Lighting a beacon at one place from several browsers (app-state.tsx     *)
(* createBeacon, nostr.ts).  A browser asks the relay for a definition of  *)
(* the place and, told of none, signs one and publishes it.  The relay     *)
(* keeps one definition per author and place, the newest; a query takes    *)
(* the newest of all authors.  Each of the two calls has a socket of its   *)
(* own and ten seconds; an event that was sent may be stored after the     *)
(* browser has given up.  A definition's time is the browser's when the    *)
(* signer is asked, which may answer much later.                           *)
(***************************************************************************)
EXTENDS Naturals, Sequences

CONSTANTS
    Clients,    \* browsers, each with a key of its own
    MaxCalls,   \* bound on the calls of createBeacon
    MaxSeconds  \* bound on the clock

ASSUME BeaconAssumption == MaxCalls \in Nat /\ MaxSeconds \in Nat

VARIABLES
    now,    \* the browsers' clocks, in seconds
    log,    \* the definitions in the order the relay stored them
    calls,  \* calls of createBeacon
    shown,  \* relayBeaconPlacesState of each client at this place
    load    \* the query of all beacons each client makes when it starts

vars == <<now, log, calls, shown, load>>

NoEvent == [at |-> 0]
Event == [by: Clients, call: 1..MaxCalls, at: 0..MaxSeconds]
Ended == {"created", "existing", "failed"}
Call == [by: Clients, began: Nat, wire: BOOLEAN,
         pc: {"query", "asked", "sign", "publish", "sent", "ok", "refused"} \cup Ended,
         found: Event \cup {NoEvent}, event: Event \cup {NoEvent}]
Load == [pc: {"off", "query", "asked", "done"}, found: Event \cup {NoEvent}]

TypeOK ==
    /\ now \in 0..MaxSeconds
    /\ log \in Seq(Event)
    /\ calls \in Seq(Call) /\ Len(calls) <= MaxCalls
    /\ shown \in [Clients -> Event \cup {NoEvent}]
    /\ load \in [Clients -> Load]

Init ==
    /\ now = 0
    /\ log = << >> /\ calls = << >>
    /\ shown = [c \in Clients |-> NoEvent]
    /\ load = [c \in Clients |-> [pc |-> "off", found |-> NoEvent]]

-----------------------------------------------------------------------------
(* The relay. *)

\* The last stored definition of each author is the one it holds.
Held == {log[k] : k \in {i \in DOMAIN log : \A m \in (i + 1)..Len(log) : log[m].by # log[i].by}}

\* A definition older than the author's one is refused; of two of one second
\* the smaller id, which may be either, is kept.
Takes(event) == \A held \in Held : held.by = event.by => held.at <= event.at

\* EVENTs and EOSE: the query keeps the newest, of equals the last delivered.
Newest == IF Held = {} THEN {NoEvent} ELSE {e \in Held : \A held \in Held : held.at <= e.at}

-----------------------------------------------------------------------------
(* createBeacon. *)

\* A client that has the place on its list opens it and calls nobody.
Begin(c) ==
    /\ shown[c] = NoEvent
    /\ Len(calls) < MaxCalls
    /\ calls' = Append(calls, [by |-> c, began |-> Len(log), wire |-> FALSE, pc |-> "query",
                               found |-> NoEvent, event |-> NoEvent])
    /\ UNCHANGED <<now, log, shown, load>>

Ask(i) ==
    /\ calls[i].pc = "query"
    /\ \E found \in Newest : calls' = [calls EXCEPT ![i].pc = "asked", ![i].found = found]
    /\ UNCHANGED <<now, log, shown, load>>

AfterQueryAlways(found) == "sign"
AfterQuery(found) == IF found = NoEvent THEN "sign" ELSE "existing"

Definition(i) == [by |-> calls[i].by, call |-> i, at |-> now]

\* EOSE arrives.
Answered(i) ==
    /\ calls[i].pc = "asked"
    /\ LET pc == AfterQuery(calls[i].found)
       IN  /\ calls' = [calls EXCEPT ![i].pc = pc,
                                     ![i].event = IF pc = "sign" THEN Definition(i) ELSE @]
           /\ shown' = IF pc = "existing" THEN [shown EXCEPT ![calls[i].by] = calls[i].found]
                                          ELSE shown
    /\ UNCHANGED <<now, log, load>>

\* The signer, a key at hand or an extension that asks the user.
Sign(i, signs) ==
    /\ calls[i].pc = "sign"
    /\ calls' = [calls EXCEPT ![i].pc = IF signs THEN "publish" ELSE "failed"]
    /\ UNCHANGED <<now, log, shown, load>>

Send(i) ==
    /\ calls[i].pc = "publish"
    /\ calls' = [calls EXCEPT ![i].pc = "sent", ![i].wire = TRUE]
    /\ UNCHANGED <<now, log, shown, load>>

\* The relay stores the event or refuses it, its own rules or the Concierge's
\* policy saying so; the browser may have given up by then.
Handle(i, stores) ==
    /\ calls[i].wire
    /\ stores => Takes(calls[i].event)
    /\ log' = IF stores THEN Append(log, calls[i].event) ELSE log
    /\ calls' = [calls EXCEPT ![i].wire = FALSE,
                              ![i].pc = IF @ # "sent" THEN @
                                        ELSE IF stores THEN "ok" ELSE "refused"]
    /\ UNCHANGED <<now, shown, load>>

AcknowledgedOnceSent == {"sent", "ok"}
Acknowledged == {"ok"}

\* OK, true: the promise resolves, and the definition goes on the list.
Published(i) ==
    /\ calls[i].pc \in Acknowledged
    /\ calls' = [calls EXCEPT ![i].pc = "created"]
    /\ shown' = [shown EXCEPT ![calls[i].by] = calls[i].event]
    /\ UNCHANGED <<now, log, load>>

TimedUntilSent == {"query", "asked", "publish"}
Timed == {"query", "asked", "publish", "sent", "ok", "refused"}

\* The time-out, an error or the end of the socket; OK, false.
Fail(i) ==
    /\ calls[i].pc \in Timed
    /\ calls' = [calls EXCEPT ![i].pc = "failed"]
    /\ UNCHANGED <<now, log, shown, load>>

-----------------------------------------------------------------------------
(* The query of all beacons. *)

\* The list is emptied and filled by the answer.
LoadBegins(c) ==
    /\ load[c].pc = "off"
    /\ load' = [load EXCEPT ![c].pc = "query"]
    /\ shown' = [shown EXCEPT ![c] = NoEvent]
    /\ UNCHANGED <<now, log, calls>>

LoadAsks(c) ==
    /\ load[c].pc = "query"
    /\ \E found \in Newest : load' = [load EXCEPT ![c] = [pc |-> "asked", found |-> found]]
    /\ UNCHANGED <<now, log, calls, shown>>

LoadAnswered(c) ==
    /\ load[c].pc = "asked"
    /\ load' = [load EXCEPT ![c].pc = "done"]
    /\ shown' = IF load[c].found = NoEvent THEN shown ELSE [shown EXCEPT ![c] = load[c].found]
    /\ UNCHANGED <<now, log, calls>>

LoadFails(c) ==
    /\ load[c].pc \in {"query", "asked"}
    /\ load' = [load EXCEPT ![c].pc = "done"]
    /\ UNCHANGED <<now, log, calls, shown>>

Tick ==
    /\ now < MaxSeconds
    /\ now' = now + 1
    /\ UNCHANGED <<log, calls, shown, load>>

CallStep(i) ==
    \/ Ask(i) \/ Answered(i)
    \/ \E signs \in BOOLEAN : Sign(i, signs)
    \/ Send(i)
    \/ \E stores \in BOOLEAN : Handle(i, stores)
    \/ Published(i)
    \/ Fail(i)

LoadStep(c) == LoadBegins(c) \/ LoadAsks(c) \/ LoadAnswered(c) \/ LoadFails(c)

Next ==
    \/ \E c \in Clients : Begin(c) \/ LoadStep(c)
    \/ \E i \in DOMAIN calls : CallStep(i)
    \/ Tick

Spec == Init /\ [][Next]_vars

\* setTimeout fires, whatever the relay and the network do.
FairSpec == Spec /\ \A i \in 1..MaxCalls : WF_vars(i \in DOMAIN calls /\ Fail(i))

-----------------------------------------------------------------------------
\* Whoever begins to light a beacon when the relay has a definition of the
\* place, a late one of a call given up too, never adds another: retries and
\* latecomers open the existing beacon.
LaterCallsAddNothing ==
    \A k \in DOMAIN log : calls[log[k].call].began = 0

\* Nobody is shown a beacon that the relay never stored.
ShownWasStored ==
    \A c \in Clients : shown[c] # NoEvent => \E k \in DOMAIN log : log[k] = shown[c]

\* Every call of the relay ends; only the signer may keep createBeacon waiting.
CallsEnd ==
    \A i \in 1..MaxCalls :
        (i \in DOMAIN calls) ~> (i \in DOMAIN calls /\ calls[i].pc \in Ended \cup {"sign"})
=============================================================================
