--------------------------- MODULE BeaconsProofs ---------------------------
(* Only calls that overlap add definitions, for every number of browsers,  *)
(* calls and seconds.                                                      *)
EXTENDS Beacons, TLAPS

\* What a call that began after a definition was stored can have come to: it
\* is told of a definition or of none at all, and it never signs one.
Latecomer(call) ==
    /\ call.pc \in {"query", "asked", "existing", "failed"}
    /\ call.pc = "asked" => call.found # NoEvent
    /\ ~call.wire

\* What is known of call i when the relay has stored n definitions.
Judged(i, call, n) ==
    /\ call.began \in 0..n
    /\ call.began > 0 => Latecomer(call)
    /\ call.wire \/ call.pc \in {"publish", "sent", "ok", "sign"}
         => call.event \in Event /\ call.event.call = i

CallsJudged == \A i \in DOMAIN calls : Judged(i, calls[i], Len(log))

LogNamesCalls == \A k \in DOMAIN log : log[k].call \in DOMAIN calls

BeaconInv == TypeOK /\ CallsJudged /\ LogNamesCalls /\ LaterCallsAddNothing

-----------------------------------------------------------------------------
\* "No definition" is not a definition.
LEMMA NoEventIsNone == NoEvent \notin Event
<1>1. SUFFICES ASSUME NoEvent \in Event PROVE FALSE
  OBVIOUS
<1>2. DOMAIN NoEvent = {"at"}
  BY DEF NoEvent
<1>3. DOMAIN NoEvent = {"by", "call", "at"}
  BY <1>1 DEF Event
<1> QED
  BY <1>2, <1>3

\* A relay that has stored a definition tells a query of one.
LEMMA NewestIsHeld ==
    ASSUME log \in Seq(Event), Len(log) > 0, NEW found \in Newest
    PROVE  found \in Event
<1>1. Len(log) \in Nat /\ DOMAIN log = 1..Len(log)
  OBVIOUS
<1>2. log[Len(log)] \in Held
  BY <1>1 DEF Held
<1>3. found \in Held
  BY <1>2 DEF Newest
<1> QED
  BY <1>3 DEF Held

\* A query is told of a definition, or of none.
LEMMA NewestType ==
    ASSUME log \in Seq(Event), NEW found \in Newest
    PROVE  found \in Event \cup {NoEvent}
BY DEF Newest, Held

\* Call i moves on, the others and the log stay as they are.
Moves(i) ==
    /\ \E next \in Call :
         /\ calls' = [calls EXCEPT ![i] = next]
         /\ next.began = calls[i].began
         /\ Judged(i, next, Len(log))
    /\ shown' \in [Clients -> Event \cup {NoEvent}]
    /\ UNCHANGED <<now, log, load>>

\* A call that moves to what it may be keeps the invariant.
LEMMA MoveKeepsInv ==
    ASSUME BeaconInv, NEW i \in DOMAIN calls, Moves(i)
    PROVE  BeaconInv'
<1> USE DEF BeaconInv
<1>1. PICK next \in Call : /\ calls' = [calls EXCEPT ![i] = next]
                           /\ next.began = calls[i].began
                           /\ Judged(i, next, Len(log))
  BY DEF Moves
<1>2. /\ calls \in Seq(Call) /\ calls' \in Seq(Call)
      /\ Len(calls') = Len(calls) /\ DOMAIN calls' = DOMAIN calls
      /\ \A k \in DOMAIN calls : calls'[k] = IF k = i THEN next ELSE calls[k]
  BY <1>1 DEF TypeOK
<1>3. TypeOK'
  BY <1>2 DEF TypeOK, Moves
<1>4. CallsJudged'
  BY <1>1, <1>2 DEF CallsJudged, Moves
<1>5. LogNamesCalls' /\ LaterCallsAddNothing'
  BY <1>1, <1>2 DEF LogNamesCalls, LaterCallsAddNothing, Moves
<1> QED
  BY <1>3, <1>4, <1>5

\* The relay's turn: it stores the event of a call that began when it had
\* none, or drops it.
LEMMA HandleKeepsInv ==
    ASSUME BeaconInv, NEW i \in DOMAIN calls, NEW stores \in BOOLEAN, Handle(i, stores)
    PROVE  BeaconInv'
<1> USE DEF BeaconInv
<1> DEFINE next == [calls[i] EXCEPT !.wire = FALSE,
                                    !.pc = IF @ # "sent" THEN @
                                           ELSE IF stores THEN "ok" ELSE "refused"]
<1>1. /\ log \in Seq(Event) /\ calls \in Seq(Call) /\ calls[i] \in Call
      /\ Len(log) \in Nat /\ calls[i].wire
  BY DEF TypeOK, Handle
<1>2. Judged(i, calls[i], Len(log))
  BY DEF CallsJudged
<1>3. calls[i].event \in Event /\ calls[i].event.call = i /\ calls[i].began = 0
  BY <1>1, <1>2 DEF Judged, Latecomer, Call
<1>4. next \in Call /\ next.began = 0 /\ next.event = calls[i].event
  BY <1>1, <1>3 DEF Call, Ended
<1>5. calls' = [calls EXCEPT ![i] = next]
  BY <1>1 DEF Handle, Call
<1>6. \A n \in Nat : Judged(i, next, n)
  BY <1>3, <1>4 DEF Judged
<1> HIDE DEF next
<1>7. /\ calls' \in Seq(Call)
      /\ Len(calls') = Len(calls) /\ DOMAIN calls' = DOMAIN calls
      /\ \A k \in DOMAIN calls : calls'[k] = IF k = i THEN next ELSE calls[k]
  BY <1>1, <1>4, <1>5
<1>8. /\ log' \in Seq(Event) /\ Len(log') \in Nat /\ Len(log') >= Len(log)
      /\ \A k \in DOMAIN log' :
           \/ k \in DOMAIN log /\ log'[k] = log[k]
           \/ log'[k] = calls[i].event
  BY <1>1, <1>3 DEF Handle
<1>9. TypeOK'
  BY <1>7, <1>8 DEF TypeOK, Handle
<1>10. CallsJudged'
  <2> SUFFICES ASSUME NEW k \in DOMAIN calls PROVE Judged(k, calls'[k], Len(log'))
    BY <1>7 DEF CallsJudged
  <2>1. CASE k = i
    BY <1>6, <1>7, <1>8, <2>1
  <2>2. CASE k # i
    BY <1>1, <1>7, <1>8, <2>2 DEF CallsJudged, Judged
  <2> QED
    BY <2>1, <2>2
<1>11. LogNamesCalls'
  BY <1>3, <1>7, <1>8 DEF LogNamesCalls
<1>12. LaterCallsAddNothing'
  BY <1>3, <1>4, <1>7, <1>8 DEF LogNamesCalls, LaterCallsAddNothing
<1> QED
  BY <1>9, <1>10, <1>11, <1>12

\* A step of a call keeps the invariant: a latecomer's query finds something.
LEMMA CallStepKeepsInv ==
    ASSUME BeaconInv, NEW i \in DOMAIN calls, CallStep(i)
    PROVE  BeaconInv'
<1> USE DEF BeaconInv
<1>1. /\ log \in Seq(Event) /\ calls \in Seq(Call) /\ now \in 0..MaxSeconds
      /\ calls[i] \in Call /\ Len(log) \in Nat /\ i \in 1..MaxCalls
      /\ shown \in [Clients -> Event \cup {NoEvent}]
  BY BeaconAssumption DEF TypeOK
<1>2. Judged(i, calls[i], Len(log))
  BY DEF CallsJudged
<1>3. CASE Ask(i)
  <2>1. PICK found \in Newest : calls' = [calls EXCEPT ![i].pc = "asked", ![i].found = found]
    BY <1>3 DEF Ask
  <2> DEFINE next == [calls[i] EXCEPT !.pc = "asked", !.found = found]
  <2>2. found \in Event \cup {NoEvent}
    BY <1>1, NewestType
  <2>3. next \in Call /\ next.began = calls[i].began /\ next.pc = "asked"
        /\ next.found = found /\ next.wire = calls[i].wire /\ next.event = calls[i].event
    BY <1>1, <2>2 DEF Call
  <2>4. calls[i].began > 0 => found # NoEvent
    BY <1>1, <1>2, NewestIsHeld, NoEventIsNone DEF Judged
  <2>5. Judged(i, next, Len(log))
    BY <1>1, <1>2, <1>3, <2>3, <2>4 DEF Judged, Latecomer, Ask
  <2>6. calls' = [calls EXCEPT ![i] = next]
    BY <1>1, <2>1 DEF Call
  <2> HIDE DEF next
  <2>7. Moves(i)
    BY <1>1, <1>3, <2>3, <2>5, <2>6 DEF Moves, Ask
  <2> QED
    BY <2>7, MoveKeepsInv
<1>4. CASE Answered(i)
  <2> DEFINE pc == AfterQuery(calls[i].found)
             next == [calls[i] EXCEPT !.pc = pc,
                                      !.event = IF pc = "sign" THEN Definition(i) ELSE @]
  <2>1. Definition(i) \in Event /\ Definition(i).call = i
    BY <1>1 DEF Definition, Event, Call
  <2>2. pc \in {"sign", "existing"} /\ (pc = "sign" <=> calls[i].found = NoEvent)
    BY DEF AfterQuery
  <2>3. next \in Call /\ next.began = calls[i].began /\ next.pc = pc
        /\ next.found = calls[i].found /\ next.wire = calls[i].wire
        /\ next.event = IF pc = "sign" THEN Definition(i) ELSE calls[i].event
    <3> HIDE DEF pc
    <3> QED
      BY <1>1, <2>1, <2>2 DEF Call, Ended
  <2>4. calls' = [calls EXCEPT ![i] = next]
    BY <1>1, <1>4 DEF Answered, Call
  <2>5. calls[i].pc = "asked" /\ UNCHANGED <<now, log, load>>
    BY <1>4 DEF Answered
  <2>6. shown' \in [Clients -> Event \cup {NoEvent}]
    BY <1>1, <1>4 DEF Answered, Call
  <2> HIDE DEF next, pc
  <2>7. Judged(i, next, Len(log))
    BY <1>2, <2>1, <2>2, <2>3, <2>5 DEF Judged, Latecomer
  <2>8. Moves(i)
    BY <2>3, <2>4, <2>5, <2>6, <2>7 DEF Moves
  <2> QED
    BY <2>8, MoveKeepsInv
<1>5. ASSUME NEW signs \in BOOLEAN, Sign(i, signs) PROVE Moves(i)
  <2> DEFINE next == [calls[i] EXCEPT !.pc = IF signs THEN "publish" ELSE "failed"]
  <2>1. next \in Call /\ next.began = calls[i].began /\ next.wire = calls[i].wire
        /\ next.event = calls[i].event /\ next.pc \in {"publish", "failed"}
    BY <1>1 DEF Call, Ended
  <2>2. calls' = [calls EXCEPT ![i] = next]
    BY <1>1, <1>5 DEF Sign, Call
  <2> HIDE DEF next
  <2>3. Judged(i, next, Len(log))
    BY <1>2, <1>5, <2>1 DEF Judged, Latecomer, Sign
  <2> QED
    BY <1>1, <1>5, <2>1, <2>2, <2>3 DEF Moves, Sign
<1>6. ASSUME Send(i) PROVE Moves(i)
  <2> DEFINE next == [calls[i] EXCEPT !.pc = "sent", !.wire = TRUE]
  <2>1. next \in Call /\ next.began = calls[i].began /\ next.event = calls[i].event
    BY <1>1 DEF Call
  <2>2. calls' = [calls EXCEPT ![i] = next]
    BY <1>1, <1>6 DEF Send, Call
  <2> HIDE DEF next
  <2>3. Judged(i, next, Len(log))
    BY <1>2, <1>6, <2>1 DEF Judged, Latecomer, Send
  <2> QED
    BY <1>1, <1>6, <2>1, <2>2, <2>3 DEF Moves, Send
<1>7. ASSUME Published(i) PROVE Moves(i)
  <2> DEFINE next == [calls[i] EXCEPT !.pc = "created"]
  <2>1. next \in Call /\ next.began = calls[i].began /\ next.wire = calls[i].wire
        /\ next.event = calls[i].event /\ next.pc = "created"
    BY <1>1 DEF Call, Ended
  <2>2. calls' = [calls EXCEPT ![i] = next]
    BY <1>1, <1>7 DEF Published, Call
  <2> HIDE DEF next
  <2>3. Judged(i, next, Len(log))
    BY <1>2, <1>7, <2>1 DEF Judged, Latecomer, Published, Acknowledged
  <2>4. shown' \in [Clients -> Event \cup {NoEvent}]
    BY <1>1, <1>7 DEF Published, Call
  <2> QED
    BY <1>1, <1>7, <2>1, <2>2, <2>3, <2>4 DEF Moves, Published
<1>8. ASSUME Fail(i) PROVE Moves(i)
  <2> DEFINE next == [calls[i] EXCEPT !.pc = "failed"]
  <2>1. next \in Call /\ next.began = calls[i].began /\ next.wire = calls[i].wire
        /\ next.event = calls[i].event /\ next.pc = "failed"
    BY <1>1 DEF Call, Ended
  <2>2. calls' = [calls EXCEPT ![i] = next]
    BY <1>1, <1>8 DEF Fail, Call
  <2> HIDE DEF next
  <2>3. Judged(i, next, Len(log))
    BY <1>2, <2>1 DEF Judged, Latecomer
  <2> QED
    BY <1>1, <1>8, <2>1, <2>2, <2>3 DEF Moves, Fail
<1> QED
  BY <1>3, <1>4, <1>5, <1>6, <1>7, <1>8, HandleKeepsInv, MoveKeepsInv DEF CallStep

\* So do a new call, the query of all beacons and the clock.
LEMMA OtherStepKeepsInv ==
    ASSUME BeaconInv,
           \/ \E c \in Clients : Begin(c) \/ LoadStep(c)
           \/ Tick
           \/ UNCHANGED vars
    PROVE  BeaconInv'
<1> USE DEF BeaconInv
<1>1. /\ log \in Seq(Event) /\ calls \in Seq(Call) /\ now \in 0..MaxSeconds
      /\ Len(log) \in Nat /\ Len(calls) \in Nat /\ Len(calls) <= MaxCalls
      /\ shown \in [Clients -> Event \cup {NoEvent}] /\ load \in [Clients -> Load]
  BY BeaconAssumption DEF TypeOK
<1>2. ASSUME NEW c \in Clients, Begin(c) PROVE BeaconInv'
  <2> DEFINE new == [by |-> c, began |-> Len(log), wire |-> FALSE, pc |-> "query",
                     found |-> NoEvent, event |-> NoEvent]
  <2>1. new \in Call /\ Judged(Len(calls) + 1, new, Len(log))
    BY <1>1, <1>2 DEF Call, Judged, Latecomer
  <2>2. calls' = Append(calls, new)
    BY <1>2 DEF Begin
  <2> HIDE DEF new
  <2>3. /\ calls' \in Seq(Call) /\ Len(calls') = Len(calls) + 1
        /\ DOMAIN calls \subseteq DOMAIN calls'
        /\ \A k \in DOMAIN calls' : calls'[k] = IF k \in DOMAIN calls THEN calls[k] ELSE new
        /\ \A k \in DOMAIN calls' : k \in DOMAIN calls \/ k = Len(calls) + 1
    BY <1>1, <2>1, <2>2
  <2>4. UNCHANGED <<now, log, shown, load>> /\ Len(calls) < MaxCalls
    BY <1>2 DEF Begin
  <2>5. TypeOK'
    BY <1>1, <2>3, <2>4, BeaconAssumption DEF TypeOK
  <2>6. CallsJudged'
    BY <2>1, <2>3, <2>4 DEF CallsJudged
  <2>7. LogNamesCalls' /\ LaterCallsAddNothing'
    BY <2>3, <2>4 DEF LogNamesCalls, LaterCallsAddNothing
  <2> QED
    BY <2>5, <2>6, <2>7
<1>3. ASSUME UNCHANGED <<log, calls>>, TypeOK' PROVE BeaconInv'
  BY <1>3 DEF CallsJudged, LogNamesCalls, LaterCallsAddNothing
<1>4. ASSUME NEW c \in Clients, LoadStep(c) PROVE BeaconInv'
  <2>1. UNCHANGED <<now, log, calls>>
    BY <1>4 DEF LoadStep, LoadBegins, LoadAsks, LoadAnswered, LoadFails
  <2>2. load[c] \in Load
    BY <1>1
  <2>3. load' \in [Clients -> Load]
    BY <1>1, <1>4, <2>2, NewestType DEF LoadStep, LoadBegins, LoadAsks, LoadAnswered, LoadFails, Load
  <2>4. shown' \in [Clients -> Event \cup {NoEvent}]
    BY <1>1, <1>4, <2>2 DEF LoadStep, LoadBegins, LoadAsks, LoadAnswered, LoadFails, Load
  <2>5. TypeOK'
    BY <2>1, <2>3, <2>4 DEF TypeOK
  <2> QED
    BY <1>3, <2>1, <2>5
<1>5. CASE Tick
  <2>1. TypeOK'
    BY <1>1, <1>5, BeaconAssumption DEF Tick, TypeOK
  <2> QED
    BY <1>3, <1>5, <2>1 DEF Tick
<1>6. CASE UNCHANGED vars
  BY <1>3, <1>6 DEF vars, TypeOK
<1> QED
  BY <1>2, <1>4, <1>5, <1>6

\* The invariant holds in every state.
LEMMA BeaconInvariant == Spec => []BeaconInv
<1>1. Init => BeaconInv
  BY BeaconAssumption DEF Init, BeaconInv, TypeOK, Load, CallsJudged, LogNamesCalls,
       LaterCallsAddNothing
<1>2. BeaconInv /\ [Next]_vars => BeaconInv'
  BY CallStepKeepsInv, OtherStepKeepsInv DEF Next
<1> QED
  BY <1>1, <1>2, PTL DEF Spec

\* The state has its type, for every number of browsers, calls and seconds.
THEOREM BeaconTypesAreKept == Spec => []TypeOK
BY BeaconInvariant, PTL DEF BeaconInv

\* Whoever begins to light a beacon after the relay stored a definition of the
\* place adds none, however late that one came and whatever failed before.
THEOREM LatecomersAddNothing == Spec => []LaterCallsAddNothing
BY BeaconInvariant, PTL DEF BeaconInv

-----------------------------------------------------------------------------
(* What is shown. *)

InLog(event) == \E k \in DOMAIN log : log[k] = event
InNextLog(event) == \E k \in DOMAIN log' : log'[k] = event

\* What a query brings was stored, and so was what is acknowledged.
AnswersWereStored ==
    /\ \A i \in DOMAIN calls :
         /\ calls[i].found = NoEvent \/ InLog(calls[i].found)
         /\ calls[i].pc = "ok" => InLog(calls[i].event)
    /\ \A c \in Clients : load[c].found = NoEvent \/ InLog(load[c].found)

\* Nothing is taken from the log.
LEMMA LogKeeps == ASSUME BeaconInv, [Next]_vars, NEW event, InLog(event) PROVE InNextLog(event)
<1>1. log \in Seq(Event) /\ calls \in Seq(Call)
  BY DEF BeaconInv, TypeOK
<1>2. ASSUME UNCHANGED log PROVE InNextLog(event)
  BY <1>2 DEF InLog, InNextLog
<1>3. ASSUME NEW i \in DOMAIN calls, NEW stores \in BOOLEAN, Handle(i, stores)
      PROVE  InNextLog(event)
  <2>1. \A k \in DOMAIN log : k \in DOMAIN log' /\ log'[k] = log[k]
    BY <1>1, <1>3 DEF Handle
  <2> QED
    BY <2>1 DEF InLog, InNextLog
<1>4. UNCHANGED log \/ \E i \in DOMAIN calls, stores \in BOOLEAN : Handle(i, stores)
  BY DEF Next, vars, Begin, LoadStep, LoadBegins, LoadAsks, LoadAnswered, LoadFails, Tick,
         CallStep, Ask, Answered, Sign, Send, Published, Fail
<1> QED
  BY <1>2, <1>3, <1>4

\* What a step does to the answers and the lists: what is new there was stored.
LEMMA AnswersStep ==
    ASSUME BeaconInv, AnswersWereStored, ShownWasStored, [Next]_vars
    PROVE  /\ \A k \in DOMAIN calls' :
                /\ calls'[k].found = NoEvent \/ InLog(calls'[k].found) \/ InNextLog(calls'[k].found)
                /\ calls'[k].pc = "ok" => InLog(calls'[k].event) \/ InNextLog(calls'[k].event)
           /\ \A c \in Clients : load'[c].found = NoEvent \/ InLog(load'[c].found)
           /\ \A c \in Clients : shown'[c] = NoEvent \/ InLog(shown'[c])
<1> DEFINE CallsOk == \A k \in DOMAIN calls' :
                        /\ \/ calls'[k].found = NoEvent
                           \/ InLog(calls'[k].found) \/ InNextLog(calls'[k].found)
                        /\ calls'[k].pc = "ok" => InLog(calls'[k].event) \/ InNextLog(calls'[k].event)
           LoadOk == \A c \in Clients : load'[c].found = NoEvent \/ InLog(load'[c].found)
           ShownOk == \A c \in Clients : shown'[c] = NoEvent \/ InLog(shown'[c])
<1>1. /\ log \in Seq(Event) /\ calls \in Seq(Call) /\ Len(calls) \in Nat
      /\ shown \in [Clients -> Event \cup {NoEvent}] /\ load \in [Clients -> Load]
      /\ \A i \in DOMAIN calls : calls[i] \in Call
  BY DEF BeaconInv, TypeOK
<1>2. \A found \in Newest : found = NoEvent \/ InLog(found)
  BY DEF Newest, Held, InLog
<1>3. \A c \in Clients : shown[c] = NoEvent \/ InLog(shown[c])
  BY DEF ShownWasStored, InLog
<1>4. /\ \A k \in DOMAIN calls :
           /\ calls[k].found = NoEvent \/ InLog(calls[k].found)
           /\ calls[k].pc = "ok" => InLog(calls[k].event)
      /\ \A c \in Clients : load[c].found = NoEvent \/ InLog(load[c].found)
  BY DEF AnswersWereStored
<1>5. /\ UNCHANGED calls => CallsOk
      /\ UNCHANGED load => LoadOk
      /\ UNCHANGED shown => ShownOk
  BY <1>3, <1>4
<1>6. ASSUME NEW i \in DOMAIN calls, CallStep(i) PROVE CallsOk /\ LoadOk /\ ShownOk
  <2>1. calls[i] \in Call /\ LoadOk
    BY <1>1, <1>5, <1>6 DEF CallStep, Ask, Answered, Sign, Send, Handle, Published, Fail
  <2>2. CASE Ask(i)
    BY <1>1, <1>2, <1>4, <1>5, <2>1, <2>2 DEF Ask, Call
  <2>3. CASE Answered(i)
    <3>1. AfterQuery(calls[i].found) # "ok"
      BY DEF AfterQuery
    <3>2. CallsOk
      BY <1>1, <1>4, <2>1, <2>3, <3>1 DEF Answered, Call
    <3>3. ShownOk
      BY <1>1, <1>3, <1>4, <2>1, <2>3 DEF Answered, Call
    <3> QED
      BY <2>1, <3>2, <3>3
  <2>4. ASSUME NEW signs \in BOOLEAN, Sign(i, signs) PROVE CallsOk /\ ShownOk
    BY <1>1, <1>4, <1>5, <2>1, <2>4 DEF Sign, Call
  <2>5. CASE Send(i)
    BY <1>1, <1>4, <1>5, <2>1, <2>5 DEF Send, Call
  <2>6. ASSUME NEW stores \in BOOLEAN, Handle(i, stores) PROVE CallsOk /\ ShownOk
    <3>1. stores => InNextLog(calls[i].event)
      <4> SUFFICES ASSUME stores PROVE InNextLog(calls[i].event)
        OBVIOUS
      <4>1. log' = Append(log, calls[i].event)
        BY <2>6 DEF Handle
      <4>2. Len(log) + 1 \in DOMAIN log' /\ log'[Len(log) + 1] = calls[i].event
        BY <1>1, <4>1
      <4> QED
        BY <4>2 DEF InNextLog
    <3>2. /\ DOMAIN calls' = DOMAIN calls
          /\ \A k \in DOMAIN calls :
               /\ calls'[k].found = calls[k].found /\ calls'[k].event = calls[k].event
               /\ calls'[k].pc = "ok" => calls[k].pc = "ok" \/ (k = i /\ stores)
      BY <1>1, <2>1, <2>6 DEF Handle, Call
    <3>3. CallsOk
      BY <1>4, <3>1, <3>2
    <3> QED
      BY <1>5, <2>6, <3>3 DEF Handle
  <2>7. CASE Published(i)
    BY <1>1, <1>3, <1>4, <2>1, <2>7 DEF Published, Acknowledged, Call
  <2>8. CASE Fail(i)
    BY <1>1, <1>4, <1>5, <2>1, <2>8 DEF Fail, Call
  <2> QED
    BY <1>6, <2>1, <2>2, <2>3, <2>4, <2>5, <2>6, <2>7, <2>8 DEF CallStep
<1>7. ASSUME NEW c \in Clients, Begin(c) PROVE CallsOk /\ LoadOk /\ ShownOk
  BY <1>1, <1>4, <1>5, <1>7 DEF Begin
<1>8. ASSUME NEW c \in Clients, LoadStep(c) PROVE CallsOk /\ LoadOk /\ ShownOk
  <2>1. load[c] \in Load /\ CallsOk
    BY <1>1, <1>5, <1>8 DEF LoadStep, LoadBegins, LoadAsks, LoadAnswered, LoadFails
  <2>2. CASE LoadBegins(c)
    BY <1>1, <1>3, <1>4, <2>1, <2>2 DEF LoadBegins, Load
  <2>3. CASE LoadAsks(c)
    BY <1>1, <1>2, <1>4, <1>5, <2>1, <2>3 DEF LoadAsks
  <2>4. CASE LoadAnswered(c)
    BY <1>1, <1>3, <1>4, <2>1, <2>4 DEF LoadAnswered, Load
  <2>5. CASE LoadFails(c)
    BY <1>1, <1>4, <1>5, <2>1, <2>5 DEF LoadFails, Load
  <2> QED
    BY <1>8, <2>1, <2>2, <2>3, <2>4, <2>5 DEF LoadStep
<1>9. CASE Tick \/ UNCHANGED vars
  BY <1>5, <1>9 DEF Tick, vars
<1> QED
  BY <1>6, <1>7, <1>8, <1>9 DEF Next

\* Nobody is shown a beacon the relay never stored: not before the answer to
\* the publication, and not after a late answer to a query.
THEOREM OnlyStoredIsShown == Spec => []ShownWasStored
<1>1. Init => AnswersWereStored /\ ShownWasStored
  BY DEF Init, AnswersWereStored, ShownWasStored
<1>2. BeaconInv /\ AnswersWereStored /\ ShownWasStored /\ [Next]_vars
        => AnswersWereStored' /\ ShownWasStored'
  <2> SUFFICES ASSUME BeaconInv, AnswersWereStored, ShownWasStored, [Next]_vars
               PROVE  AnswersWereStored' /\ ShownWasStored'
    OBVIOUS
  <2>1. \A event : InLog(event) => InNextLog(event)
    BY LogKeeps
  <2>2. AnswersWereStored'
    BY <2>1, AnswersStep DEF AnswersWereStored, InLog, InNextLog
  <2>3. ShownWasStored'
    BY <2>1, AnswersStep DEF ShownWasStored, InNextLog
  <2> QED
    BY <2>2, <2>3
<1> QED
  BY <1>1, <1>2, BeaconInvariant, PTL DEF Spec
=============================================================================
