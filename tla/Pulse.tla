------------------------------- MODULE Pulse -------------------------------
(***************************************************************************)
(* The feed page of the client (routes/pulse-route.tsx): as long as it is  *)
(* shown, the relays the user reads are asked for their newest notes again *)
(* and again (pulse-relay-rollup.ts), a few at a time, the current relay   *)
(* first, later the more often a relay failed; what they answered last is  *)
(* merged into one feed (data.ts).  Whenever the relay list changes, the   *)
(* rollup is stopped and a new one started, which knows nothing of the     *)
(* questions of the old one.                                               *)
(***************************************************************************)
EXTENDS Integers, SequencesExt, FiniteSetsExt

CONSTANTS
    RelayList,      \* every relay that may be in the relay list, in its order
    Lists,          \* the sets of relays the list may have at a time
    Here,           \* relayURL, the current relay
    MaxConcurrent,  \* queries at a time (4)
    Cooldown,       \* after an answer (60 s)
    BackoffBase,    \* after the first failure (15 s)
    BackoffMax,     \* after many failures (300 s)
    Notes,          \* records with id, author, spot, at and says
    Answers,        \* what a relay may answer: sequences of notes
    Followed,       \* followedPubkeys
    Window          \* pulseAggregationWindowMs

Relays == ToSet(RelayList)

ASSUME PulseAssumption ==
    /\ RelayList \in Seq(Relays) /\ Here \in Relays /\ Lists \subseteq SUBSET Relays
    /\ {MaxConcurrent, Cooldown, BackoffBase, BackoffMax} \subseteq Nat \ {0}
    /\ BackoffBase <= BackoffMax
    /\ Answers \subseteq Seq(Notes)
    /\ \A n \in Notes : n.at \in Nat
    /\ Window \in Nat

VARIABLES
    readable,  \* the relays of the list with inbox; none before the bootstrap
    rollup,    \* the rollup that is running
    queries,   \* the queries under way, in Query
    fetched    \* liveRelayNotesByUrl

pulse == <<readable, rollup, queries, fetched>>

\* asked is "stopped" for a query of a rollup whose stop() was called.  What it
\* brings is dropped, so of several for one relay one is enough.
Query == [relay: Relays, asked: {"running", "stopped"}]

\* A relay is due, it waits, or a query of it is under way.  line is the place of
\* a relay among those that are due, in the order of nextRunAt and of the list;
\* backoff what it waited after its last failure; timer the time until the pump
\* runs.
Off == -1
NoRollup == [on |-> FALSE, line |-> [r \in Relays |-> 0], wait |-> [r \in Relays |-> 0],
             backoff |-> [r \in Relays |-> 0], timer |-> Off]
Empty == [r \in {} |-> {}]

-----------------------------------------------------------------------------
(* The rollup. *)

\* computePulseRelayBackoffMs: the base after the first failure, twice as long
\* after each that follows, and never longer than the maximum.
Backoff(last) == IF last = 0 THEN BackoffBase ELSE Min({BackoffMax, 2 * last})

Due(ru) == {r \in Relays : ru.line[r] > 0}
Waiting(ru) == {r \in readable : ru.wait[r] > 0}
InFlight(qs) == {q.relay : q \in {x \in qs : x.asked = "running"}}

\* The relays rs in a line in the order of their numbers.
InLine(rs, number) ==
    [r \in Relays |-> IF r \in rs THEN Cardinality({s \in rs : number[s] <= number[r]}) ELSE 0]
Index == [r \in Relays |-> CHOOSE i \in DOMAIN RelayList : RelayList[i] = r]

\* compareRelayStates
Sooner(line, r, s) == s # Here /\ (r = Here \/ line[r] < line[s])

OnlyWhenDue(ru) == IF Due(ru) # {} THEN 0 ELSE Off
\* schedulePump: the soonest nextRunAt of those no query is under way of
NextTimer(ru) ==
    IF Due(ru) # {} THEN 0
    ELSE IF Waiting(ru) # {} THEN Min({ru.wait[r] : r \in Waiting(ru)})
    ELSE Off

\* pump, after the queries qs are left and the relays of ru have changed.
Pump(ru, qs) ==
    LET due   == Due(ru)
        slots == MaxConcurrent - Cardinality(InFlight(qs))
        asked == {r \in due : Cardinality({s \in due : Sooner(ru.line, s, r)}) < slots}
        ru1   == [ru EXCEPT !.line = InLine(due \ asked, @)]
    IN  /\ rollup' = [ru1 EXCEPT !.timer = NextTimer(ru1)]
        /\ queries' = qs \cup [relay: asked, asked: {"running"}]

\* stop()
StopsAsking == queries' = {[q EXCEPT !.asked = "stopped"] : q \in queries}

\* The effect of the page: a rollup is started for the relays rs in the place of
\* the one that was running, and what was fetched of others is dropped; without
\* relays there is none.
Starts(rs) ==
    /\ readable' = rs
    /\ IF rs = {}
         THEN rollup' = NoRollup /\ fetched' = Empty
         ELSE /\ rollup' = [NoRollup EXCEPT !.on = TRUE, !.timer = 0,
                              !.line = InLine(rs, Index)]
              /\ fetched' = [r \in DOMAIN fetched \cap rs |-> fetched[r]]
    /\ StopsAsking

\* The page is left.
Stops ==
    /\ rollup' = NoRollup /\ fetched' = Empty
    /\ StopsAsking
    /\ UNCHANGED readable

\* The relays that become due get in line in the order of the list.
TimePasses ==
    /\ Waiting(rollup) # {} \/ rollup.timer > 0
    /\ LET new    == {r \in readable : rollup.wait[r] = 1}
           number == [r \in Relays |-> IF r \in new THEN Cardinality(Relays) + Index[r]
                                       ELSE rollup.line[r]]
       IN  rollup' = [rollup EXCEPT !.wait = [r \in Relays |-> Max({@[r] - 1, 0})],
                                    !.line = InLine(Due(rollup) \cup new, number),
                                    !.timer = IF @ > 0 THEN @ - 1 ELSE @]
    /\ UNCHANGED <<readable, queries, fetched>>

TimerFires ==
    /\ rollup.timer = 0
    /\ Pump(rollup, queries)
    /\ UNCHANGED <<readable, fetched>>

NeverStopped(q) == FALSE
Stopped(q) == q.asked = "stopped"

Settles(q, wait, backoff) ==
    IF Stopped(q)
      THEN queries' = queries \ {q} /\ UNCHANGED rollup
      ELSE Pump([rollup EXCEPT !.wait[q.relay] = wait, !.backoff[q.relay] = backoff],
                queries \ {q})

\* The answers of one relay are taken for new ones only if they differ.
Answered(q) ==
    /\ q \in queries
    /\ Settles(q, Cooldown, 0)
    /\ IF Stopped(q) THEN UNCHANGED fetched
       ELSE \E ns \in Answers :
              fetched' = [r \in DOMAIN fetched \cup {q.relay} |->
                             IF r = q.relay THEN ns ELSE fetched[r]]
    /\ UNCHANGED readable

\* No connection, a notice, or no answer within ten seconds.
Failed(q) ==
    /\ q \in queries
    /\ LET wait == Backoff(rollup.backoff[q.relay]) IN Settles(q, wait, wait)
    /\ UNCHANGED <<readable, fetched>>

PulseInit ==
    /\ readable = {} /\ rollup = NoRollup
    /\ queries = {} /\ fetched = Empty

InPulse ==
    \/ TimePasses \/ TimerFires
    \/ \E q \in queries : Answered(q) \/ Failed(q)

\* A timer fires, if it is not cleared; a query ends, by its time-out if by
\* nothing else; and time passes.
PulseFairness ==
    /\ WF_pulse(TimePasses) /\ WF_pulse(TimerFires)
    /\ \A r \in Relays :
         LET q == [relay |-> r, asked |-> "running"] IN WF_pulse(Answered(q) \/ Failed(q))

-----------------------------------------------------------------------------
(* The feed.  A list is the set of its items and what comes before what in  *)
(* it; an item is the nth note of the answer of a relay.                    *)

\* buildCrossRelayFeedItemsFromNotes; on the current relay without the notes
\* that are shown in the thread of a beacon
Items(beacons) ==
    {x \in UNION {{[relay |-> r, nth |-> i, note |-> fetched[r][i]] : i \in DOMAIN fetched[r]}
                     : r \in DOMAIN fetched \cap readable} :
        x.relay = Here => x.note.spot \notin beacons}

\* What was fetched, one relay after the other in the order of ranks, each
\* sorted by time: notes of one time stay as they were answered.
Before(ranks, x, y) ==
    \/ ranks[x.relay] < ranks[y.relay]
    \/ /\ x.relay = y.relay
       /\ x.note.at > y.note.at \/ (x.note.at = y.note.at /\ x.nth < y.nth)

\* The same, sorted by time.
Above(ranks, x, y) ==
    \/ x.note.at > y.note.at
    \/ x.note.at = y.note.at /\ Before(ranks, x, y)

FallbackKey(x) == <<x.relay, x.note.author, x.note.spot, x.note.at, x.note.says>>
Twins(x, y) == x.note.id = y.note.id \/ FallbackKey(x) = FallbackKey(y)

AlwaysNew(merged, x) == TRUE
NotSeen(merged, x) == \A y \in merged : ~Twins(y, x)

\* mergeCrossRelayFeedItems: an item is taken if none like it was taken before.
Merged(items, ranks) ==
    CHOOSE merged \in SUBSET items : \A x \in items :
        x \in merged <=> NotSeen({y \in merged : Before(ranks, y, x)}, x)

Lane(item) == IF item.note.author \in Followed THEN "Following" ELSE "For You"

\* shouldAggregatePulseFeedItem
OneBurst(first, item) ==
    /\ Lane(first) = Lane(item) /\ first.relay = item.relay
    /\ first.note.author = item.note.author /\ first.note.spot = item.note.spot
    /\ first.note.at - item.note.at <= Window

Lowest(items, ranks) == {x \in items : \A y \in items : ~Above(ranks, x, y)}

\* buildPulseFeedGroups: an item opens a group unless it is of one burst with
\* the one that opened the group above it.
Firsts(items, ranks) ==
    CHOOSE firsts \in SUBSET items : \A x \in items :
        x \in firsts <=>
            \A f \in Lowest({y \in firsts : Above(ranks, y, x)}, ranks) : ~OneBurst(f, x)

\* rankPulseFeedGroups: notes of relays have no score, so a lane keeps the order
\* of time but for the ids of groups of one time.
Feed(ranks, beacons) ==
    LET items  == Merged(Items(beacons), ranks)
        firsts == Firsts(items, ranks)
    IN  {[first |-> f, lane |-> Lane(f),
          posts |-> {x \in items : f \in Lowest({y \in firsts : y = x \/ Above(ranks, y, x)}, ranks)}]
            : f \in firsts}
=============================================================================
