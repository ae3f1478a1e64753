----------------------------- MODULE ClientView -----------------------------
(***************************************************************************)
(* The pages of the client that show what others did, in the shell that    *)
(* shows one of them at a time: the map and the chats with their threads   *)
(* (World) and the feed (Pulse).  Going from one page to another unmounts the first:       *)
(* what it asked for is answered to nobody, but for a beacon that is being *)
(* lit, whose answer still writes the address of the page shown then.      *)
(***************************************************************************)
EXTENDS World, Pulse

vars == <<world, pulse>>

Init == WorldInit /\ PulseInit

\* The effect of the feed page when it is mounted, and its cleanup.
Goes ==
    /\ \/ \E r \in Pages : Navigate(r) \/ \E s \in Spots \cup {None} : FollowLink(r, s, FALSE)
       \/ \E s \in Spots : FollowLink("world", s, TRUE)
    /\ IF at'.route = at.route THEN UNCHANGED pulse
       ELSE IF at'.route = "pulse" THEN Starts(readable)
       ELSE IF at.route = "pulse" THEN Stops
       ELSE UNCHANGED pulse

\* A bootstrap, or the relay list of the settings page.
RelayListChanges(rs) ==
    /\ IF at.route = "pulse" THEN Starts(rs)
       ELSE readable' = rs /\ UNCHANGED <<rollup, queries, fetched>>
    /\ UNCHANGED world

\* What may be answered when the user has gone elsewhere.
Late == Cardinality(uploads) + Cardinality(lights)
          + Cardinality({a \in asks : ~a.live}) + Cardinality({q \in queries : Stopped(q)})

Next ==
    /\ \/ InWorld /\ UNCHANGED pulse
       \/ InPulse /\ UNCHANGED world
       \/ Goes
       \/ \E rs \in Lists : RelayListChanges(rs)
    /\ Late' <= MaxLate

Spec == Init /\ [][Next]_vars
FairSpec == Spec /\ PulseFairness

-----------------------------------------------------------------------------
\* In whatever order the relays answered first, the feed lists the notes that
\* were fetched of the relays read now, but for those shown in the thread of a
\* beacon, and no others: an answer to a rollup that was stopped brings nothing
\* back.  Each note, or a twin of it, is listed in just one group of one lane, a
\* burst of one author below its newest note, and no twins are.
FeedListsEachOnce ==
    \A ranks \in {f \in [DOMAIN fetched -> 1..Cardinality(DOMAIN fetched)] : IsInjective(f)} :
        LET items  == Items(at.beacons)
            groups == Feed(ranks, at.beacons)
            listed == UNION {g.posts : g \in groups}
        IN  /\ listed \subseteq items
            /\ \A x \in items : \E y \in listed : Twins(y, x)
            /\ \A x, y \in listed : x # y => ~Twins(x, y)
            /\ \A x \in listed : \A g, h \in groups : x \in g.posts \cap h.posts => g = h
            /\ \A g \in groups : \A x \in g.posts :
                 Lane(x) = g.lane /\ OneBurst(g.first, x) /\ ~Above(ranks, x, g.first)

\* However often the rollup was stopped and started anew, whatever the queries of
\* the old ones brought meanwhile: just while the feed is shown, every relay that
\* is read is due, waits or is asked, one of the three; no more are asked than may
\* be; and unless all are asked the timer runs and fires before the first that
\* waits is due.
EveryRelayHasAPlace ==
    LET due     == Due(rollup)
        waiting == {r \in Relays : rollup.wait[r] > 0}
        asked   == InFlight(queries)
    IN  /\ rollup.on <=> at.route = "pulse" /\ readable # {}
        /\ due \cup waiting \cup asked = IF rollup.on THEN readable ELSE {}
        /\ due \cap waiting = {} /\ due \cap asked = {} /\ waiting \cap asked = {}
        /\ Cardinality(asked) <= MaxConcurrent
        /\ rollup.timer = Off <=> due \cup waiting = {}
        /\ \A r \in due \cup waiting : rollup.timer <= rollup.wait[r]

\* As long as the feed is shown, and unless the relay list changes for ever,
\* every relay that is read is asked again and again: neither the current relay,
\* which goes first, nor one that fails, nor the bound on the queries keeps
\* another one from its turn.
EveryRelayIsAskedAgain ==
    \/ []<><<\E rs \in Lists : RelayListChanges(rs)>>_vars
    \/ \A r \in Relays : []<>(rollup.on /\ r \in readable => r \in InFlight(queries))
=============================================================================
