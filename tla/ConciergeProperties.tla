------------------------ MODULE ConciergeProperties ------------------------
(***************************************************************************)
(* What the Concierge's decisions and writes promise.  A decision reads    *)
(* the store several times while others write to it, so it cannot be       *)
(* asked to be right "now"; each property asks that it was right at some   *)
(* version the store had while the request was in progress (its window).   *)
(***************************************************************************)
EXTENDS Concierge

Window(r) == req[r].began..Now
HasPassed(r) == req[r].pc \in Passed /\ req[r].q.person # Operator

\* Nobody is let through (policy.Evaluate) who was banned or suspended, in
\* the scope the capability is judged in, during the whole request.
AllowedHadStanding ==
    \A r \in Requests : HasPassed(r) =>
        \E v \in Window(r) :
            ~DeniedByStanding(Standing(rows, v, req[r].q.person, CapabilityScope(req[r].q.cap)))

\* Nobody is let through whom a block policy already named when the request
\* came in, whatever is written meanwhile.
AllowedWasNotBlocked ==
    \A r \in Requests : HasPassed(r) =>
        "block" \notin Assignments(rows, req[r].began, req[r].q.person,
                                   CapabilityScope(req[r].q.cap))

\* Whoever is let into a room was an owner or moderator, or the room let
\* them in, at some version of the window.
AllowedHadRoom ==
    \A r \in Requests : HasPassed(r) /\ req[r].q.cap \in MediaCapabilities =>
        \E v \in Window(r) :
            \/ HasPrivilegedRoomAccess(rows, v, req[r].q.person)
            \/ RoomAllows(rows, v, places, req[r].q.person, req[r].q.cap, req[r].q.room)

\* Whoever is let through met every gate that was in force at some version
\* of the window: the guest list at a version before it, proofs by now.
AllowedPassedGates ==
    \A r \in Requests : HasPassed(r) =>
        LET q == req[r].q
            guest(v) == GuestGateSatisfied(
                          UNION {Standing(rows, v, q.person, s) : s \in Scopes},
                          Assignments(rows, v, q.person, CapabilityScope(q.cap)))
        IN  \E v \in Window(r) : \A gate \in EffectiveGates(rows, v, q.cap) :
                IF gate = "guest_list" THEN \E w \in req[r].began..v : guest(w)
                                       ELSE HasProof(rows, Now, q.person, gate)

\* A token never carries a right (livekit roomGrants) that the store did not
\* back at some version of the window.
IssuedGrantsBacked ==
    \A r \in Requests : req[r].pc = "issued" =>
        \A right \in req[r].grants : \E v \in Window(r), p \in SUBSET places :
            right \in RoomGrants(rows, v, p, req[r].q.person, req[r].q.room)

\* A request during which nothing is written is answered as if it had looked
\* at the store once: it passes if and only if its person meets the rules, and
\* a token has just the rights of its room.  The token service looks standing
\* and room permission up again by rules of its own; it never refuses whom
\* Evaluate let through.
AnsweredAsAtOnce ==
    \A r \in Requests : req[r].began = Now =>
        LET q == req[r].q
            allowed == Allowed(rows, Now, places, q.person, q.cap, q.room)
        IN  /\ req[r].pc \in Passed => allowed
            /\ req[r].pc = "denied" => ~allowed
            /\ req[r].pc = "issued" =>
                 req[r].grants = RoomGrants(rows, Now, places, q.person, q.room)
            /\ req[r].pc # "failed"

\* What a person may have written about themselves on their own authority:
\* an OAuth proof, and the rights in the room of a beacon they created.
NeedsAuthority(row) == row.by # row.key \/ row.kind \notin {"permission", "proof"}

\* Authority is rooted in the operator: every row about another person,
\* every gate, assignment and standing (one's own promotion too) was written
\* by somebody who was the operator or effectively an owner or moderator of
\* relay.admin at an earlier version.
AuthorityRooted ==
    \A i \in DOMAIN rows : NeedsAuthority(rows[i]) =>
        \E v \in 0..(i - 1) : IsAdmin(rows, v, rows[i].by)
=============================================================================
