---------------------------- MODULE PolicyEngine ----------------------------
(***************************************************************************)
(* The policy service's lookups and the decision it takes from them.  Each *)
(* lookup is a function of the rows and of the version v they are read at, *)
(* so a decision that makes several lookups can be stated both at one      *)
(* version (Decision, below) and, in Concierge, with every lookup at a     *)
(* version of its own.                                                     *)
(***************************************************************************)
EXTENDS PolicyStore

CONSTANTS
    GeohashRooms,           \* rooms whose id ends in a geohash
    CohortRooms,            \* rooms whose beacon carries the cohort tag
    DefaultMediaJoinProofs  \* proofs required when no gate policy is stored

ASSUME EngineAssumption ==
    /\ GeohashRooms \subseteq Rooms
    /\ CohortRooms \subseteq GeohashRooms
    /\ DefaultMediaJoinProofs \subseteq ProofTypes

MediaCapabilities == {"media.join", "media.publish"}

CapabilityScope(cap) == IF cap \in MediaCapabilities THEN "media" ELSE "relay"

\* Both predicates take the set of flags of a standing row.
DeniedByStanding(standing) == standing \cap {"banned", "suspended"} # {}
IsPrivileged(standing) == standing \cap {"owner", "moderator"} # {}

-----------------------------------------------------------------------------
\* The newest row over all aliases: the preference for the exact scope holds
\* within an alias only, across aliases created_at alone decides.
StandingRow(rows, v, person, scope) ==
    Newest({LatestStanding(rows, v, person, f, scope) : f \in Aliases})

PermissionRow(rows, v, person, room) ==
    Newest({LatestRoomPermission(rows, v, person, f, room) : f \in Aliases})

Standing(rows, v, person, scope) ==
    LET i == StandingRow(rows, v, person, scope)
    IN  IF i = 0 THEN {"guest"} ELSE rows[i].says

Assignments(rows, v, person, scope) ==
    UNION {rows[i].says :
             i \in UNION {ActivePolicyAssignments(rows, v, person, f, scope) : f \in Aliases}}

HasProof(rows, v, person, proof) ==
    \E f \in Aliases : LatestProofVerification(rows, v, person, f, proof) # 0

\* The gates in force for a capability: "guest_list" and proof types.
EffectiveGates(rows, v, cap) ==
    LET i == LatestGatePolicy(rows, v, cap, CapabilityScope(cap))
    IN  IF i # 0 THEN rows[i].says
        ELSE IF cap = "media.join" THEN DefaultMediaJoinProofs ELSE {}

GuestGateSatisfied(standing, assigned) ==
    \/ standing \cap {"member", "trusted", "moderator", "owner"} # {}
    \/ "guest" \in assigned

IsAdmin(rows, v, person) ==
    person = Operator \/ IsPrivileged(Standing(rows, v, person, "relay.admin"))

\* Scopes a media lookup consults for an owner or moderator, in order.
HasPrivilegedRoomAccess(rows, v, person) ==
    \E scope \in {"media", "relay", "relay.admin"} :
        IsPrivileged(Standing(rows, v, person, scope))

\* What a room grants a subject without a permission row, when "places" are
\* the beacons in memory; {} when the room is not a beacon room at all.
DefaultRoomGrants(places, room) ==
    IF room \notin GeohashRooms THEN {}
    ELSE IF room \in places \cap CohortRooms THEN {"subscribe"}
    ELSE {"publish", "subscribe"}

\* The grants a LiveKit token carries; {"refused"} for ErrPermissionRequired.
RoomGrants(rows, v, places, person, room) ==
    LET i == PermissionRow(rows, v, person, room) IN
    IF person = Operator \/ HasPrivilegedRoomAccess(rows, v, person)
        THEN {"publish", "subscribe"}
    ELSE IF i # 0 THEN rows[i].says \cap {"publish", "subscribe"}
    ELSE IF room \in GeohashRooms THEN DefaultRoomGrants(places, room)
    ELSE {"refused"}

-----------------------------------------------------------------------------
\* Whether the room permission, or its absence, lets a media capability pass.
RoomAllows(rows, v, places, person, cap, room) ==
    LET i == PermissionRow(rows, v, person, room) IN
    IF i = 0 THEN cap = "media.join" /\ "subscribe" \in DefaultRoomGrants(places, room)
             ELSE (IF cap = "media.join" THEN "join" ELSE "publish") \in rows[i].says

GatesOpen(rows, v, person, cap, standing, assigned) ==
    \A gate \in EffectiveGates(rows, v, cap) :
        IF gate = "guest_list" THEN GuestGateSatisfied(standing, assigned)
                               ELSE HasProof(rows, v, person, gate)

\* Evaluate, as if every lookup were made at version v.
Allowed(rows, v, places, person, cap, room) ==
    LET own == Standing(rows, v, person, CapabilityScope(cap))
        privileged == cap \in MediaCapabilities /\ HasPrivilegedRoomAccess(rows, v, person)
        standing == IF privileged THEN own \cup {"moderator"} ELSE own
        assigned == Assignments(rows, v, person, CapabilityScope(cap))
    IN  \/ person = Operator
        \/ /\ ~DeniedByStanding(own)
           /\ "block" \notin assigned
           /\ \/ cap = "relay.publish"
              \/ privileged
              \/ RoomAllows(rows, v, places, person, cap, room)
           /\ GatesOpen(rows, v, person, cap, standing, assigned)
=============================================================================
