---------------------------- MODULE MCConcierge ----------------------------
(* Instances of Concierge for TLC. *)
EXTENDS ConciergeProperties, TLC

CONSTANTS op, alice, room1

StandingRows(keys, forms, scopes, classes, senders, revoked) ==
    {[kind |-> "standing", key |-> k, form |-> f, scope |-> s, says |-> {c},
      by |-> b, revoked |-> x] :
        k \in keys, f \in forms, s \in scopes, c \in classes, b \in senders, x \in revoked}
AssignmentRows(keys, scopes, types, revoked) ==
    {[kind |-> "assignment", key |-> k, form |-> "hex", scope |-> s, says |-> {t},
      by |-> op, revoked |-> x] : k \in keys, s \in scopes, t \in types, x \in revoked}
PermissionRows(keys, forms, rights, revoked) ==
    {[kind |-> "permission", key |-> k, form |-> f, scope |-> room1, says |-> p,
      by |-> op, revoked |-> x] : k \in keys, f \in forms, p \in rights, x \in revoked}
GateRows(caps, scopes, gates) ==
    {[kind |-> "gate", key |-> c, form |-> "hex", scope |-> s, says |-> g,
      by |-> op, revoked |-> FALSE] : c \in caps, s \in scopes, g \in gates}

\* Ranks, bans, rights, gates and approvals come and go while alice asks.
DecisionInputs ==
    StandingRows({alice}, {"hex"}, {"media"}, {"member", "banned"}, {op}, {FALSE})
        \cup StandingRows({alice}, {"hex"}, {"relay.admin"}, {"member", "moderator"}, {op}, {FALSE})
        \cup PermissionRows({alice}, {"hex"}, {{"join"}}, {FALSE})
        \cup PermissionRows({alice}, {"npub"}, {RoomFlags}, {FALSE})
        \cup GateRows({"media.join"}, {"media"}, {{"guest_list"}, {"oauth"}})
        \cup AssignmentRows({alice}, {"media"}, {"guest"}, {FALSE})
\* Alice asks, is promoted and banned, and tries to write rows herself, while
\* the store fails now and then and the process restarts.
DegradedInputs ==
    StandingRows({alice}, {"hex"}, {"relay.admin"}, {"moderator"}, {op, alice}, {FALSE})
        \cup StandingRows({alice}, {"hex"}, {"relay.admin"}, {"banned"}, {op}, {FALSE})
        \cup AssignmentRows({alice}, {"media"}, {"block"}, {FALSE})
        \cup PermissionRows({alice}, {"npub"}, {{"publish"}}, {FALSE})

TokenQueries == {[person |-> alice, cap |-> "media.join", room |-> room1, mint |-> TRUE]}
PublishQuery == {[person |-> alice, cap |-> "relay.publish", room |-> room1, mint |-> FALSE]}
DecisionQueries == TokenQueries \cup PublishQuery
=============================================================================
