----------------------------- MODULE MCLiveRoom -----------------------------
(* An instance of LiveRoom for TLC. *)
EXTENDS LiveRoom, TLC

CONSTANTS op, alice, room1

PermissionRow1(form, says, revoked) ==
    [kind |-> "permission", key |-> alice, form |-> form, scope |-> room1,
     says |-> says, by |-> op, revoked |-> revoked]

\* Alice is let in to speak, and, under another spelling, to be there and no more;
\* she is revoked by a row that still lists a right, and may become a moderator.
Inputs ==
    {PermissionRow1("hex", {"join", "publish"}, FALSE),
     PermissionRow1("npub", {"join"}, FALSE),
     PermissionRow1("hex", {"join", "subscribe"}, TRUE),
     [kind |-> "standing", key |-> alice, form |-> "hex", scope |-> "relay",
      says |-> {"moderator"}, by |-> op, revoked |-> FALSE]}

\* Which handler serves a request makes no difference.
HandlersAlike == Permutations(Handlers)
=============================================================================
