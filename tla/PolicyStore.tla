---------------------------- MODULE PolicyStore ----------------------------
(***************************************************************************)
(* The policy store of the Concierge and the questions asked of it.        *)
(*                                                                         *)
(* Every table (standing_records, policy_assignments, room_permissions,    *)
(* proof_verifications, gate_policies) is only ever INSERTed into, and a   *)
(* lookup orders by created_at.  One sequence of rows, oldest first, holds *)
(* them all; "version" v of the store is the prefix 1..v of that sequence. *)
(* A row is                                                                *)
(*   kind    the table                                                     *)
(*   key     the subject pubkey; the capability, for a gate policy         *)
(*   form    how the pubkey was spelled when the row was written           *)
(*   scope   the scope, the room id or the proof type                      *)
(*   says    what the row grants, requires or assigns, as a set of flags   *)
(*   by      granted_by_pubkey                                             *)
(*   revoked the revoked column                                            *)
(***************************************************************************)
EXTENDS Integers, Sequences, FiniteSets

CONSTANTS
    People,      \* Nostr identities, the operator among them
    Operator,    \* the bootstrapped operator pubkey
    Rooms,       \* LiveKit room ids
    ProofTypes   \* {"oauth", "social"} in the code

ASSUME OperatorAssumption == Operator \in People

Kinds == {"standing", "assignment", "permission", "proof", "gate"}
Scopes == {"relay", "relay.admin", "media"}
Capabilities == {"relay.publish", "media.join", "media.publish"}
StandingClasses ==
    {"guest", "member", "trusted", "moderator", "owner", "banned", "suspended"}
PolicyTypes == {"block", "allow_publish", "allow_media", "guest"}
RoomFlags == {"join", "publish", "subscribe"}

(***************************************************************************)
(* A pubkey may be written down as lower-case hex, as an npub or as        *)
(* upper-case hex: validatePubkey accepts all three and the store keeps    *)
(* the text.  A lookup tries the aliases of an authenticated key, which    *)
(* never include the upper-case spelling.                                  *)
(***************************************************************************)
Forms == {"hex", "npub", "HEX"}
Aliases == {"hex", "npub"}

Flags == StandingClasses \cup PolicyTypes \cup RoomFlags \cup ProofTypes
            \cup {"guest_list", "verified"}

Row == [kind: Kinds, key: People \cup Capabilities, form: Forms,
        scope: Scopes \cup Rooms \cup ProofTypes, says: SUBSET Flags,
        by: People, revoked: BOOLEAN]

-----------------------------------------------------------------------------
\* created_at DESC LIMIT 1; 0 when no row qualifies.
Newest(S) == IF S = {} THEN 0 ELSE CHOOSE i \in S : \A j \in S : j <= i

\* WHERE subject_pubkey = $1 AND revoked = FALSE: a revoked row is skipped,
\* it does not cancel an older one.
ActiveRows(rows, v, kind, key, form) ==
    {i \in 1..v : /\ rows[i].kind = kind
                  /\ rows[i].key = key
                  /\ rows[i].form = form
                  /\ ~rows[i].revoked}

InScope(rows, S, scope) == {i \in S : rows[i].scope = scope}

\* ORDER BY CASE WHEN scope = $2 THEN 0 ELSE 1 END, created_at DESC
ScopedRow(rows, S, scope) ==
    IF InScope(rows, S, scope) # {} THEN Newest(InScope(rows, S, scope))
                                    ELSE Newest(InScope(rows, S, "relay"))

LatestStanding(rows, v, person, form, scope) ==
    ScopedRow(rows, ActiveRows(rows, v, "standing", person, form), scope)

LatestRoomPermission(rows, v, person, form, room) ==
    Newest(InScope(rows, ActiveRows(rows, v, "permission", person, form), room))

LatestProofVerification(rows, v, person, form, proof) ==
    Newest(InScope(rows, ActiveRows(rows, v, "proof", person, form), proof))

LatestGatePolicy(rows, v, capability, scope) ==
    ScopedRow(rows, ActiveRows(rows, v, "gate", capability, "hex"), scope)

ActivePolicyAssignments(rows, v, person, form, scope) ==
    LET S == ActiveRows(rows, v, "assignment", person, form)
    IN  InScope(rows, S, scope) \cup InScope(rows, S, "relay")
=============================================================================
