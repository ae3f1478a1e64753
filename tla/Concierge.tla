----------------------------- MODULE Concierge -----------------------------
(***************************************************************************)
(* The Concierge's HTTP handlers at work on one policy store: capability   *)
(* decisions (POST /api/v1/relay/authorize, /internal/relay/authorize),    *)
(* LiveKit token vending (POST /api/v1/token), admin writes, the OAuth     *)
(* callback and beacon creation.  net/http runs every request on its own   *)
(* goroutine and each lookup is a query of its own with no transaction     *)
(* around them, so between any two lookups of a decision other handlers    *)
(* may write.  A lookup over the aliases of a key is one step.             *)
(***************************************************************************)
EXTENDS PolicyEngine

CONSTANTS
    Requests,    \* decision and token requests that may be in progress
    Handlers,    \* admin and OAuth requests that may be in progress
    AdminInputs, \* rows an admin request may ask for; "by" is its sender
    Queries,     \* [person, cap, room, mint] a client may ask; mint: for a token
    StoreFails,  \* whether a store call may return an error
    Crashes,     \* whether the process may be restarted
    MaxRows      \* bound on the rows the store is given

\* The columns of a gate policy: require_guest and proof_types, which are
\* validated before they are stored.
GateSays == {"guest_list"} \cup ProofTypes

ASSUME InputAssumption ==
    /\ AdminInputs \subseteq Row
    /\ \A row \in AdminInputs : row.kind = "gate" => row.says \subseteq GateSays
    /\ Queries \subseteq [person: People, cap: Capabilities, room: Rooms, mint: BOOLEAN]
    /\ "guest_list" \notin ProofTypes
    /\ \A q \in Queries : q.mint => q.cap = "media.join"
    /\ {StoreFails, Crashes} \subseteq BOOLEAN
    /\ MaxRows \in Nat

VARIABLES
    rows,     \* the store
    audited,  \* the rows an audit entry was written for
    places,   \* rooms whose beacon is in the social service's memory
    req,      \* the decision in progress of each request
    adm       \* the write in progress of each handler

vars == <<rows, audited, places, req, adm>>

Now == Len(rows)
Outcomes == IF StoreFails THEN BOOLEAN ELSE {TRUE}

Passed == {"allowed", "issueMedia", "issueRelay", "issueAdmin", "issuePermission", "issued"}
ReadSteps == {"standing", "privRelay", "privAdmin", "assignments", "permission", "gate", "proofs"}
NoQuery == [person |-> Operator, cap |-> "relay.publish", room |-> "", mint |-> FALSE]
NoRow == [kind |-> "proof", key |-> Operator, form |-> "hex", scope |-> "relay",
          says |-> {}, by |-> Operator, revoked |-> TRUE]
IdleRequest == [pc |-> "idle", q |-> NoQuery, began |-> 0, standing |-> {},
                assigned |-> {}, needed |-> {}, missing |-> FALSE, grants |-> {}]
IdleHandler == [pc |-> "idle", row |-> NoRow, began |-> 0, at |-> 0]

Request == [pc: {"idle", "denied", "failed"} \cup Passed \cup ReadSteps,
            q: Queries \cup {NoQuery}, began: Nat, standing: SUBSET Flags,
            assigned: SUBSET Flags, needed: SUBSET ProofTypes, missing: BOOLEAN,
            grants: SUBSET {"publish", "subscribe"}]
Handler == [pc: {"idle", "check", "write", "audit"}, row: Row \cup {NoRow},
            began: Nat, at: Nat]

TypeOK ==
    /\ rows \in Seq(Row)
    /\ audited \subseteq DOMAIN rows
    /\ places \subseteq Rooms
    /\ req \in [Requests -> Request]
    /\ adm \in [Handlers -> Handler]

Init ==
    /\ rows = <<>>
    /\ audited = {}
    /\ places = {}
    /\ req = [r \in Requests |-> IdleRequest]
    /\ adm = [h \in Handlers |-> IdleHandler]

-----------------------------------------------------------------------------
(* Evaluate, one lookup at a time. *)

AfterStandingInScope(cap, standing) ==
    IF DeniedByStanding(standing) THEN "denied" ELSE "assignments"
AfterStandingUnchecked(cap, standing) ==
    IF cap \in MediaCapabilities /\ ~IsPrivileged(standing) THEN "privRelay" ELSE "assignments"

\* A media subject who is not privileged in the media scope is looked up in
\* the relay and relay.admin scopes before the assignments are read.
AfterStanding(cap, standing) ==
    IF DeniedByStanding(standing) THEN "denied"
    ELSE IF cap \in MediaCapabilities /\ ~IsPrivileged(standing) THEN "privRelay"
    ELSE "assignments"

\* An allowed decision is the answer, or goes on to the token service.
OnAllow(q) == IF q.mint THEN "issueMedia" ELSE "allowed"

\* The operator is recognised before any lookup, by Evaluate and by
\* roomGrants alike.
BeginQuery(r) ==
    /\ req[r].pc = "idle"
    /\ \E q \in Queries :
         req' = [req EXCEPT ![r] =
                   [pc |-> IF q.person # Operator THEN "standing"
                           ELSE IF q.mint THEN "issued" ELSE "allowed",
                    q |-> q, began |-> Now, standing |-> {}, assigned |-> {},
                    needed |-> {}, missing |-> FALSE,
                    grants |-> IF q.person = Operator /\ q.mint
                                 THEN {"publish", "subscribe"} ELSE {}]]
    /\ UNCHANGED <<rows, audited, places, adm>>

\* A failed standing lookup counts as "guest".
ReadStanding(r, ok) ==
    /\ req[r].pc = "standing"
    /\ LET q == req[r].q
           found == IF ok THEN Standing(rows, Now, q.person, CapabilityScope(q.cap))
                          ELSE {"guest"}
       IN  req' = [req EXCEPT ![r].standing = found,
                              ![r].pc = AfterStanding(q.cap, found)]
    /\ UNCHANGED <<rows, audited, places, adm>>

ReadPrivileged(r, ok) ==
    /\ req[r].pc \in {"privRelay", "privAdmin"}
    /\ LET scope == IF req[r].pc = "privRelay" THEN "relay" ELSE "relay.admin"
           found == IF ok THEN Standing(rows, Now, req[r].q.person, scope) ELSE {"guest"}
       IN  req' = [req EXCEPT
                     ![r].standing = IF IsPrivileged(found) THEN found ELSE @,
                     ![r].pc = IF IsPrivileged(found) \/ @ = "privAdmin"
                                 THEN "assignments" ELSE "privAdmin"]
    /\ UNCHANGED <<rows, audited, places, adm>>

RefusedOnError(ok, assigned) == ~ok
\* An error, or any active block, denies.
Refused(ok, assigned) == ~ok \/ "block" \in assigned

ReadAssignments(r, ok) ==
    /\ req[r].pc = "assignments"
    /\ LET q == req[r].q
           found == Assignments(rows, Now, q.person, CapabilityScope(q.cap))
           roomless == q.cap = "relay.publish" \/ IsPrivileged(req[r].standing)
       IN  req' = [req EXCEPT
                     ![r].assigned = IF ok THEN found ELSE {},
                     ![r].pc = IF Refused(ok, found) THEN "denied"
                               ELSE IF roomless THEN "gate" ELSE "permission"]
    /\ UNCHANGED <<rows, audited, places, adm>>

PermissionStepOnRow(ok, allows) == IF ok THEN "gate" ELSE "denied"
PermissionStep(ok, allows) == IF ok /\ allows THEN "gate" ELSE "denied"

ReadPermission(r, ok) ==
    /\ req[r].pc = "permission"
    /\ LET q == req[r].q
       IN  req' = [req EXCEPT ![r].pc =
             PermissionStep(ok, RoomAllows(rows, Now, places, q.person, q.cap, q.room))]
    /\ UNCHANGED <<rows, audited, places, adm>>

GuestListOpen(gates, standing, assigned) == FALSE
GuestListShut(gates, standing, assigned) ==
    "guest_list" \in gates /\ ~GuestGateSatisfied(standing, assigned)

\* The guest list is judged on the standing and the assignments read before.
ReadGate(r, ok) ==
    /\ req[r].pc = "gate"
    /\ LET gates == EffectiveGates(rows, Now, req[r].q.cap)
           shut == GuestListShut(gates, req[r].standing, req[r].assigned)
           proofs == gates \cap ProofTypes
       IN  req' = [req EXCEPT
                     ![r].needed = IF ok /\ ~shut THEN proofs ELSE {},
                     ![r].pc = IF ~ok \/ shut THEN "denied"
                               ELSE IF proofs # {} THEN "proofs" ELSE OnAllow(req[r].q)]
    /\ UNCHANGED <<rows, audited, places, adm>>

\* Every required proof is looked up, also after one was found missing.
ReadProof(r, ok) ==
    /\ req[r].pc = "proofs"
    /\ \E proof \in req[r].needed :
         LET missing == req[r].missing \/ ~HasProof(rows, Now, req[r].q.person, proof)
             rest == req[r].needed \ {proof}
         IN  req' = [req EXCEPT
                       ![r].needed = rest,
                       ![r].missing = missing,
                       ![r].pc = IF ~ok THEN "denied"
                                 ELSE IF rest # {} THEN "proofs"
                                 ELSE IF missing THEN "denied" ELSE OnAllow(req[r].q)]
    /\ UNCHANGED <<rows, audited, places, adm>>

-----------------------------------------------------------------------------
(* TokenService.Issue reads the store again. *)

IssueScope == [issueMedia |-> "media", issueRelay |-> "relay", issueAdmin |-> "relay.admin"]
AfterIssueScope ==
    [issueMedia |-> "issueRelay", issueRelay |-> "issueAdmin", issueAdmin |-> "issuePermission"]

\* A failed lookup is passed over as if the scope held no privileged row.
IssuePrivileged(r, ok) ==
    /\ req[r].pc \in DOMAIN IssueScope
    /\ LET pc == req[r].pc
           granted == ok /\ IsPrivileged(Standing(rows, Now, req[r].q.person, IssueScope[pc]))
       IN  req' = [req EXCEPT
                     ![r].grants = IF granted THEN {"publish", "subscribe"} ELSE {},
                     ![r].pc = IF granted THEN "issued" ELSE AfterIssueScope[pc]]
    /\ UNCHANGED <<rows, audited, places, adm>>

FullGrants(i, room) == {"publish", "subscribe"}
RoomRights(i, room) == IF i # 0 THEN rows[i].says ELSE DefaultRoomGrants(places, room)
PermissionGrants(i, room) ==
    IF i # 0 THEN rows[i].says \cap {"publish", "subscribe"}
             ELSE DefaultRoomGrants(places, room)

IssueFromPermission(r, ok) ==
    /\ req[r].pc = "issuePermission"
    /\ LET q == req[r].q
           i == PermissionRow(rows, Now, q.person, q.room)
           refused == ~ok \/ (i = 0 /\ q.room \notin GeohashRooms)
       IN  req' = [req EXCEPT ![r].grants = IF refused THEN {} ELSE PermissionGrants(i, q.room),
                              ![r].pc = IF refused THEN "failed" ELSE "issued"]
    /\ UNCHANGED <<rows, audited, places, adm>>

\* The response is written and the request is over.
Respond(r) ==
    /\ req[r].pc \in {"denied", "allowed", "issued", "failed"}
    /\ req' = [req EXCEPT ![r] = IdleRequest]
    /\ UNCHANGED <<rows, audited, places, adm>>

-----------------------------------------------------------------------------
(* Writers of the store. *)

\* An admin request passed NIP-98 and the rate limiter.
BeginAdmin(h) ==
    /\ adm[h].pc = "idle"
    /\ \E row \in AdminInputs :
         adm' = [adm EXCEPT ![h] = [pc |-> "check", row |-> row, began |-> Now, at |-> 0]]
    /\ UNCHANGED <<rows, audited, places, req>>

MayAdminOnError(by, ok) == ~ok \/ IsAdmin(rows, Now, by)
\* requireAdmin: a failed lookup makes the sender a guest, who is refused.
MayAdmin(by, ok) == by = Operator \/ (ok /\ IsAdmin(rows, Now, by))

CheckAdmin(h, ok) ==
    /\ adm[h].pc = "check"
    /\ adm' = [adm EXCEPT ![h] = IF MayAdmin(adm[h].row.by, ok)
                                   THEN [@ EXCEPT !.pc = "write"] ELSE IdleHandler]
    /\ UNCHANGED <<rows, audited, places, req>>

\* The identity provider vouched for the person: the callback records the
\* proof on the person's own authority.
BeginOAuthCallback(h) ==
    /\ adm[h].pc = "idle"
    /\ "oauth" \in ProofTypes
    /\ \E q \in Queries :
         adm' = [adm EXCEPT ![h] =
                   [pc |-> "write", began |-> Now, at |-> 0,
                    row |-> [kind |-> "proof", key |-> q.person, form |-> "hex",
                             scope |-> "oauth", says |-> {"verified"}, by |-> q.person,
                             revoked |-> FALSE]]]
    /\ UNCHANGED <<rows, audited, places, req>>

WriteRow(h, ok) ==
    /\ adm[h].pc = "write"
    /\ Now < MaxRows
    /\ rows' = IF ok THEN Append(rows, adm[h].row) ELSE rows
    /\ adm' = [adm EXCEPT ![h] = IF ok THEN [@ EXCEPT !.pc = "audit", !.at = Now + 1]
                                       ELSE IdleHandler]
    /\ UNCHANGED <<audited, places, req>>

\* The client is told of success whether or not the entry could be written.
WriteAudit(h, ok) ==
    /\ adm[h].pc = "audit"
    /\ audited' = IF ok THEN audited \cup {adm[h].at} ELSE audited
    /\ adm' = [adm EXCEPT ![h] = IdleHandler]
    /\ UNCHANGED <<rows, places, req>>

\* CreateOrReturnBeacon, under the social service's lock: an unknown beacon
\* is added and its creator is given every right in its room, by nobody's
\* authority but the creator's.  A store error leaves the beacon out.
CreateBeacon(person, room) ==
    /\ room \in GeohashRooms \ places
    /\ Now < MaxRows
    /\ rows' = Append(rows, [kind |-> "permission", key |-> person, form |-> "hex",
                             scope |-> room, says |-> RoomFlags, by |-> person,
                             revoked |-> FALSE])
    /\ places' = places \cup {room}
    /\ UNCHANGED <<audited, req, adm>>

\* The process stops and starts: requests and beacons are gone, rows stay.
Restart ==
    /\ Crashes
    /\ places' = {}
    /\ req' = [r \in Requests |-> IdleRequest]
    /\ adm' = [h \in Handlers |-> IdleHandler]
    /\ UNCHANGED <<rows, audited>>

-----------------------------------------------------------------------------
RequestStep(r) ==
    \/ BeginQuery(r)
    \/ Respond(r)
    \/ \E ok \in Outcomes :
         \/ ReadStanding(r, ok)
         \/ ReadPrivileged(r, ok)
         \/ ReadAssignments(r, ok)
         \/ ReadPermission(r, ok)
         \/ ReadGate(r, ok)
         \/ ReadProof(r, ok)
         \/ IssuePrivileged(r, ok)
         \/ IssueFromPermission(r, ok)

HandlerStep(h) ==
    \/ BeginAdmin(h)
    \/ BeginOAuthCallback(h)
    \/ \E ok \in Outcomes : CheckAdmin(h, ok) \/ WriteRow(h, ok) \/ WriteAudit(h, ok)

Next ==
    \/ \E r \in Requests : RequestStep(r)
    \/ \E h \in Handlers : HandlerStep(h)
    \/ \E person \in People, room \in Rooms : CreateBeacon(person, room)
    \/ Restart

Spec == Init /\ [][Next]_vars
=============================================================================
