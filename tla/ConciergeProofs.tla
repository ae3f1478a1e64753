-------------------------- MODULE ConciergeProofs --------------------------
(***************************************************************************)
(* Proofs about Concierge for every set of people, rooms, requests and     *)
(* handlers, every admin input and every number of rows.                   *)
(***************************************************************************)
EXTENDS ConciergeProperties, PolicyLemmas

\* The row a handler is about to audit is in the store.
AuditPending == \A h \in Handlers : adm[h].pc = "audit" => adm[h].at \in DOMAIN rows
TypeInv == TypeOK /\ AuditPending

\* A store call succeeds or fails, nothing else.
LEMMA OkType == \A ok \in Outcomes : ok \in BOOLEAN
BY InputAssumption DEF Outcomes

\* A step of a decision or token request keeps every variable in its type.
LEMMA RequestStepType ==
    ASSUME TypeInv, NEW r \in Requests, RequestStep(r)
    PROVE  TypeInv'
<1> USE DEF TypeInv, TypeOK
<1>1. UNCHANGED <<rows, audited, places, adm>>
  BY DEF RequestStep, BeginQuery, Respond, ReadStanding, ReadPrivileged, ReadAssignments,
         ReadPermission, ReadGate, ReadProof, IssuePrivileged, IssueFromPermission
<1>2. SUFFICES req' \in [Requests -> Request]
  BY <1>1 DEF AuditPending
<1>3. \A person, scope : Standing(rows, Now, person, scope) \in SUBSET Flags
  BY StandingType DEF Now
<1>4. \A person, scope : Assignments(rows, Now, person, scope) \in SUBSET Flags
  BY AssignmentsType DEF Now
<1>5. {"guest"} \in SUBSET Flags
  BY DEF Flags, StandingClasses
<1>6. Now \in Nat
  BY DEF Now
<1>7. req[r] \in Request
  OBVIOUS
<1> HIDE DEF Now
<1>8. CASE BeginQuery(r)
  BY <1>6, <1>8 DEF BeginQuery, Request, Passed, ReadSteps
<1>9. CASE Respond(r)
  BY <1>9 DEF Respond, Request, IdleRequest, Passed, ReadSteps
<1>10. ASSUME NEW ok \in Outcomes, ReadStanding(r, ok) PROVE req' \in [Requests -> Request]
  BY <1>3, <1>5, <1>7, <1>10 DEF ReadStanding, AfterStanding, Request, Passed, ReadSteps
<1>11. ASSUME NEW ok \in Outcomes, ReadPrivileged(r, ok) PROVE req' \in [Requests -> Request]
  BY <1>3, <1>5, <1>7, <1>11 DEF ReadPrivileged, Request, Passed, ReadSteps
<1>12. ASSUME NEW ok \in Outcomes, ReadAssignments(r, ok) PROVE req' \in [Requests -> Request]
  BY <1>4, <1>7, <1>12 DEF ReadAssignments, Request, Passed, ReadSteps
<1>13. ASSUME NEW ok \in Outcomes, ReadPermission(r, ok) PROVE req' \in [Requests -> Request]
  BY <1>7, <1>13 DEF ReadPermission, PermissionStep, Request, Passed, ReadSteps
<1>14. ASSUME NEW ok \in Outcomes, ReadGate(r, ok) PROVE req' \in [Requests -> Request]
  BY <1>7, <1>14 DEF ReadGate, OnAllow, Request, Passed, ReadSteps
<1>15. ASSUME NEW ok \in Outcomes, ReadProof(r, ok) PROVE req' \in [Requests -> Request]
  <2>1. PICK proof \in req[r].needed :
          req' = [req EXCEPT
            ![r].needed = req[r].needed \ {proof},
            ![r].missing = req[r].missing \/ ~HasProof(rows, Now, req[r].q.person, proof),
            ![r].pc = IF ~ok THEN "denied"
                      ELSE IF req[r].needed \ {proof} # {} THEN "proofs"
                      ELSE IF req[r].missing \/ ~HasProof(rows, Now, req[r].q.person, proof)
                        THEN "denied" ELSE OnAllow(req[r].q)]
    BY <1>15, Zenon DEF ReadProof
  <2> DEFINE n == req[r].needed \ {proof}
             m == req[r].missing \/ ~HasProof(rows, Now, req[r].q.person, proof)
             p == IF ~ok THEN "denied" ELSE IF n # {} THEN "proofs"
                  ELSE IF m THEN "denied" ELSE OnAllow(req[r].q)
  <2>2. n \in SUBSET ProofTypes
    BY <1>7 DEF Request
  <2>3. m \in BOOLEAN
    BY Zenon
  <2>4. p \in {"denied", "proofs", "issueMedia", "allowed"}
    <3> HIDE DEF n, m
    <3> QED
      BY DEF OnAllow
  <2>5. req' = [req EXCEPT ![r].needed = n, ![r].missing = m, ![r].pc = p]
    BY <2>1, Zenon
  <2> HIDE DEF n, m, p
  <2> QED
    BY <1>7, <2>2, <2>3, <2>4, <2>5 DEF Request, Passed, ReadSteps
<1>16. ASSUME NEW ok \in Outcomes, IssuePrivileged(r, ok) PROVE req' \in [Requests -> Request]
  <2>1. req[r].pc \in {"issueMedia", "issueRelay", "issueAdmin"}
    BY <1>16 DEF IssuePrivileged, IssueScope
  <2>2. AfterIssueScope[req[r].pc] \in {"issueRelay", "issueAdmin", "issuePermission"}
    BY <2>1 DEF AfterIssueScope
  <2>3. PICK g \in SUBSET {"publish", "subscribe"},
             p \in {"issued", "issueRelay", "issueAdmin", "issuePermission"} :
          req' = [req EXCEPT ![r].grants = g, ![r].pc = p]
    <3> DEFINE ok1 == ok /\ IsPrivileged(Standing(rows, Now, req[r].q.person, IssueScope[req[r].pc]))
               g == IF ok1 THEN {"publish", "subscribe"} ELSE {}
               p == IF ok1 THEN "issued" ELSE AfterIssueScope[req[r].pc]
    <3>1. req' = [req EXCEPT ![r].grants = g, ![r].pc = p]
      BY <1>16, Zenon DEF IssuePrivileged
    <3>2. g \in SUBSET {"publish", "subscribe"}
      OBVIOUS
    <3>3. p \in {"issued", "issueRelay", "issueAdmin", "issuePermission"}
      BY <2>2, Zenon
    <3> HIDE DEF ok1, g, p
    <3> QED
      BY <3>1, <3>2, <3>3
  <2> QED
    BY <1>7, <2>3 DEF Request, Passed, ReadSteps
<1>17. ASSUME NEW ok \in Outcomes, IssueFromPermission(r, ok) PROVE req' \in [Requests -> Request]
  BY <1>7, <1>17 DEF IssueFromPermission, PermissionGrants, DefaultRoomGrants,
                     Request, Passed, ReadSteps
<1> QED
  BY <1>8, <1>9, <1>10, <1>11, <1>12, <1>13, <1>14, <1>15, <1>16, <1>17 DEF RequestStep

\* The idle request, the idle handler and the empty row have their types.
LEMMA IdleTypes == NoRow \in Row /\ IdleHandler \in Handler /\ IdleRequest \in Request
<1>1. NoRow \in Row
  BY OperatorAssumption DEF NoRow, Row, Kinds, Forms, Scopes
<1>2. IdleHandler \in Handler
  BY <1>1 DEF IdleHandler, Handler
<1>3. IdleRequest \in Request
  BY DEF IdleRequest, Request
<1> QED
  BY <1>1, <1>2, <1>3

\* Rows the code writes of its own accord.
LEMMA WrittenRowTypes ==
    ASSUME NEW person \in People
    PROVE  /\ "oauth" \in ProofTypes =>
                [kind |-> "proof", key |-> person, form |-> "hex", scope |-> "oauth",
                 says |-> {"verified"}, by |-> person, revoked |-> FALSE] \in Row
           /\ \A room \in Rooms :
                [kind |-> "permission", key |-> person, form |-> "hex", scope |-> room,
                 says |-> RoomFlags, by |-> person, revoked |-> FALSE] \in Row
<1>1. {"verified"} \in SUBSET Flags /\ RoomFlags \in SUBSET Flags
  BY DEF Flags
<1> QED
  BY <1>1 DEF Row, Kinds, Forms

\* A step of an admin request or an OAuth callback keeps the types, and the
\* row it still has to audit is one the store has.
LEMMA HandlerStepType ==
    ASSUME TypeInv, NEW h \in Handlers, HandlerStep(h)
    PROVE  TypeInv'
<1> USE DEF TypeInv, TypeOK, AuditPending
<1>1. adm[h] \in Handler
  OBVIOUS
<1>2. Now \in Nat /\ Now = Len(rows)
  BY DEF Now
<1>3. CASE BeginAdmin(h)
  <2>1. PICK row \in AdminInputs :
          adm' = [adm EXCEPT ![h] = [pc |-> "check", row |-> row, began |-> Now, at |-> 0]]
    BY <1>3 DEF BeginAdmin
  <2>2. row \in Row
    BY InputAssumption
  <2>3. [pc |-> "check", row |-> row, began |-> Now, at |-> 0] \in Handler
    BY <1>2, <2>2 DEF Handler
  <2> QED
    BY <1>3, <2>1, <2>3 DEF BeginAdmin
<1>4. CASE BeginOAuthCallback(h)
  <2>1. PICK row \in Row :
          adm' = [adm EXCEPT ![h] = [pc |-> "write", began |-> Now, at |-> 0, row |-> row]]
    <3>1. \A q \in Queries : q.person \in People
      BY InputAssumption
    <3> QED
      BY <1>4, <3>1, WrittenRowTypes DEF BeginOAuthCallback
  <2>2. [pc |-> "write", began |-> Now, at |-> 0, row |-> row] \in Handler
    BY <1>2, <2>1 DEF Handler
  <2> QED
    BY <1>4, <2>1, <2>2 DEF BeginOAuthCallback
<1>5. ASSUME NEW ok \in Outcomes, CheckAdmin(h, ok) PROVE TypeInv'
  <2>1. adm' = [adm EXCEPT ![h] = [adm[h] EXCEPT !.pc = "write"]]
        \/ adm' = [adm EXCEPT ![h] = IdleHandler]
    BY <1>5 DEF CheckAdmin
  <2>2. [adm[h] EXCEPT !.pc = "write"] \in Handler /\ [adm[h] EXCEPT !.pc = "write"].pc = "write"
    BY <1>1 DEF Handler
  <2>3. IdleHandler.pc = "idle"
    BY DEF IdleHandler
  <2> QED
    BY <1>5, <2>1, <2>2, <2>3, IdleTypes DEF CheckAdmin
<1>6. ASSUME NEW ok \in Outcomes, WriteRow(h, ok) PROVE TypeInv'
  <2>1. CASE ok
    <3>1. adm[h].row \in Row
      BY <1>1, IdleTypes DEF Handler
    <3>2. /\ rows' = Append(rows, adm[h].row)
          /\ adm' = [adm EXCEPT ![h] = [adm[h] EXCEPT !.pc = "audit", !.at = Now + 1]]
      BY <1>6, <2>1 DEF WriteRow
    <3>3. rows' \in Seq(Row) /\ DOMAIN rows \subseteq DOMAIN rows' /\ Now + 1 \in DOMAIN rows'
      BY <1>2, <3>1, <3>2
    <3>4. [adm[h] EXCEPT !.pc = "audit", !.at = Now + 1] \in Handler
      <4> DEFINE n == Now + 1
      <4>1. n \in Nat
        BY <1>2
      <4> HIDE DEF n
      <4>2. [adm[h] EXCEPT !.pc = "audit", !.at = n] \in Handler
        BY <1>1, <4>1 DEF Handler
      <4> QED
        BY <4>2 DEF n
    <3>5. [adm[h] EXCEPT !.pc = "audit", !.at = Now + 1].at = Now + 1
      BY <1>1 DEF Handler
    <3>6. \A g \in Handlers : adm'[g].pc = "audit" => adm'[g].at \in DOMAIN rows'
      <4> TAKE g \in Handlers
      <4>1. CASE g = h
        BY <3>2, <3>3, <3>5, <4>1
      <4>2. CASE g # h
        BY <3>2, <3>3, <4>2
      <4> QED
        BY <4>1, <4>2
    <3>7. adm' \in [Handlers -> Handler]
      BY <3>2, <3>4
    <3> QED
      BY <1>6, <3>3, <3>6, <3>7 DEF WriteRow
  <2>2. CASE ~ok
    <3>1. rows' = rows /\ adm' = [adm EXCEPT ![h] = IdleHandler]
      BY <1>6, <2>2 DEF WriteRow
    <3> QED
      BY <1>6, <3>1, IdleTypes DEF WriteRow, IdleHandler
  <2> QED
    BY <2>1, <2>2
<1>7. ASSUME NEW ok \in Outcomes, WriteAudit(h, ok) PROVE TypeInv'
  BY <1>7, IdleTypes DEF WriteAudit, IdleHandler
<1> QED
  BY <1>3, <1>4, <1>5, <1>6, <1>7 DEF HandlerStep

\* Every variable stays in its type: Spec => []TypeOK, together with the fact
\* that a handler audits only a row that was stored.
THEOREM TypeCorrect == Spec => []TypeInv
<1>1. Init => TypeInv
  BY IdleTypes DEF Init, TypeInv, TypeOK, AuditPending, IdleHandler
<1>2. TypeInv /\ [Next]_vars => TypeInv'
  <2> SUFFICES ASSUME TypeInv, [Next]_vars PROVE TypeInv'
    OBVIOUS
  <2>1. ASSUME NEW r \in Requests, RequestStep(r) PROVE TypeInv'
    BY <2>1, RequestStepType
  <2>2. ASSUME NEW h \in Handlers, HandlerStep(h) PROVE TypeInv'
    BY <2>2, HandlerStepType
  <2>3. ASSUME NEW person \in People, NEW room \in Rooms, CreateBeacon(person, room)
        PROVE  TypeInv'
    <3>1. PICK row \in Row : rows' = Append(rows, row)
      BY <2>3, WrittenRowTypes DEF CreateBeacon
    <3>2. rows' \in Seq(Row) /\ DOMAIN rows \subseteq DOMAIN rows'
      BY <3>1 DEF TypeInv, TypeOK
    <3> QED
      BY <2>3, <3>2 DEF CreateBeacon, TypeInv, TypeOK, AuditPending
  <2>4. CASE Restart
    BY <2>4, IdleTypes DEF Restart, TypeInv, TypeOK, AuditPending, IdleHandler
  <2>5. CASE UNCHANGED vars
    BY <2>5 DEF vars, TypeInv, TypeOK, AuditPending
  <2> QED
    BY <2>1, <2>2, <2>3, <2>4, <2>5 DEF Next
<1> QED
  BY <1>1, <1>2, PTL DEF Spec

\* The state keeps its types, whatever the handlers, the store's failures and
\* the restarts do.
THEOREM TypesAreKept == Spec => []TypeOK
<1>1. TypeInv => TypeOK
  BY DEF TypeInv
<1> QED
  BY <1>1, TypeCorrect, PTL

-----------------------------------------------------------------------------
(* Authority is rooted in the operator. *)

\* A handler past its admin check writes on the authority its sender had at
\* some version of the store.
WritersAuthorised ==
    \A h \in Handlers :
        (adm[h].pc = "write" /\ NeedsAuthority(adm[h].row)) =>
            \E v \in 0..Now : IsAdmin(rows, v, adm[h].row.by)

AuthorityInv == AuthorityRooted /\ WritersAuthorised

\* An INSERT that carries authority of its own preserves the invariant's
\* claim about the rows and about the handlers that did not move.
LEMMA InsertKeepsAuthority ==
    ASSUME TypeInv, AuthorityInv, NEW e \in Row, rows' = Append(rows, e),
           NeedsAuthority(e) => \E v \in 0..Now : IsAdmin(rows, v, e.by)
    PROVE  /\ AuthorityRooted'
           /\ \A v \in 0..Now : \A person : IsAdmin(rows, v, person) => IsAdmin(rows', v, person)
           /\ 0..Now \subseteq 0..Now'
<1>1. rows \in Seq(Row) /\ Now = Len(rows) /\ Now' = Now + 1 /\ Now \in Nat
  BY DEF TypeInv, TypeOK, Now
<1>2. \A v \in 0..Now : \A person : IsAdmin(rows', v, person) = IsAdmin(rows, v, person)
  BY <1>1, StandingStable DEF IsAdmin
<1>3. ASSUME NEW i \in DOMAIN rows', NeedsAuthority(rows'[i])
      PROVE  \E v \in 0..(i - 1) : IsAdmin(rows', v, rows'[i].by)
  <2>1. CASE i \in DOMAIN rows
    <3>1. rows'[i] = rows[i] /\ i \in 1..Now
      BY <1>1, <2>1
    <3>2. PICK v \in 0..(i - 1) : IsAdmin(rows, v, rows[i].by)
      BY <1>3, <2>1, <3>1 DEF AuthorityInv, AuthorityRooted
    <3>3. v \in 0..Now
      BY <1>1, <3>1
    <3> QED
      BY <1>2, <3>1, <3>2, <3>3
  <2>2. CASE i = Now + 1
    <3>1. rows'[i] = e /\ 0..(i - 1) = 0..Now
      BY <1>1, <2>2
    <3> QED
      BY <1>2, <1>3, <3>1
  <2> QED
    BY <1>1, <2>1, <2>2
<1>4. AuthorityRooted'
  BY <1>3 DEF AuthorityRooted
<1> QED
  BY <1>1, <1>2, <1>4

\* A handler writes nothing its sender had no authority for: what its check
\* saw at some version is still so of that version when the row is written.
LEMMA HandlerKeepsAuthority ==
    ASSUME TypeInv, AuthorityInv, NEW h \in Handlers, HandlerStep(h)
    PROVE  AuthorityInv'
<1> USE DEF AuthorityInv
<1>1. adm \in [Handlers -> Handler] /\ Now \in Nat
  BY DEF TypeInv, TypeOK, Now
<1>2. ASSUME rows' = rows,
             \A g \in Handlers \ {h} : adm'[g] = adm[g],
             (adm'[h].pc = "write" /\ NeedsAuthority(adm'[h].row)) =>
                \E v \in 0..Now : IsAdmin(rows, v, adm'[h].row.by)
      PROVE  AuthorityInv'
  BY <1>2 DEF AuthorityRooted, WritersAuthorised, IsAdmin, Now
<1>3. CASE BeginAdmin(h)
  <2>1. adm'[h].pc = "check"
    BY <1>1, <1>3 DEF BeginAdmin
  <2> QED
    BY <1>1, <1>2, <1>3, <2>1 DEF BeginAdmin
<1>4. CASE BeginOAuthCallback(h)
  <2>1. ~NeedsAuthority(adm'[h].row)
    BY <1>1, <1>4 DEF BeginOAuthCallback, NeedsAuthority
  <2> QED
    BY <1>1, <1>2, <1>4, <2>1 DEF BeginOAuthCallback
<1>5. ASSUME NEW ok \in Outcomes, CheckAdmin(h, ok) PROVE AuthorityInv'
  <2>1. CASE MayAdmin(adm[h].row.by, ok)
    <3>1. adm' = [adm EXCEPT ![h] = [adm[h] EXCEPT !.pc = "write"]]
      BY <1>5, <2>1 DEF CheckAdmin
    <3>2. adm'[h].row = adm[h].row
      BY <1>1, <3>1 DEF Handler
    <3>3. IsAdmin(rows, Now, adm[h].row.by) /\ Now \in 0..Now
      BY <1>1, <2>1 DEF MayAdmin, IsAdmin
    <3> QED
      BY <1>1, <1>2, <1>5, <3>1, <3>2, <3>3 DEF CheckAdmin
  <2>2. CASE ~MayAdmin(adm[h].row.by, ok)
    <3>1. adm'[h].pc = "idle"
      BY <1>1, <1>5, <2>2 DEF CheckAdmin, IdleHandler
    <3> QED
      BY <1>1, <1>2, <1>5, <3>1 DEF CheckAdmin
  <2> QED
    BY <2>1, <2>2
<1>6. ASSUME NEW ok \in Outcomes, WriteRow(h, ok) PROVE AuthorityInv'
  <2>1. CASE ok
    <3>1. rows' = Append(rows, adm[h].row)
      BY <1>6, <2>1 DEF WriteRow
    <3>2. adm[h].row \in Row
      BY <1>1, IdleTypes DEF Handler
    <3>3. NeedsAuthority(adm[h].row) =>
              \E v \in 0..Now : IsAdmin(rows, v, adm[h].row.by)
      BY <1>6 DEF WriteRow, WritersAuthorised
    <3>4. /\ AuthorityRooted'
          /\ \A v \in 0..Now : \A person : IsAdmin(rows, v, person) => IsAdmin(rows', v, person)
          /\ 0..Now \subseteq 0..Now'
      BY <3>1, <3>2, <3>3, InsertKeepsAuthority
    <3>5. adm'[h].pc = "audit" /\ \A g \in Handlers \ {h} : adm'[g] = adm[g]
      BY <1>1, <1>6, <2>1 DEF WriteRow, Handler
    <3>6. WritersAuthorised'
      BY <3>4, <3>5 DEF WritersAuthorised
    <3> QED
      BY <3>4, <3>6
  <2>2. CASE ~ok
    <3>1. rows' = rows /\ adm' = [adm EXCEPT ![h] = IdleHandler]
      BY <1>6, <2>2 DEF WriteRow
    <3> QED
      BY <1>1, <1>2, <3>1 DEF IdleHandler
  <2> QED
    BY <2>1, <2>2
<1>7. ASSUME NEW ok \in Outcomes, WriteAudit(h, ok) PROVE AuthorityInv'
  BY <1>1, <1>2, <1>7 DEF WriteAudit, IdleHandler
<1> QED
  BY <1>3, <1>4, <1>5, <1>6, <1>7 DEF HandlerStep

\* Every row that needs authority was written by somebody who was the operator
\* or effectively an owner or moderator before: no sequence of requests,
\* store failures and restarts makes an admin out of nothing.
THEOREM AuthorityIsRooted == Spec => []AuthorityRooted
<1>1. Init => AuthorityInv
  BY DEF Init, AuthorityInv, AuthorityRooted, WritersAuthorised, IdleHandler
<1>2. TypeInv /\ AuthorityInv /\ [Next]_vars => AuthorityInv'
  <2> SUFFICES ASSUME TypeInv, AuthorityInv, [Next]_vars PROVE AuthorityInv'
    OBVIOUS
  <2>1. ASSUME rows' = rows, adm' = adm PROVE AuthorityInv'
    BY <2>1 DEF AuthorityInv, AuthorityRooted, WritersAuthorised, IsAdmin, Now
  <2>2. ASSUME NEW r \in Requests, RequestStep(r) PROVE AuthorityInv'
    BY <2>1, <2>2 DEF RequestStep, BeginQuery, Respond, ReadStanding, ReadPrivileged,
       ReadAssignments, ReadPermission, ReadGate, ReadProof, IssuePrivileged,
       IssueFromPermission
  <2>3. ASSUME NEW h \in Handlers, HandlerStep(h) PROVE AuthorityInv'
    BY <2>3, HandlerKeepsAuthority
  <2>4. ASSUME NEW person \in People, NEW room \in Rooms, CreateBeacon(person, room)
        PROVE  AuthorityInv'
    <3>1. PICK e \in Row : rows' = Append(rows, e) /\ ~NeedsAuthority(e)
      BY <2>4, WrittenRowTypes DEF CreateBeacon, NeedsAuthority
    <3>2. /\ AuthorityRooted'
          /\ \A v \in 0..Now : \A p : IsAdmin(rows, v, p) => IsAdmin(rows', v, p)
          /\ 0..Now \subseteq 0..Now'
      BY <3>1, InsertKeepsAuthority
    <3>3. adm' = adm
      BY <2>4 DEF CreateBeacon
    <3>4. WritersAuthorised'
      BY <3>2, <3>3 DEF AuthorityInv, WritersAuthorised
    <3> QED
      BY <3>2, <3>4 DEF AuthorityInv
  <2>5. CASE Restart
    <3>1. rows' = rows /\ \A h \in Handlers : adm'[h].pc = "idle"
      BY <2>5 DEF Restart, IdleHandler
    <3> QED
      BY <3>1 DEF AuthorityInv, AuthorityRooted, WritersAuthorised, IsAdmin
  <2>6. CASE UNCHANGED vars
    BY <2>1, <2>6 DEF vars
  <2> QED
    BY <2>2, <2>3, <2>4, <2>5, <2>6 DEF Next
<1>3. AuthorityInv => AuthorityRooted
  BY DEF AuthorityInv
<1> QED
  BY <1>1, <1>2, <1>3, TypeCorrect, PTL DEF Spec

-----------------------------------------------------------------------------
(* Nobody is let through who was denied all along. *)

AfterStandingRead == Passed \cup (ReadSteps \ {"standing"})
AfterAssignmentsRead == Passed \cup {"permission", "gate", "proofs"}

BeganBefore == \A r \in Requests : req[r].began \in 0..Now

\* What the standing lookup established stays established.
StandingJudged ==
    \A r \in Requests :
        (req[r].pc \in AfterStandingRead /\ req[r].q.person # Operator) =>
            \E v \in Window(r) :
                ~DeniedByStanding(Standing(rows, v, req[r].q.person, CapabilityScope(req[r].q.cap)))

\* What the assignment lookup established holds of every version before it.
AssignmentsJudged ==
    \A r \in Requests :
        (req[r].pc \in AfterAssignmentsRead /\ req[r].q.person # Operator) =>
            "block" \notin Assignments(rows, req[r].began, req[r].q.person,
                                      CapabilityScope(req[r].q.cap))

\* A step that leaves the store, the other requests and the question alone.
Kept(r) ==
    /\ rows' = rows
    /\ \A g \in Requests \ {r} : req'[g] = req[g]
    /\ req'[r].q = req[r].q
    /\ req'[r].began = req[r].began

LookupStep(r, ok) ==
    \/ ReadPermission(r, ok)
    \/ ReadGate(r, ok)
    \/ ReadProof(r, ok)
    \/ IssuePrivileged(r, ok)
    \/ IssueFromPermission(r, ok)

\* Room, gate, proof and token lookups are made only by requests whose
\* assignments were read before.
LEMMA LookupsComeLast ==
    ASSUME TypeInv, NEW r \in Requests, NEW ok \in Outcomes, LookupStep(r, ok)
    PROVE  Kept(r) /\ req[r].pc \in AfterAssignmentsRead
<1>1. req \in [Requests -> Request] /\ req[r] \in Request
  BY DEF TypeInv, TypeOK
<1>2. CASE ReadPermission(r, ok)
  BY <1>1, <1>2 DEF ReadPermission, Request, Kept, AfterAssignmentsRead
<1>3. CASE ReadGate(r, ok)
  BY <1>1, <1>3 DEF ReadGate, Request, Kept, AfterAssignmentsRead
<1>4. CASE ReadProof(r, ok)
  BY <1>1, <1>4 DEF ReadProof, Request, Kept, AfterAssignmentsRead
<1>5. CASE IssuePrivileged(r, ok)
  BY <1>1, <1>5 DEF IssuePrivileged, IssueScope, Request, Kept, AfterAssignmentsRead, Passed
<1>6. CASE IssueFromPermission(r, ok)
  BY <1>1, <1>6 DEF IssueFromPermission, Request, Kept, AfterAssignmentsRead, Passed
<1> QED
  BY <1>2, <1>3, <1>4, <1>5, <1>6 DEF LookupStep

\* A request passes the standing lookup only if what it found denies nothing.
LEMMA StandingReadMoves ==
    ASSUME TypeInv, NEW r \in Requests, NEW ok \in Outcomes, ReadStanding(r, ok)
    PROVE  /\ Kept(r)
           /\ req'[r].pc \notin AfterAssignmentsRead
           /\ req'[r].pc \in AfterStandingRead =>
                ~DeniedByStanding(IF ok THEN Standing(rows, Now, req[r].q.person,
                                                      CapabilityScope(req[r].q.cap))
                                        ELSE {"guest"})
<1>1. req \in [Requests -> Request] /\ req[r] \in Request
  BY DEF TypeInv, TypeOK
<1>2. Kept(r)
  BY <1>1 DEF ReadStanding, Request, Kept
<1>3. req'[r].pc = AfterStanding(req[r].q.cap,
                      IF ok THEN Standing(rows, Now, req[r].q.person, CapabilityScope(req[r].q.cap))
                            ELSE {"guest"})
  BY <1>1 DEF ReadStanding, Request
<1> QED
  BY <1>2, <1>3 DEF AfterStanding, AfterAssignmentsRead, AfterStandingRead, Passed, ReadSteps

\* The lookups of further scopes come after the standing and let nobody past
\* the assignments.
LEMMA PrivilegedReadMoves ==
    ASSUME TypeInv, NEW r \in Requests, NEW ok \in Outcomes, ReadPrivileged(r, ok)
    PROVE  /\ Kept(r)
           /\ req[r].pc \in AfterStandingRead
           /\ req'[r].pc \notin AfterAssignmentsRead
<1>1. req \in [Requests -> Request] /\ req[r] \in Request
  BY DEF TypeInv, TypeOK
<1>2. Kept(r)
  BY <1>1 DEF ReadPrivileged, Request, Kept
<1>3. req'[r].pc \in {"privAdmin", "assignments"}
  BY <1>1 DEF ReadPrivileged, Request
<1> QED
  BY <1>2, <1>3 DEF ReadPrivileged, AfterAssignmentsRead, AfterStandingRead, Passed, ReadSteps

\* A request passes the assignments lookup only if it found no block.
LEMMA AssignmentsReadMoves ==
    ASSUME TypeInv, NEW r \in Requests, NEW ok \in Outcomes, ReadAssignments(r, ok)
    PROVE  /\ Kept(r)
           /\ req[r].pc \in AfterStandingRead
           /\ req'[r].pc \in AfterAssignmentsRead =>
                "block" \notin Assignments(rows, Now, req[r].q.person, CapabilityScope(req[r].q.cap))
<1>1. req \in [Requests -> Request] /\ req[r] \in Request
  BY DEF TypeInv, TypeOK
<1>2. Kept(r)
  BY <1>1 DEF ReadAssignments, Request, Kept
<1>3. Refused(ok, Assignments(rows, Now, req[r].q.person, CapabilityScope(req[r].q.cap)))
        => req'[r].pc = "denied"
  BY <1>1 DEF ReadAssignments, Request
<1> QED
  BY <1>2, <1>3 DEF ReadAssignments, Refused, AfterAssignmentsRead, AfterStandingRead,
                    Passed, ReadSteps

\* A request that begins or ends has nothing to account for.
LEMMA EndsMove ==
    ASSUME TypeInv, NEW r \in Requests, BeginQuery(r) \/ Respond(r)
    PROVE  /\ rows' = rows
           /\ \A g \in Requests \ {r} : req'[g] = req[g]
           /\ req'[r].began \in {0, Now}
           /\ req'[r].pc \in {"idle", "standing"} \/ req'[r].q.person = Operator
<1>1. req \in [Requests -> Request] /\ req[r] \in Request
  BY DEF TypeInv, TypeOK
<1>2. CASE BeginQuery(r)
  BY <1>1, <1>2 DEF BeginQuery, Request
<1>3. CASE Respond(r)
  BY <1>1, <1>3 DEF Respond, Request, IdleRequest
<1> QED
  BY <1>2, <1>3

\* An INSERT, whoever makes it, leaves every judgement standing.
LEMMA InsertKeepsJudgements ==
    ASSUME TypeInv, BeganBefore, NEW e \in Row, rows' = Append(rows, e), req' = req
    PROVE  /\ BeganBefore'
           /\ AssignmentsJudged => AssignmentsJudged'
           /\ StandingJudged => StandingJudged'
<1>1. rows \in Seq(Row) /\ Now = Len(rows) /\ Now' = Now + 1 /\ Now \in Nat
  BY DEF TypeInv, TypeOK, Now
<1>2. BeganBefore'
  BY <1>1 DEF BeganBefore
<1>3. \A r \in Requests : \A person, scope :
        Assignments(rows', req[r].began, person, scope) = Assignments(rows, req[r].began, person, scope)
  BY <1>1, AssignmentsStable DEF BeganBefore
<1>4. AssignmentsJudged => AssignmentsJudged'
  BY <1>3 DEF AssignmentsJudged
<1>5. \A v \in 0..Now : \A person, scope :
        Standing(rows', v, person, scope) = Standing(rows, v, person, scope)
  BY <1>1, StandingStable
<1>6. \A r \in Requests : Window(r) \subseteq Window(r)' /\ Window(r) \subseteq 0..Now
  BY <1>1 DEF Window, BeganBefore
<1>7. StandingJudged => StandingJudged'
  <2> SUFFICES ASSUME StandingJudged, NEW r \in Requests,
                      req[r].pc \in AfterStandingRead, req[r].q.person # Operator
               PROVE  \E v \in Window(r)' : ~DeniedByStanding(
                        Standing(rows', v, req[r].q.person, CapabilityScope(req[r].q.cap)))
    BY DEF StandingJudged
  <2>1. PICK v \in Window(r) : ~DeniedByStanding(
                Standing(rows, v, req[r].q.person, CapabilityScope(req[r].q.cap)))
    BY DEF StandingJudged
  <2> QED
    BY <1>5, <1>6, <2>1
<1> QED
  BY <1>2, <1>4, <1>7

\* A step of a request keeps what is known of the requests that have passed
\* the standing and the assignments.
LEMMA RequestKeepsJudgements ==
    ASSUME TypeInv, BeganBefore, NEW r \in Requests, RequestStep(r)
    PROVE  /\ BeganBefore'
           /\ AssignmentsJudged => AssignmentsJudged'
           /\ (StandingJudged /\ StoreFails = FALSE) => StandingJudged'
<1>1. Now \in Nat /\ rows \in Seq(Row) /\ Now = Len(rows)
  BY DEF TypeInv, TypeOK, Now
<1>2. req[r].began \in 0..Now
  BY DEF BeganBefore
<1> DEFINE Person == req[r].q.person
           Scope == CapabilityScope(req[r].q.cap)
<1>3. ASSUME Kept(r),
             req'[r].pc \in AfterAssignmentsRead =>
                \/ req[r].pc \in AfterAssignmentsRead
                \/ "block" \notin Assignments(rows, Now, Person, Scope),
             StoreFails = FALSE /\ req'[r].pc \in AfterStandingRead =>
                \/ req[r].pc \in AfterStandingRead
                \/ ~DeniedByStanding(Standing(rows, Now, Person, Scope))
      PROVE  /\ BeganBefore'
             /\ AssignmentsJudged => AssignmentsJudged'
             /\ (StandingJudged /\ StoreFails = FALSE) => StandingJudged'
  <2>1. BeganBefore' /\ \A g \in Requests : Window(g)' = Window(g)
    BY <1>3 DEF BeganBefore, Kept, Now, Window
  <2>2. Assignments(rows, req[r].began, Person, Scope) \subseteq Assignments(rows, Now, Person, Scope)
    BY <1>1, <1>2, AssignmentsMonotone
  <2>3. AssignmentsJudged => AssignmentsJudged'
    BY <1>3, <2>2 DEF AssignmentsJudged, Kept
  <2>4. Now \in Window(r)
    BY <1>1, <1>2 DEF Window
  <2>5. (StandingJudged /\ StoreFails = FALSE) => StandingJudged'
    BY <1>3, <2>1, <2>4 DEF StandingJudged, Kept
  <2> QED
    BY <2>1, <2>3, <2>5
<1>4. ASSUME rows' = rows, \A g \in Requests \ {r} : req'[g] = req[g],
             req'[r].began \in {0, Now},
             req'[r].pc \in {"idle", "standing"} \/ req'[r].q.person = Operator
      PROVE  /\ BeganBefore'
             /\ AssignmentsJudged => AssignmentsJudged'
             /\ StandingJudged => StandingJudged'
  <2>1. BeganBefore'
    BY <1>1, <1>4 DEF BeganBefore, Now
  <2>2. {"idle", "standing"} \cap (AfterStandingRead \cup AfterAssignmentsRead) = {}
    BY DEF AfterStandingRead, AfterAssignmentsRead, Passed, ReadSteps
  <2>3. \A g \in Requests \ {r} : Window(g)' = Window(g)
    BY <1>4 DEF Window, Now
  <2> QED
    BY <1>4, <2>1, <2>2, <2>3 DEF AssignmentsJudged, StandingJudged
<1>5. AfterAssignmentsRead \subseteq AfterStandingRead
  BY DEF AfterAssignmentsRead, AfterStandingRead, ReadSteps
<1>6. CASE BeginQuery(r) \/ Respond(r)
  BY <1>4, <1>6, EndsMove
<1>7. ASSUME NEW ok \in Outcomes, ReadStanding(r, ok)
      PROVE  /\ BeganBefore'
             /\ AssignmentsJudged => AssignmentsJudged'
             /\ (StandingJudged /\ StoreFails = FALSE) => StandingJudged'
  <2>1. StoreFails = FALSE => ok
    BY <1>7 DEF Outcomes
  <2> QED
    BY <1>3, <1>7, <2>1, StandingReadMoves
<1>8. ASSUME NEW ok \in Outcomes, ReadPrivileged(r, ok)
      PROVE  /\ BeganBefore'
             /\ AssignmentsJudged => AssignmentsJudged'
             /\ (StandingJudged /\ StoreFails = FALSE) => StandingJudged'
  BY <1>3, <1>8, PrivilegedReadMoves
<1>9. ASSUME NEW ok \in Outcomes, ReadAssignments(r, ok)
      PROVE  /\ BeganBefore'
             /\ AssignmentsJudged => AssignmentsJudged'
             /\ (StandingJudged /\ StoreFails = FALSE) => StandingJudged'
  BY <1>3, <1>9, AssignmentsReadMoves
<1>10. ASSUME NEW ok \in Outcomes, LookupStep(r, ok)
       PROVE  /\ BeganBefore'
              /\ AssignmentsJudged => AssignmentsJudged'
              /\ (StandingJudged /\ StoreFails = FALSE) => StandingJudged'
  BY <1>3, <1>5, <1>10, LookupsComeLast
<1> QED
  BY <1>6, <1>7, <1>8, <1>9, <1>10 DEF RequestStep, LookupStep

\* So does every step: rows written meanwhile change no earlier version.
LEMMA StepKeepsJudgements ==
    ASSUME TypeInv, BeganBefore, [Next]_vars
    PROVE  /\ BeganBefore'
           /\ AssignmentsJudged => AssignmentsJudged'
           /\ (StandingJudged /\ StoreFails = FALSE) => StandingJudged'
<1>1. ASSUME rows' = rows, req' = req
      PROVE  /\ BeganBefore'
             /\ AssignmentsJudged => AssignmentsJudged'
             /\ StandingJudged => StandingJudged'
  BY <1>1 DEF BeganBefore, AssignmentsJudged, StandingJudged, Window, Now
<1>2. ASSUME NEW r \in Requests, RequestStep(r)
      PROVE  /\ BeganBefore'
             /\ AssignmentsJudged => AssignmentsJudged'
             /\ (StandingJudged /\ StoreFails = FALSE) => StandingJudged'
  BY <1>2, RequestKeepsJudgements
<1>3. ASSUME NEW h \in Handlers, HandlerStep(h)
      PROVE  /\ BeganBefore'
             /\ AssignmentsJudged => AssignmentsJudged'
             /\ StandingJudged => StandingJudged'
  <2>1. req' = req /\ (rows' = rows \/ rows' = Append(rows, adm[h].row))
    BY <1>3 DEF HandlerStep, BeginAdmin, BeginOAuthCallback, CheckAdmin, WriteRow, WriteAudit
  <2>2. adm[h].row \in Row
    BY IdleTypes DEF TypeInv, TypeOK, Handler
  <2> QED
    BY <1>1, <2>1, <2>2, InsertKeepsJudgements
<1>4. ASSUME NEW person \in People, NEW room \in Rooms, CreateBeacon(person, room)
      PROVE  /\ BeganBefore'
             /\ AssignmentsJudged => AssignmentsJudged'
             /\ StandingJudged => StandingJudged'
  <2>1. req' = req /\ \E e \in Row : rows' = Append(rows, e)
    BY <1>4, WrittenRowTypes DEF CreateBeacon
  <2> QED
    BY <2>1, InsertKeepsJudgements
<1>5. CASE Restart
  <2>1. \A r \in Requests : req'[r].pc = "idle" /\ req'[r].began = 0
    BY <1>5 DEF Restart, IdleRequest
  <2>2. rows' = rows /\ Now \in Nat
    BY <1>5 DEF Restart, TypeInv, TypeOK, Now
  <2> QED
    BY <2>1, <2>2 DEF BeganBefore, AssignmentsJudged, StandingJudged, AfterStandingRead,
       AfterAssignmentsRead, Passed, ReadSteps, Now
<1>6. CASE UNCHANGED vars
  BY <1>1, <1>6 DEF vars
<1> QED
  BY <1>2, <1>3, <1>4, <1>5, <1>6 DEF Next

\* At the start no request has passed anything.
LEMMA InitJudgements == Init => BeganBefore /\ AssignmentsJudged /\ StandingJudged
BY DEF Init, IdleRequest, BeganBefore, AssignmentsJudged, StandingJudged, AfterStandingRead,
       AfterAssignmentsRead, Passed, ReadSteps, Now

\* A subject whom a block policy named when the request came in is never let
\* through, whatever other handlers write, however often the store fails.
THEOREM BlockedAreRefused == Spec => []AllowedWasNotBlocked
<1>1. TypeInv /\ BeganBefore /\ AssignmentsJudged /\ [Next]_vars
        => BeganBefore' /\ AssignmentsJudged'
  BY StepKeepsJudgements
<1>2. AssignmentsJudged => AllowedWasNotBlocked
  BY DEF AssignmentsJudged, AllowedWasNotBlocked, HasPassed, AfterAssignmentsRead
<1>3. Init => BeganBefore /\ AssignmentsJudged
  BY InitJudgements
<1> QED
  BY <1>1, <1>2, <1>3, TypeCorrect, PTL DEF Spec

\* While the store answers, nobody is let through who was banned or suspended
\* during the whole request.
THEOREM DeniedAreRefused == ASSUME StoreFails = FALSE PROVE Spec => []AllowedHadStanding
<1>1. TypeInv /\ BeganBefore /\ StandingJudged /\ [Next]_vars
        => BeganBefore' /\ StandingJudged'
  BY StepKeepsJudgements
<1>2. StandingJudged => AllowedHadStanding
  BY DEF StandingJudged, AllowedHadStanding, HasPassed, AfterStandingRead
<1>3. Init => BeganBefore /\ StandingJudged
  BY InitJudgements
<1> QED
  BY <1>1, <1>2, <1>3, TypeCorrect, PTL DEF Spec

-----------------------------------------------------------------------------
(* A token carries what the store backed. *)

\* A proof is crossed off, and a request is through when the last one is and
\* none was missing.
LEMMA ProofReadFinds ==
    ASSUME TypeInv, NEW r \in Requests, NEW ok \in Outcomes, ReadProof(r, ok)
    PROVE  /\ req'[r].standing = req[r].standing /\ req'[r].assigned = req[r].assigned
           /\ req[r].pc = "proofs" /\ req'[r].pc \in {"denied", "proofs", "issueMedia", "allowed"}
           /\ \E proof \in req[r].needed :
                 /\ req'[r].needed = req[r].needed \ {proof}
                 /\ ~req'[r].missing => ~req[r].missing /\ HasProof(rows, Now, req[r].q.person, proof)
           /\ req'[r].pc \in Passed => req'[r].needed = {} /\ ~req'[r].missing
<1>1. req \in [Requests -> Request] /\ req[r] \in Request
  BY DEF TypeInv, TypeOK
<1>2. PICK proof \in req[r].needed :
        req' = [req EXCEPT
          ![r].needed = req[r].needed \ {proof},
          ![r].missing = req[r].missing \/ ~HasProof(rows, Now, req[r].q.person, proof),
          ![r].pc = IF ~ok THEN "denied"
                    ELSE IF req[r].needed \ {proof} # {} THEN "proofs"
                    ELSE IF req[r].missing \/ ~HasProof(rows, Now, req[r].q.person, proof)
                      THEN "denied" ELSE OnAllow(req[r].q)]
  BY Zenon DEF ReadProof
<1> DEFINE n == req[r].needed \ {proof}
           m == req[r].missing \/ ~HasProof(rows, Now, req[r].q.person, proof)
           p == IF ~ok THEN "denied" ELSE IF n # {} THEN "proofs"
                ELSE IF m THEN "denied" ELSE OnAllow(req[r].q)
<1>3. p \in {"denied", "proofs", "issueMedia", "allowed"} /\ (p \in Passed => n = {} /\ ~m)
  <2> HIDE DEF n, m
  <2> QED
    BY DEF OnAllow, Passed
<1>4. req' = [req EXCEPT ![r].needed = n, ![r].missing = m, ![r].pc = p]
  BY <1>2, Zenon
<1>5. req[r].pc = "proofs"
  BY DEF ReadProof
<1>6. m \in BOOLEAN
  BY Zenon
<1>7. ~m => ~req[r].missing /\ HasProof(rows, Now, req[r].q.person, proof)
  BY Zenon
<1> HIDE DEF m, p
<1>8. /\ req'[r].standing = req[r].standing /\ req'[r].assigned = req[r].assigned
      /\ req'[r].needed = n /\ req'[r].missing = m /\ req'[r].pc = p
  BY <1>1, <1>4 DEF Request
<1> QED
  BY <1>3, <1>5, <1>7, <1>8, Zenon

\* The step that issues a token gives it rights the store backs right then.
LEMMA IssuedNow ==
    ASSUME TypeInv, NEW r \in Requests, RequestStep(r), req'[r].pc = "issued"
    PROVE  \A right \in req'[r].grants :
               right \in RoomGrants(rows, Now, places, req'[r].q.person, req'[r].q.room)
<1>1. req \in [Requests -> Request] /\ req[r] \in Request
  BY DEF TypeInv, TypeOK
<1>2. CASE BeginQuery(r)
  BY <1>1, <1>2 DEF BeginQuery, RoomGrants
<1>3. CASE Respond(r)
  BY <1>1, <1>3 DEF Respond, IdleRequest
<1>4. ASSUME NEW ok \in Outcomes, ReadStanding(r, ok) \/ ReadPrivileged(r, ok)
      PROVE  req'[r].pc # "issued"
  BY <1>1, <1>4 DEF ReadStanding, ReadPrivileged, AfterStanding, Request
<1>5. ASSUME NEW ok \in Outcomes, ReadAssignments(r, ok) \/ ReadPermission(r, ok)
      PROVE  req'[r].pc # "issued"
  BY <1>1, <1>5 DEF ReadAssignments, ReadPermission, PermissionStep, Request
<1>6. ASSUME NEW ok \in Outcomes, ReadGate(r, ok) \/ ReadProof(r, ok)
      PROVE  req'[r].pc # "issued"
  <2>1. CASE ReadGate(r, ok)
    BY <1>1, <2>1 DEF ReadGate, OnAllow, Request
  <2>2. CASE ReadProof(r, ok)
    BY <2>2, ProofReadFinds
  <2> QED
    BY <1>6, <2>1, <2>2
<1>7. ASSUME NEW ok \in Outcomes, IssuePrivileged(r, ok)
      PROVE  \A right \in req'[r].grants :
               right \in RoomGrants(rows, Now, places, req'[r].q.person, req'[r].q.room)
  <2> DEFINE pc == req[r].pc
             granted == ok /\ IsPrivileged(Standing(rows, Now, req[r].q.person, IssueScope[pc]))
  <2>1. pc \in {"issueMedia", "issueRelay", "issueAdmin"}
    BY <1>7 DEF IssuePrivileged, IssueScope
  <2>2. /\ req'[r].q = req[r].q
        /\ req'[r].grants = IF granted THEN {"publish", "subscribe"} ELSE {}
        /\ req'[r].pc = IF granted THEN "issued" ELSE AfterIssueScope[pc]
    BY <1>1, <1>7 DEF IssuePrivileged, Request
  <2>3. AfterIssueScope[pc] # "issued" /\ IssueScope[pc] \in {"media", "relay", "relay.admin"}
    BY <2>1 DEF AfterIssueScope, IssueScope
  <2>4. HasPrivilegedRoomAccess(rows, Now, req[r].q.person)
    BY <2>2, <2>3, Zenon DEF HasPrivilegedRoomAccess
  <2>5. req'[r].grants = {"publish", "subscribe"}
    BY <2>2, <2>3
  <2> QED
    BY <2>2, <2>4, <2>5 DEF RoomGrants
<1>8. ASSUME NEW ok \in Outcomes, IssueFromPermission(r, ok)
      PROVE  \A right \in req'[r].grants :
               right \in RoomGrants(rows, Now, places, req'[r].q.person, req'[r].q.room)
  <2> DEFINE q == req[r].q
             i == PermissionRow(rows, Now, q.person, q.room)
             refused == ~ok \/ (i = 0 /\ q.room \notin GeohashRooms)
  <2>1. /\ req'[r].q = q
        /\ req'[r].grants = IF refused THEN {} ELSE PermissionGrants(i, q.room)
        /\ req'[r].pc = IF refused THEN "failed" ELSE "issued"
    BY <1>1, <1>8 DEF IssueFromPermission, Request
  <2>2. ~refused /\ req'[r].grants = PermissionGrants(i, q.room)
    BY <2>1
  <2>3. PermissionGrants(i, q.room) \subseteq {"publish", "subscribe"}
    BY DEF PermissionGrants, DefaultRoomGrants
  <2>4. PermissionGrants(i, q.room) \subseteq RoomGrants(rows, Now, places, q.person, q.room)
    <3>1. CASE i # 0
      BY <2>3, <3>1 DEF RoomGrants, PermissionGrants
    <3>2. CASE i = 0
      BY <2>2, <2>3, <3>2 DEF RoomGrants, PermissionGrants
    <3> QED
      BY <3>1, <3>2
  <2> QED
    BY <2>1, <2>2, <2>4
<1> QED
  BY <1>2, <1>3, <1>4, <1>5, <1>6, <1>7, <1>8 DEF RequestStep

\* What an INSERT leaves alone of a version that was there before: rooms,
\* grants, and the windows of the requests, which only grow.
LEMMA InsertKeepsVersions ==
    ASSUME TypeInv, BeganBefore, NEW e \in Row, rows' = Append(rows, e), req' = req
    PROVE  /\ \A r \in Requests : Window(r) \subseteq Window(r)' /\ Window(r) \subseteq 0..Now
           /\ \A v \in 0..Now : \A p, person, cap, room :
                /\ HasPrivilegedRoomAccess(rows', v, person) = HasPrivilegedRoomAccess(rows, v, person)
                /\ RoomAllows(rows', v, p, person, cap, room) = RoomAllows(rows, v, p, person, cap, room)
                /\ RoomGrants(rows', v, p, person, room) = RoomGrants(rows, v, p, person, room)
<1>1. rows \in Seq(Row) /\ Now = Len(rows) /\ Now' = Now + 1 /\ Now \in Nat
  BY DEF TypeInv, TypeOK, Now
<1>2. \A r \in Requests : Window(r) \subseteq Window(r)' /\ Window(r) \subseteq 0..Now
  BY <1>1 DEF Window, BeganBefore
<1> QED
  BY <1>1, <1>2, RoomStable

\* A token stays backed while rows are written and beacons are created.
LEMMA InsertKeepsGrants ==
    ASSUME TypeInv, BeganBefore, NEW e \in Row, rows' = Append(rows, e), req' = req,
           places \subseteq places', IssuedGrantsBacked
    PROVE  IssuedGrantsBacked'
<1> SUFFICES ASSUME NEW r \in Requests, req[r].pc = "issued", NEW right \in req[r].grants
             PROVE  \E v \in Window(r)', p \in SUBSET places' :
                      right \in RoomGrants(rows', v, p, req[r].q.person, req[r].q.room)
  BY DEF IssuedGrantsBacked
<1>1. PICK v \in Window(r), p \in SUBSET places :
        right \in RoomGrants(rows, v, p, req[r].q.person, req[r].q.room)
  BY DEF IssuedGrantsBacked
<1>2. /\ v \in Window(r)' /\ p \in SUBSET places'
      /\ RoomGrants(rows', v, p, req[r].q.person, req[r].q.room)
           = RoomGrants(rows, v, p, req[r].q.person, req[r].q.room)
  BY <1>1, InsertKeepsVersions
<1> QED
  BY <1>1, <1>2

\* Every step keeps the tokens backed.
LEMMA GrantsKept ==
    ASSUME TypeInv, BeganBefore, IssuedGrantsBacked, [Next]_vars
    PROVE  IssuedGrantsBacked'
<1>1. ASSUME rows' = rows, req' = req, places' = places PROVE IssuedGrantsBacked'
  BY <1>1 DEF IssuedGrantsBacked, Window, Now
<1>2. ASSUME NEW r \in Requests, RequestStep(r) PROVE IssuedGrantsBacked'
  <2>1. rows' = rows /\ places' = places /\ \A g \in Requests \ {r} : req'[g] = req[g]
    <3>1. req \in [Requests -> Request]
      BY DEF TypeInv, TypeOK
    <3> QED
      BY <1>2, <3>1 DEF RequestStep, BeginQuery, Respond, ReadStanding, ReadPrivileged,
         ReadAssignments, ReadPermission, ReadGate, ReadProof, IssuePrivileged,
         IssueFromPermission
  <2>2. BeganBefore'
    BY <1>2, RequestKeepsJudgements
  <2>3. Now' = Now /\ Now \in Nat /\ Now \in Window(r)'
    BY <2>1, <2>2 DEF Now, Window, BeganBefore, TypeInv, TypeOK
  <2>4. \A g \in Requests \ {r} : Window(g)' = Window(g)
    BY <2>1 DEF Window, Now
  <2>5. req'[r].pc = "issued" => \A right \in req'[r].grants :
               right \in RoomGrants(rows, Now, places, req'[r].q.person, req'[r].q.room)
    BY <1>2, IssuedNow
  <2> SUFFICES ASSUME NEW g \in Requests, req'[g].pc = "issued", NEW right \in req'[g].grants
               PROVE  \E v \in Window(g)', p \in SUBSET places :
                        right \in RoomGrants(rows, v, p, req'[g].q.person, req'[g].q.room)
    BY <2>1 DEF IssuedGrantsBacked
  <2>6. CASE g = r
    <3>1. places \in SUBSET places
      OBVIOUS
    <3> QED
      BY <2>3, <2>5, <2>6, <3>1
  <2>7. CASE g # r
    BY <2>1, <2>4, <2>7 DEF IssuedGrantsBacked
  <2> QED
    BY <2>6, <2>7
<1>3. ASSUME NEW h \in Handlers, HandlerStep(h) PROVE IssuedGrantsBacked'
  <2>1. req' = req /\ places' = places /\ (rows' = rows \/ rows' = Append(rows, adm[h].row))
    BY <1>3 DEF HandlerStep, BeginAdmin, BeginOAuthCallback, CheckAdmin, WriteRow, WriteAudit
  <2>2. adm[h].row \in Row
    BY IdleTypes DEF TypeInv, TypeOK, Handler
  <2> QED
    BY <1>1, <2>1, <2>2, InsertKeepsGrants
<1>4. ASSUME NEW person \in People, NEW room \in Rooms, CreateBeacon(person, room)
      PROVE  IssuedGrantsBacked'
  <2>1. req' = req /\ places \subseteq places' /\ \E e \in Row : rows' = Append(rows, e)
    BY <1>4, WrittenRowTypes DEF CreateBeacon
  <2> QED
    BY <2>1, InsertKeepsGrants
<1>5. CASE Restart
  BY <1>5 DEF Restart, IdleRequest, IssuedGrantsBacked
<1>6. CASE UNCHANGED vars
  BY <1>1, <1>6 DEF vars
<1> QED
  BY <1>2, <1>3, <1>4, <1>5, <1>6 DEF Next

\* No token carries a right the store did not back at some version of its
\* request, however the second look at the store differs from the first, and
\* however often the store fails.
THEOREM TokensAreBacked == Spec => []IssuedGrantsBacked
<1>1. TypeInv /\ BeganBefore /\ IssuedGrantsBacked /\ [Next]_vars
        => BeganBefore' /\ IssuedGrantsBacked'
  BY StepKeepsJudgements, GrantsKept
<1>2. Init => BeganBefore /\ IssuedGrantsBacked
  BY InitJudgements DEF Init, IdleRequest, IssuedGrantsBacked
<1> QED
  BY <1>1, <1>2, TypeCorrect, PTL DEF Spec

-----------------------------------------------------------------------------
(* Nobody is in a room who had no right to it. *)

PastRoom == Passed \cup {"gate", "proofs"}

HadPrivilege(r) == \E v \in Window(r) : HasPrivilegedRoomAccess(rows, v, req[r].q.person)
RoomLetIn(r) ==
    \E v \in Window(r) : RoomAllows(rows, v, places, req[r].q.person, req[r].q.cap, req[r].q.room)

\* A standing that counts as an owner's or moderator's was one, and who is past
\* the room permission had one or did not need it.
RoomJudgedOf(r) ==
    req[r].q.person # Operator /\ req[r].q.cap \in MediaCapabilities =>
        /\ req[r].pc \in AfterStandingRead /\ IsPrivileged(req[r].standing) => HadPrivilege(r)
        /\ req[r].pc \in PastRoom => HadPrivilege(r) \/ RoomLetIn(r)
RoomJudged == \A r \in Requests : RoomJudgedOf(r)

\* A privileged standing was found in the scope that was read, or before.
LEMMA StandingFinds ==
    ASSUME TypeInv, NEW r \in Requests, NEW ok \in Outcomes,
           ReadStanding(r, ok) \/ ReadPrivileged(r, ok)
    PROVE  /\ req'[r].pc \notin PastRoom
           /\ \/ req'[r].standing = req[r].standing /\ req[r].pc \in AfterStandingRead
              \/ req'[r].standing = {"guest"}
              \/ \E scope \in {CapabilityScope(req[r].q.cap), "relay", "relay.admin"} :
                   req'[r].standing = Standing(rows, Now, req[r].q.person, scope)
<1>1. req \in [Requests -> Request] /\ req[r] \in Request
  BY DEF TypeInv, TypeOK
<1>2. CASE ReadStanding(r, ok)
  <2>1. req'[r].standing = IF ok THEN Standing(rows, Now, req[r].q.person, CapabilityScope(req[r].q.cap))
                                 ELSE {"guest"}
    BY <1>1, <1>2 DEF ReadStanding, Request
  <2>2. req'[r].pc \in {"denied", "privRelay", "assignments"}
    BY <1>1, <1>2 DEF ReadStanding, AfterStanding, Request
  <2> QED
    BY <2>1, <2>2 DEF PastRoom, Passed
<1>3. CASE ReadPrivileged(r, ok)
  <2> DEFINE scope == IF req[r].pc = "privRelay" THEN "relay" ELSE "relay.admin"
             found == IF ok THEN Standing(rows, Now, req[r].q.person, scope) ELSE {"guest"}
  <2>1. /\ req'[r].standing = IF IsPrivileged(found) THEN found ELSE req[r].standing
        /\ req'[r].pc \in {"privAdmin", "assignments"}
        /\ req[r].pc \in {"privRelay", "privAdmin"}
    BY <1>1, <1>3 DEF ReadPrivileged, Request
  <2>2. req[r].pc \in AfterStandingRead /\ req'[r].pc \notin PastRoom
    BY <2>1 DEF AfterStandingRead, ReadSteps, PastRoom, Passed
  <2> QED
    BY <2>1, <2>2
<1> QED
  BY <1>2, <1>3

\* The assignments lookup leaves the standing as it was and lets only those
\* past the room permission who need none.
LEMMA AssignmentsFinds ==
    ASSUME TypeInv, NEW r \in Requests, NEW ok \in Outcomes, ReadAssignments(r, ok)
    PROVE  /\ req'[r].standing = req[r].standing
           /\ req'[r].assigned = {} \/ req'[r].assigned
                = Assignments(rows, Now, req[r].q.person, CapabilityScope(req[r].q.cap))
           /\ req'[r].pc \in {"denied", "gate", "permission"}
           /\ req'[r].pc = "gate" => req[r].q.cap = "relay.publish" \/ IsPrivileged(req[r].standing)
<1>1. req \in [Requests -> Request] /\ req[r] \in Request
  BY DEF TypeInv, TypeOK
<1> QED
  BY <1>1 DEF ReadAssignments, Request

\* The later lookups change neither the standing nor the assignments, and the
\* room permission is passed by those the room allows.
LEMMA LookupFinds ==
    ASSUME TypeInv, NEW r \in Requests, NEW ok \in Outcomes, LookupStep(r, ok)
    PROVE  /\ req'[r].standing = req[r].standing /\ req'[r].assigned = req[r].assigned
           /\ req'[r].pc \in PastRoom =>
                \/ req[r].pc \in PastRoom
                \/ RoomAllows(rows, Now, places, req[r].q.person, req[r].q.cap, req[r].q.room)
<1>1. req \in [Requests -> Request] /\ req[r] \in Request
  BY DEF TypeInv, TypeOK
<1>2. CASE ReadPermission(r, ok)
  <2>1. /\ req'[r].standing = req[r].standing /\ req'[r].assigned = req[r].assigned
        /\ req'[r].pc = PermissionStep(ok,
              RoomAllows(rows, Now, places, req[r].q.person, req[r].q.cap, req[r].q.room))
    BY <1>1, <1>2 DEF ReadPermission, Request
  <2> QED
    BY <2>1, Zenon DEF PermissionStep, PastRoom, Passed
<1>3. CASE ReadGate(r, ok)
  BY <1>1, <1>3 DEF ReadGate, Request, PastRoom
<1>4. CASE ReadProof(r, ok)
  BY <1>4, ProofReadFinds DEF PastRoom
<1>5. CASE IssuePrivileged(r, ok)
  BY <1>1, <1>5 DEF IssuePrivileged, IssueScope, Request, PastRoom, Passed
<1>6. CASE IssueFromPermission(r, ok)
  BY <1>1, <1>6 DEF IssueFromPermission, Request, PastRoom, Passed
<1> QED
  BY <1>2, <1>3, <1>4, <1>5, <1>6 DEF LookupStep

\* A standing that is privileged makes room access in the scopes that are read
\* for a media capability.
LEMMA PrivilegeFound ==
    ASSUME NEW v, NEW person, NEW cap \in MediaCapabilities,
           NEW scope \in {CapabilityScope(cap), "relay", "relay.admin"},
           IsPrivileged(Standing(rows, v, person, scope))
    PROVE  HasPrivilegedRoomAccess(rows, v, person)
BY DEF HasPrivilegedRoomAccess, CapabilityScope

\* A step of a request keeps what is known of its way to the room.
LEMMA RequestKeepsRoom ==
    ASSUME TypeInv, BeganBefore, RoomJudged, NEW r \in Requests, RequestStep(r)
    PROVE  RoomJudged'
<1>1. /\ rows' = rows /\ places' = places /\ req \in [Requests -> Request]
      /\ \A g \in Requests \ {r} : req'[g] = req[g]
  BY DEF TypeInv, TypeOK, RequestStep, BeginQuery, Respond, ReadStanding, ReadPrivileged,
         ReadAssignments, ReadPermission, ReadGate, ReadProof, IssuePrivileged,
         IssueFromPermission
<1>2. \A g \in Requests \ {r} : RoomJudgedOf(g)'
  BY <1>1 DEF RoomJudged, RoomJudgedOf, HadPrivilege, RoomLetIn, Window, Now
<1>3. Now \in Window(r)
  BY DEF Window, BeganBefore, TypeInv, TypeOK, Now
<1>4. SUFFICES RoomJudgedOf(r)'
  BY <1>2 DEF RoomJudged
<1>5. CASE BeginQuery(r) \/ Respond(r)
  <2>1. req'[r].pc \in {"idle", "standing"} \/ req'[r].q.person = Operator
    BY <1>5, EndsMove
  <2> QED
    BY <2>1 DEF RoomJudgedOf, AfterStandingRead, PastRoom, Passed, ReadSteps
<1>6. ASSUME Kept(r), req[r].q.person # Operator, req[r].q.cap \in MediaCapabilities,
             \/ req'[r].standing = req[r].standing /\ req[r].pc \in AfterStandingRead
             \/ ~IsPrivileged(req'[r].standing)
             \/ HasPrivilegedRoomAccess(rows, Now, req[r].q.person),
             req'[r].pc \in PastRoom =>
                \/ req[r].pc \in PastRoom
                \/ req[r].pc \in AfterStandingRead /\ IsPrivileged(req[r].standing)
                \/ RoomAllows(rows, Now, places, req[r].q.person, req[r].q.cap, req[r].q.room)
      PROVE  RoomJudgedOf(r)'
  <2>1. (HadPrivilege(r) <=> HadPrivilege(r)') /\ (RoomLetIn(r) <=> RoomLetIn(r)')
    BY <1>1, <1>6 DEF HadPrivilege, RoomLetIn, Window, Now, Kept
  <2>2. RoomJudgedOf(r)
    BY DEF RoomJudged
  <2>3. HasPrivilegedRoomAccess(rows, Now, req[r].q.person) => HadPrivilege(r)
    BY <1>3 DEF HadPrivilege
  <2>4. RoomAllows(rows, Now, places, req[r].q.person, req[r].q.cap, req[r].q.room) => RoomLetIn(r)
    BY <1>3 DEF RoomLetIn
  <2> QED
    BY <1>6, <2>1, <2>2, <2>3, <2>4 DEF RoomJudgedOf, Kept
<1>7. ASSUME Kept(r), req[r].q.person = Operator \/ req[r].q.cap \notin MediaCapabilities
      PROVE  RoomJudgedOf(r)'
  BY <1>7 DEF RoomJudgedOf, Kept
<1>8. ASSUME NEW ok \in Outcomes, ReadStanding(r, ok) \/ ReadPrivileged(r, ok)
      PROVE  RoomJudgedOf(r)'
  <2>1. Kept(r)
    BY <1>8, StandingReadMoves, PrivilegedReadMoves
  <2>2. ~IsPrivileged({"guest"})
    BY DEF IsPrivileged
  <2> QED
    BY <1>6, <1>7, <1>8, <2>1, <2>2, StandingFinds, PrivilegeFound
<1>9. ASSUME NEW ok \in Outcomes, ReadAssignments(r, ok) PROVE RoomJudgedOf(r)'
  <2>1. "relay.publish" \notin MediaCapabilities /\ {"denied", "permission"} \cap PastRoom = {}
    BY DEF MediaCapabilities, PastRoom, Passed
  <2> QED
    BY <1>6, <1>7, <1>9, <2>1, AssignmentsReadMoves, AssignmentsFinds
<1>10. ASSUME NEW ok \in Outcomes, LookupStep(r, ok) PROVE RoomJudgedOf(r)'
  <2>1. AfterAssignmentsRead \subseteq AfterStandingRead
    BY DEF AfterAssignmentsRead, AfterStandingRead, ReadSteps
  <2> QED
    BY <1>6, <1>7, <1>10, <2>1, LookupsComeLast, LookupFinds
<1> QED
  BY <1>5, <1>8, <1>9, <1>10 DEF RequestStep, LookupStep

\* An INSERT or a new beacon changes nothing about the room.
LEMMA InsertKeepsRoom ==
    ASSUME TypeInv, BeganBefore, RoomJudged, NEW e \in Row, rows' = Append(rows, e), req' = req
    PROVE  RoomJudged'
<1>1. ASSUME NEW r \in Requests PROVE HadPrivilege(r) => HadPrivilege(r)'
  BY InsertKeepsVersions DEF HadPrivilege
<1>2. ASSUME NEW r \in Requests, RoomLetIn(r) PROVE RoomLetIn(r)'
  <2>1. PICK v \in Window(r) :
          RoomAllows(rows, v, places, req[r].q.person, req[r].q.cap, req[r].q.room)
    BY <1>2 DEF RoomLetIn
  <2>2. /\ v \in Window(r)'
        /\ RoomAllows(rows', v, places, req[r].q.person, req[r].q.cap, req[r].q.room)
    BY <2>1, InsertKeepsVersions
  <2>3. RoomAllows(rows', v, places', req[r].q.person, req[r].q.cap, req[r].q.room)
    BY <2>2, RoomAllowsAnywhere
  <2> QED
    BY <2>2, <2>3 DEF RoomLetIn
<1> QED
  BY <1>1, <1>2 DEF RoomJudged, RoomJudgedOf

\* Every step keeps what is known about the room.
LEMMA RoomKept ==
    ASSUME TypeInv, BeganBefore, RoomJudged, [Next]_vars
    PROVE  RoomJudged'
<1>1. ASSUME rows' = rows, req' = req, places' = places PROVE RoomJudged'
  BY <1>1 DEF RoomJudged, RoomJudgedOf, HadPrivilege, RoomLetIn, Window, Now
<1>2. ASSUME NEW r \in Requests, RequestStep(r) PROVE RoomJudged'
  BY <1>2, RequestKeepsRoom
<1>3. ASSUME NEW h \in Handlers, HandlerStep(h) PROVE RoomJudged'
  <2>1. req' = req /\ places' = places /\ (rows' = rows \/ rows' = Append(rows, adm[h].row))
    BY <1>3 DEF HandlerStep, BeginAdmin, BeginOAuthCallback, CheckAdmin, WriteRow, WriteAudit
  <2>2. adm[h].row \in Row
    BY IdleTypes DEF TypeInv, TypeOK, Handler
  <2> QED
    BY <1>1, <2>1, <2>2, InsertKeepsRoom
<1>4. ASSUME NEW person \in People, NEW room \in Rooms, CreateBeacon(person, room)
      PROVE  RoomJudged'
  <2>1. req' = req /\ \E e \in Row : rows' = Append(rows, e)
    BY <1>4, WrittenRowTypes DEF CreateBeacon
  <2> QED
    BY <2>1, InsertKeepsRoom
<1>5. CASE Restart
  BY <1>5 DEF Restart, IdleRequest, RoomJudged, RoomJudgedOf, AfterStandingRead, PastRoom,
              Passed, ReadSteps
<1>6. CASE UNCHANGED vars
  BY <1>1, <1>6 DEF vars
<1> QED
  BY <1>2, <1>3, <1>4, <1>5, <1>6 DEF Next

\* Nobody is let into a room who was not an owner or moderator, and whom the
\* room did not let in, at any version of the request, though the store fails.
THEOREM RoomIsRespected == Spec => []AllowedHadRoom
<1>1. TypeInv /\ BeganBefore /\ RoomJudged /\ [Next]_vars => BeganBefore' /\ RoomJudged'
  BY StepKeepsJudgements, RoomKept
<1>2. Init => BeganBefore /\ RoomJudged
  <2>1. Init => RoomJudged
    BY DEF Init, IdleRequest, RoomJudged, RoomJudgedOf, AfterStandingRead, PastRoom,
           Passed, ReadSteps
  <2> QED
    BY <2>1, InitJudgements
<1>3. RoomJudged => AllowedHadRoom
  <2> SUFFICES ASSUME RoomJudged, NEW r \in Requests, HasPassed(r), req[r].q.cap \in MediaCapabilities
               PROVE  HadPrivilege(r) \/ RoomLetIn(r)
    BY DEF AllowedHadRoom, HadPrivilege, RoomLetIn
  <2> QED
    BY DEF RoomJudged, RoomJudgedOf, HasPassed, PastRoom
<1> QED
  BY <1>1, <1>2, <1>3, TypeCorrect, PTL DEF Spec

-----------------------------------------------------------------------------
(* Nobody passes a gate that was shut. *)

\* Gate policies ask for the guest list and for proofs, nothing else.
GateRowsSay ==
    /\ \A i \in DOMAIN rows : rows[i].kind = "gate" => rows[i].says \subseteq GateSays
    /\ \A h \in Handlers : adm[h].row.kind = "gate" => adm[h].row.says \subseteq GateSays

\* Every step keeps them so.
LEMMA GateRowsKept == ASSUME TypeInv, GateRowsSay, [Next]_vars PROVE GateRowsSay'
<1>1. rows \in Seq(Row) /\ adm \in [Handlers -> Handler]
  BY DEF TypeInv, TypeOK
<1>2. ASSUME rows' = rows, adm' = adm PROVE GateRowsSay'
  BY <1>2 DEF GateRowsSay
<1>3. ASSUME NEW r \in Requests, RequestStep(r) PROVE GateRowsSay'
  BY <1>2, <1>3 DEF RequestStep, BeginQuery, Respond, ReadStanding, ReadPrivileged,
     ReadAssignments, ReadPermission, ReadGate, ReadProof, IssuePrivileged, IssueFromPermission
<1>4. ASSUME NEW h \in Handlers, HandlerStep(h) PROVE GateRowsSay'
  <2>1. /\ \A g \in Handlers \ {h} : adm'[g] = adm[g]
        /\ rows' = rows \/ rows' = Append(rows, adm[h].row)
    BY <1>1, <1>4 DEF HandlerStep, BeginAdmin, BeginOAuthCallback, CheckAdmin, WriteRow, WriteAudit
  <2>2. adm'[h].row = adm[h].row \/ adm'[h].row.kind = "proof" \/ adm'[h].row \in AdminInputs
    <3>1. CASE BeginAdmin(h)
      BY <1>1, <3>1 DEF BeginAdmin
    <3>2. CASE BeginOAuthCallback(h)
      BY <1>1, <3>2 DEF BeginOAuthCallback
    <3>3. ASSUME NEW ok \in Outcomes, CheckAdmin(h, ok) \/ WriteRow(h, ok) \/ WriteAudit(h, ok)
          PROVE  adm'[h].row = adm[h].row \/ adm'[h].row.kind = "proof"
      <4>1. IdleHandler.row.kind = "proof"
        BY DEF IdleHandler, NoRow
      <4>2. adm'[h] = IdleHandler \/ adm'[h].row = adm[h].row
        BY <1>1, <3>3 DEF CheckAdmin, WriteRow, WriteAudit, Handler
      <4> QED
        BY <4>1, <4>2
    <3> QED
      BY <1>4, <3>1, <3>2, <3>3 DEF HandlerStep
  <2>3. adm'[h].row.kind = "gate" => adm'[h].row.says \subseteq GateSays
    BY <2>2, InputAssumption DEF GateRowsSay
  <2>4. ASSUME NEW i \in DOMAIN rows'
        PROVE  (i \in DOMAIN rows /\ rows'[i] = rows[i]) \/ rows'[i] = adm[h].row
    BY <1>1, <2>1
  <2> QED
    BY <2>1, <2>3, <2>4 DEF GateRowsSay
<1>5. ASSUME NEW person \in People, NEW room \in Rooms, CreateBeacon(person, room)
      PROVE  GateRowsSay'
  <2>1. PICK e \in Row : rows' = Append(rows, e) /\ e.kind = "permission"
    BY <1>5, WrittenRowTypes DEF CreateBeacon
  <2>2. adm' = adm
    BY <1>5 DEF CreateBeacon
  <2>3. \A i \in DOMAIN rows' : (i \in DOMAIN rows /\ rows'[i] = rows[i]) \/ rows'[i] = e
    BY <1>1, <2>1
  <2> QED
    BY <2>1, <2>2, <2>3 DEF GateRowsSay
<1>6. CASE Restart
  BY <1>6 DEF Restart, GateRowsSay, IdleHandler, NoRow
<1>7. CASE UNCHANGED vars
  BY <1>2, <1>7 DEF vars
<1> QED
  BY <1>3, <1>4, <1>5, <1>6, <1>7 DEF Next

\* Whether r's person is on the guest list at version w, as the properties say.
GuestAt(r, w) ==
    GuestGateSatisfied(UNION {Standing(rows, w, req[r].q.person, s) : s \in Scopes},
                       Assignments(rows, w, req[r].q.person, CapabilityScope(req[r].q.cap)))

\* At version v every gate was met or is excused.
GatesMet(r, v, excused) ==
    \A gate \in EffectiveGates(rows, v, req[r].q.cap) :
        IF gate = "guest_list" THEN \E w \in req[r].began..v : GuestAt(r, w)
        ELSE gate \in excused \/ HasProof(rows, Now, req[r].q.person, gate)

Ranked(standing) == standing \cap {"member", "trusted", "moderator", "owner"} # {}

\* What the standing and the assignments say of the guest list was so.
GuestJudgedOf(r) ==
    /\ req[r].pc \in AfterStandingRead /\ Ranked(req[r].standing) => \E w \in Window(r) : GuestAt(r, w)
    /\ req[r].pc \in AfterAssignmentsRead /\ "guest" \in req[r].assigned
         => \E w \in Window(r) : GuestAt(r, w)

\* A request that waits for proofs met all gates but those that are still to be
\* looked up, one that is through met them all.
GatesJudgedOf(r) ==
    /\ req[r].pc = "proofs" /\ ~req[r].missing => \E v \in Window(r) : GatesMet(r, v, req[r].needed)
    /\ req[r].pc \in Passed => \E v \in Window(r) : GatesMet(r, v, {})

GateJudgedOf(r) == req[r].q.person # Operator => GuestJudgedOf(r) /\ GatesJudgedOf(r)
GateJudged == \A r \in Requests : GateJudgedOf(r)

\* A rank in some scope, or a guest assignment, is on the guest list.
LEMMA GuestFound ==
    ASSUME NEW r \in Requests, NEW v,
           \/ \E scope \in Scopes : Ranked(Standing(rows, v, req[r].q.person, scope))
           \/ "guest" \in Assignments(rows, v, req[r].q.person, CapabilityScope(req[r].q.cap))
    PROVE  GuestAt(r, v)
<1> DEFINE all == UNION {Standing(rows, v, req[r].q.person, s) : s \in Scopes}
<1>1. ASSUME NEW scope \in Scopes, Ranked(Standing(rows, v, req[r].q.person, scope)) PROVE Ranked(all)
  BY <1>1 DEF Ranked
<1>2. Ranked(all) \/ "guest" \in Assignments(rows, v, req[r].q.person, CapabilityScope(req[r].q.cap))
  BY <1>1
<1> HIDE DEF all
<1>3. GuestGateSatisfied(all, Assignments(rows, v, req[r].q.person, CapabilityScope(req[r].q.cap)))
  BY <1>2 DEF GuestGateSatisfied, Ranked
<1> QED
  BY <1>3 DEF GuestAt, all

\* The scopes that are looked up are scopes.
LEMMA ScopesRead == \A cap : {CapabilityScope(cap), "relay", "relay.admin"} \subseteq Scopes
BY DEF CapabilityScope, Scopes

\* The gate is passed by those who are on the list as far as they know, and
\* with all proofs still to be looked up.
LEMMA GateFinds ==
    ASSUME TypeInv, NEW r \in Requests, NEW ok \in Outcomes, ReadGate(r, ok)
    PROVE  /\ req[r].pc = "gate" /\ req'[r].pc \in {"denied", "proofs", "allowed", "issueMedia"}
           /\ req'[r].pc # "denied" =>
                LET gates == EffectiveGates(rows, Now, req[r].q.cap)
                IN  /\ "guest_list" \in gates => Ranked(req[r].standing) \/ "guest" \in req[r].assigned
                    /\ req'[r].needed = gates \cap ProofTypes
                    /\ req'[r].pc # "proofs" => gates \cap ProofTypes = {}
<1>1. req \in [Requests -> Request] /\ req[r] \in Request
  BY DEF TypeInv, TypeOK
<1> DEFINE gates == EffectiveGates(rows, Now, req[r].q.cap)
           shut == GuestListShut(gates, req[r].standing, req[r].assigned)
           proofs == gates \cap ProofTypes
<1>2. /\ req[r].pc = "gate"
      /\ req'[r].needed = IF ok /\ ~shut THEN proofs ELSE {}
      /\ req'[r].pc = IF ~ok \/ shut THEN "denied"
                      ELSE IF proofs # {} THEN "proofs" ELSE OnAllow(req[r].q)
  BY <1>1 DEF ReadGate, Request
<1>3. OnAllow(req[r].q) \in {"allowed", "issueMedia"}
  BY DEF OnAllow
<1>4. ~shut => ("guest_list" \in gates => Ranked(req[r].standing) \/ "guest" \in req[r].assigned)
  <2> HIDE DEF gates
  <2> QED
    BY DEF GuestListShut, GuestGateSatisfied, Ranked
<1> HIDE DEF shut, proofs
<1>5. req'[r].pc # "denied" => ok /\ ~shut
  BY <1>2
<1> QED
  BY <1>2, <1>3, <1>4, <1>5 DEF proofs

\* Every gate that is not the guest list is a proof type.
LEMMA GatesAreKnown ==
    ASSUME TypeInv, GateRowsSay, NEW cap
    PROVE  EffectiveGates(rows, Now, cap) \subseteq GateSays
<1>1. rows \in Seq(Row) /\ Now \in 0..Len(rows) /\ Now = Len(rows)
  BY DEF TypeInv, TypeOK, Now
<1>2. NoRow \in Row
  BY IdleTypes
<1>3. \/ \E i \in 1..Now : rows[i].kind = "gate" /\ EffectiveGates(rows, Now, cap) = rows[i].says
      \/ EffectiveGates(rows, Now, cap) \subseteq DefaultMediaJoinProofs
  BY <1>1, <1>2, GatesStable
<1>4. DefaultMediaJoinProofs \subseteq GateSays
  BY EngineAssumption DEF GateSays
<1>5. \A i \in 1..Now : rows[i].kind = "gate" => rows[i].says \subseteq GateSays
  BY <1>1 DEF GateRowsSay
<1> QED
  BY <1>3, <1>4, <1>5

\* A step of a request keeps what is known of it and the guest list.
LEMMA RequestKeepsGuest ==
    ASSUME TypeInv, BeganBefore, NEW r \in Requests, RequestStep(r),
           req[r].q.person # Operator => GuestJudgedOf(r)
    PROVE  req'[r].q.person # Operator => GuestJudgedOf(r)'
<1>1. Now \in Window(r)
  BY DEF Window, BeganBefore, TypeInv, TypeOK, Now
<1>2. AfterAssignmentsRead \subseteq AfterStandingRead
  BY DEF AfterAssignmentsRead, AfterStandingRead, ReadSteps
<1>3. CASE BeginQuery(r) \/ Respond(r)
  <2>1. req'[r].pc \in {"idle", "standing"} \/ req'[r].q.person = Operator
    BY <1>3, EndsMove
  <2> QED
    BY <2>1 DEF GuestJudgedOf, AfterStandingRead, AfterAssignmentsRead, Passed, ReadSteps
<1>4. ASSUME Kept(r), req[r].q.person # Operator,
             \/ req'[r].standing = req[r].standing /\ req[r].pc \in AfterStandingRead
             \/ ~Ranked(req'[r].standing)
             \/ GuestAt(r, Now),
             \/ req'[r].pc \notin AfterAssignmentsRead
             \/ req'[r].assigned = req[r].assigned /\ req[r].pc \in AfterAssignmentsRead
             \/ "guest" \notin req'[r].assigned
             \/ GuestAt(r, Now)
      PROVE  GuestJudgedOf(r)'
  <2>1. (\E w \in Window(r) : GuestAt(r, w))' <=> \E w \in Window(r) : GuestAt(r, w)
    BY <1>4 DEF GuestAt, Window, Now, Kept
  <2>2. GuestAt(r, Now) => \E w \in Window(r) : GuestAt(r, w)
    BY <1>1
  <2> QED
    BY <1>4, <2>1, <2>2 DEF GuestJudgedOf
<1>5. ASSUME NEW ok \in Outcomes, ReadStanding(r, ok) \/ ReadPrivileged(r, ok)
      PROVE  req'[r].q.person # Operator => GuestJudgedOf(r)'
  <2>1. Kept(r) /\ req'[r].pc \notin AfterAssignmentsRead
    BY <1>5, StandingReadMoves, PrivilegedReadMoves
  <2>2. ~Ranked({"guest"})
    BY DEF Ranked
  <2>3. \A scope \in {CapabilityScope(req[r].q.cap), "relay", "relay.admin"} :
          Ranked(Standing(rows, Now, req[r].q.person, scope)) => GuestAt(r, Now)
    BY GuestFound, ScopesRead
  <2> QED
    BY <1>4, <1>5, <2>1, <2>2, <2>3, StandingFinds DEF Kept
<1>6. ASSUME NEW ok \in Outcomes, ReadAssignments(r, ok)
      PROVE  req'[r].q.person # Operator => GuestJudgedOf(r)'
  <2>1. Kept(r) /\ req[r].pc \in AfterStandingRead
    BY <1>6, AssignmentsReadMoves
  <2>2. "guest" \in req'[r].assigned => GuestAt(r, Now)
    BY <1>6, AssignmentsFinds, GuestFound
  <2>3. req'[r].standing = req[r].standing
    BY <1>6, AssignmentsFinds
  <2> QED
    BY <1>4, <2>1, <2>2, <2>3 DEF Kept
<1>7. ASSUME NEW ok \in Outcomes, LookupStep(r, ok)
      PROVE  req'[r].q.person # Operator => GuestJudgedOf(r)'
  BY <1>2, <1>4, <1>7, LookupsComeLast, LookupFinds DEF Kept
<1> QED
  BY <1>3, <1>5, <1>6, <1>7 DEF RequestStep, LookupStep

\* A step of a request keeps what is known of it and the gates.
LEMMA RequestKeepsGates ==
    ASSUME TypeInv, BeganBefore, GateRowsSay, NEW r \in Requests, RequestStep(r),
           req[r].q.person # Operator => GuestJudgedOf(r) /\ GatesJudgedOf(r)
    PROVE  req'[r].q.person # Operator => GatesJudgedOf(r)'
<1>1. Now \in Window(r) /\ Window(r) = req[r].began..Now
  BY DEF Window, BeganBefore, TypeInv, TypeOK, Now
<1>2. CASE BeginQuery(r) \/ Respond(r)
  <2>1. req'[r].pc \in {"idle", "standing"} \/ req'[r].q.person = Operator
    BY <1>2, EndsMove
  <2> QED
    BY <2>1 DEF GatesJudgedOf, Passed
<1>3. ASSUME Kept(r),
             req'[r].pc = "proofs" /\ ~req'[r].missing
               => \E v \in Window(r) : GatesMet(r, v, req'[r].needed),
             req'[r].pc \in Passed => \E v \in Window(r) : GatesMet(r, v, {})
      PROVE  GatesJudgedOf(r)'
  <2>1. /\ rows' = rows /\ Now' = Now /\ Window(r)' = Window(r)
        /\ req'[r].q = req[r].q /\ req'[r].began = req[r].began
    BY <1>3 DEF Kept, Now, Window
  <2>2. ASSUME NEW v \in Window(r), GatesMet(r, v, req'[r].needed) PROVE GatesMet(r, v, req[r].needed)'
    BY <2>1, <2>2 DEF GatesMet, GuestAt
  <2>3. ASSUME NEW v \in Window(r), GatesMet(r, v, {}) PROVE GatesMet(r, v, {})'
    BY <2>1, <2>3 DEF GatesMet, GuestAt
  <2> QED
    BY <1>3, <2>1, <2>2, <2>3 DEF GatesJudgedOf
<1>4. ASSUME Kept(r), req'[r].pc \notin Passed \cup {"proofs"} PROVE GatesJudgedOf(r)'
  BY <1>3, <1>4
<1>5. ASSUME NEW ok \in Outcomes,
             ReadStanding(r, ok) \/ ReadPrivileged(r, ok) \/ ReadAssignments(r, ok)
      PROVE  GatesJudgedOf(r)'
  <2>1. Kept(r)
    BY <1>5, StandingReadMoves, PrivilegedReadMoves, AssignmentsReadMoves
  <2>2. req'[r].pc \notin Passed \cup {"proofs"}
    BY <1>5, StandingFinds, AssignmentsFinds DEF PastRoom, Passed
  <2> QED
    BY <1>4, <2>1, <2>2
<1>6. ASSUME NEW ok \in Outcomes, ReadPermission(r, ok) PROVE GatesJudgedOf(r)'
  <2>1. Kept(r)
    BY <1>6, LookupsComeLast DEF LookupStep
  <2>2. req'[r].pc \in {"gate", "denied"}
    BY <1>6 DEF ReadPermission, PermissionStep, TypeInv, TypeOK, Request
  <2> QED
    BY <1>4, <2>1, <2>2 DEF Passed
<1>7. ASSUME NEW ok \in Outcomes, ReadGate(r, ok), req[r].q.person # Operator
      PROVE  GatesJudgedOf(r)'
  <2>1. Kept(r)
    BY <1>7, LookupsComeLast DEF LookupStep
  <2> DEFINE gates == EffectiveGates(rows, Now, req[r].q.cap)
  <2>2. ASSUME req'[r].pc # "denied"
        PROVE  /\ GatesMet(r, Now, req'[r].needed)
               /\ req'[r].pc # "proofs" => GatesMet(r, Now, {})
    <3>1. /\ req[r].pc = "gate"
          /\ "guest_list" \in gates => Ranked(req[r].standing) \/ "guest" \in req[r].assigned
          /\ req'[r].needed = gates \cap ProofTypes
          /\ req'[r].pc # "proofs" => gates \cap ProofTypes = {}
      BY <1>7, <2>2, GateFinds
    <3>2. "guest_list" \in gates => \E w \in req[r].began..Now : GuestAt(r, w)
      BY <1>1, <1>7, <3>1 DEF GuestJudgedOf, AfterStandingRead, AfterAssignmentsRead, ReadSteps
    <3>3. \A gate \in gates : gate = "guest_list" \/ gate \in gates \cap ProofTypes
      BY GatesAreKnown DEF GateSays
    <3> QED
      BY <3>1, <3>2, <3>3 DEF GatesMet
  <2>3. req'[r].pc \in Passed => req'[r].pc # "proofs" /\ req'[r].pc # "denied"
    BY DEF Passed
  <2> QED
    BY <1>1, <1>3, <2>1, <2>2, <2>3
<1>8. ASSUME NEW ok \in Outcomes, ReadProof(r, ok), req[r].q.person # Operator
      PROVE  GatesJudgedOf(r)'
  <2>1. Kept(r)
    BY <1>8, LookupsComeLast DEF LookupStep
  <2>2. PICK proof \in req[r].needed :
          /\ req'[r].needed = req[r].needed \ {proof}
          /\ ~req'[r].missing => ~req[r].missing /\ HasProof(rows, Now, req[r].q.person, proof)
    BY <1>8, ProofReadFinds
  <2>3. /\ req[r].pc = "proofs"
        /\ req'[r].pc \in Passed => req'[r].needed = {} /\ ~req'[r].missing
    BY <1>8, ProofReadFinds
  <2>4. ASSUME ~req'[r].missing PROVE \E v \in Window(r) : GatesMet(r, v, req'[r].needed)
    <3>1. PICK v \in Window(r) : GatesMet(r, v, req[r].needed)
      BY <1>8, <2>2, <2>3, <2>4 DEF GatesJudgedOf
    <3>2. GatesMet(r, v, req'[r].needed)
      BY <2>2, <2>4, <3>1 DEF GatesMet
    <3> QED
      BY <3>2
  <2> QED
    BY <1>3, <2>1, <2>3, <2>4
<1>9. ASSUME NEW ok \in Outcomes, IssuePrivileged(r, ok) \/ IssueFromPermission(r, ok),
             req[r].q.person # Operator
      PROVE  GatesJudgedOf(r)'
  <2>1. Kept(r)
    BY <1>9, LookupsComeLast DEF LookupStep
  <2>2. req[r].pc \in Passed
    BY <1>9 DEF IssuePrivileged, IssueFromPermission, IssueScope, Passed
  <2>3. req'[r].pc # "proofs"
    <3>1. req \in [Requests -> Request]
      BY DEF TypeInv, TypeOK
    <3>2. CASE IssuePrivileged(r, ok)
      BY <3>1, <3>2 DEF IssuePrivileged, IssueScope, AfterIssueScope, Request
    <3>3. CASE IssueFromPermission(r, ok)
      BY <3>1, <3>3 DEF IssueFromPermission, Request
    <3> QED
      BY <1>9, <3>2, <3>3
  <2> QED
    BY <1>3, <1>9, <2>1, <2>2, <2>3 DEF GatesJudgedOf
<1>10. \A ok \in Outcomes : LookupStep(r, ok) => Kept(r)
  BY LookupsComeLast
<1> SUFFICES ASSUME ~(BeginQuery(r) \/ Respond(r)), req'[r].q.person # Operator
             PROVE  GatesJudgedOf(r)'
  BY <1>2
<1>11. req[r].q.person # Operator
  <2>1. Kept(r)
    BY <1>10, StandingReadMoves, PrivilegedReadMoves, AssignmentsReadMoves DEF RequestStep, LookupStep
  <2> QED
    BY <2>1 DEF Kept
<1> QED
  BY <1>5, <1>6, <1>7, <1>8, <1>9, <1>11 DEF RequestStep

\* An INSERT changes nothing that was known of the guest list and the gates.
LEMMA InsertKeepsGates ==
    ASSUME TypeInv, BeganBefore, GateJudged, NEW e \in Row, rows' = Append(rows, e), req' = req
    PROVE  GateJudged'
<1>1. rows \in Seq(Row) /\ Now = Len(rows) /\ Now' = Now + 1 /\ Now \in Nat
  BY DEF TypeInv, TypeOK, Now
<1>2. \A r \in Requests : req[r].began \in Nat /\ Window(r) \subseteq Window(r)' /\ Window(r) \subseteq 0..Now
  BY <1>1 DEF Window, BeganBefore
<1>3. \A v \in 0..Now : \A person, scope :
        /\ Standing(rows', v, person, scope) = Standing(rows, v, person, scope)
        /\ Assignments(rows', v, person, scope) = Assignments(rows, v, person, scope)
  BY <1>1, StandingStable, AssignmentsStable
<1>4. \A v \in 0..Now : \A cap : EffectiveGates(rows', v, cap) = EffectiveGates(rows, v, cap)
  BY <1>1, GatesStable
<1>5. \A person, proof : HasProof(rows, Now, person, proof) => HasProof(rows', Now', person, proof)
  BY <1>1, ProofKept
<1>6. ASSUME NEW r \in Requests, NEW w \in 0..Now PROVE GuestAt(r, w)' <=> GuestAt(r, w)
  <2> DEFINE was == UNION {Standing(rows, w, req[r].q.person, s) : s \in Scopes}
  <2>1. UNION {Standing(rows', w, req[r].q.person, s) : s \in Scopes} = was
    BY <1>3
  <2> HIDE DEF was
  <2>2. GuestAt(r, w) = GuestGateSatisfied(was,
                          Assignments(rows, w, req[r].q.person, CapabilityScope(req[r].q.cap)))
    BY Zenon DEF GuestAt, was
  <2>3. GuestAt(r, w)' = GuestGateSatisfied(was,
                          Assignments(rows, w, req[r].q.person, CapabilityScope(req[r].q.cap)))
    BY <1>3, <2>1 DEF GuestAt
  <2> QED
    BY <2>2, <2>3
<1>7. ASSUME NEW r \in Requests, NEW v \in Window(r), NEW x, GatesMet(r, v, x)
      PROVE  GatesMet(r, v, x)'
  <2>1. v \in 0..Now /\ \A w \in req[r].began..v : w \in 0..Now
    BY <1>1, <1>2
  <2>2. EffectiveGates(rows', v, req'[r].q.cap) = EffectiveGates(rows, v, req[r].q.cap)
    BY <1>4, <2>1
  <2>3. (\E w \in req[r].began..v : GuestAt(r, w)) => (\E w \in req[r].began..v : GuestAt(r, w))'
    BY <1>6, <2>1
  <2> QED
    BY <1>5, <1>7, <2>2, <2>3 DEF GatesMet
<1>8. ASSUME NEW r \in Requests PROVE GuestJudgedOf(r) => GuestJudgedOf(r)'
  <2>1. (\E w \in Window(r) : GuestAt(r, w)) => (\E w \in Window(r) : GuestAt(r, w))'
    BY <1>2, <1>6
  <2> QED
    BY <2>1 DEF GuestJudgedOf
<1>9. ASSUME NEW r \in Requests PROVE GatesJudgedOf(r) => GatesJudgedOf(r)'
  <2>1. \A x : (\E v \in Window(r) : GatesMet(r, v, x)) => (\E v \in Window(r) : GatesMet(r, v, x))'
    BY <1>2, <1>7
  <2>2. (\E v \in Window(r) : GatesMet(r, v, req[r].needed))
          => (\E v \in Window(r) : GatesMet(r, v, req[r].needed))'
    BY <2>1 DEF GatesMet
  <2> QED
    BY <2>1, <2>2 DEF GatesJudgedOf
<1> QED
  BY <1>8, <1>9 DEF GateJudged, GateJudgedOf

\* So does a step that touches neither the store nor the request.
LEMMA GatesUntouched ==
    ASSUME NEW r \in Requests, rows' = rows, req'[r] = req[r], GateJudgedOf(r)
    PROVE  GateJudgedOf(r)'
<1>1. Now' = Now /\ Window(r)' = Window(r)
  BY DEF Now, Window
<1>2. \A w : GuestAt(r, w)' <=> GuestAt(r, w)
  BY DEF GuestAt
<1>3. GuestJudgedOf(r)' <=> GuestJudgedOf(r)
  BY <1>1, <1>2 DEF GuestJudgedOf
<1>4. \A v, x : GatesMet(r, v, x)' <=> GatesMet(r, v, x)
  BY <1>1, <1>2 DEF GatesMet
<1>5. (\E v \in Window(r) : GatesMet(r, v, {}))' <=> \E v \in Window(r) : GatesMet(r, v, {})
  BY <1>1, <1>4
<1>6. (\E v \in Window(r) : GatesMet(r, v, req[r].needed))'
        <=> \E v \in Window(r) : GatesMet(r, v, req[r].needed)
  BY <1>1, <1>2 DEF GatesMet
<1>7. GatesJudgedOf(r)' <=> GatesJudgedOf(r)
  BY <1>5, <1>6 DEF GatesJudgedOf
<1> QED
  BY <1>3, <1>7 DEF GateJudgedOf

\* Every step keeps what is known of the gates.
LEMMA GatesKept ==
    ASSUME TypeInv, BeganBefore, GateRowsSay, GateJudged, [Next]_vars
    PROVE  GateJudged'
<1>1. ASSUME rows' = rows, req' = req PROVE GateJudged'
  BY <1>1, GatesUntouched DEF GateJudged
<1>2. ASSUME NEW r \in Requests, RequestStep(r) PROVE GateJudged'
  <2>1. rows' = rows /\ \A g \in Requests \ {r} : req'[g] = req[g]
    <3>1. req \in [Requests -> Request]
      BY DEF TypeInv, TypeOK
    <3> QED
      BY <1>2, <3>1 DEF RequestStep, BeginQuery, Respond, ReadStanding, ReadPrivileged,
         ReadAssignments, ReadPermission, ReadGate, ReadProof, IssuePrivileged,
         IssueFromPermission
  <2>2. \A g \in Requests \ {r} : GateJudgedOf(g)'
    BY <2>1, GatesUntouched DEF GateJudged
  <2>3. GateJudgedOf(r)
    BY DEF GateJudged
  <2>4. GateJudgedOf(r)'
    BY <1>2, <2>3, RequestKeepsGuest, RequestKeepsGates DEF GateJudgedOf
  <2> QED
    BY <2>2, <2>4 DEF GateJudged
<1>3. ASSUME NEW h \in Handlers, HandlerStep(h) PROVE GateJudged'
  <2>1. req' = req /\ (rows' = rows \/ rows' = Append(rows, adm[h].row))
    BY <1>3 DEF HandlerStep, BeginAdmin, BeginOAuthCallback, CheckAdmin, WriteRow, WriteAudit
  <2>2. adm[h].row \in Row
    BY IdleTypes DEF TypeInv, TypeOK, Handler
  <2> QED
    BY <1>1, <2>1, <2>2, InsertKeepsGates
<1>4. ASSUME NEW person \in People, NEW room \in Rooms, CreateBeacon(person, room)
      PROVE  GateJudged'
  <2>1. req' = req /\ \E e \in Row : rows' = Append(rows, e)
    BY <1>4, WrittenRowTypes DEF CreateBeacon
  <2> QED
    BY <2>1, InsertKeepsGates
<1>5. CASE Restart
  BY <1>5 DEF Restart, IdleRequest, GateJudged, GateJudgedOf, GuestJudgedOf, GatesJudgedOf,
              AfterStandingRead, AfterAssignmentsRead, Passed, ReadSteps
<1>6. CASE UNCHANGED vars
  BY <1>1, <1>6 DEF vars
<1> QED
  BY <1>2, <1>3, <1>4, <1>5, <1>6 DEF Next

\* Whoever is let through met every gate in force at some version of the
\* request, the guest list by what the person was at a version before it: it
\* does no harm that standing, assignments, gates and proofs are read apart.
THEOREM GatesAreRespected == Spec => []AllowedPassedGates
<1>1. TypeInv /\ BeganBefore /\ GateRowsSay /\ GateJudged /\ [Next]_vars
        => BeganBefore' /\ GateRowsSay' /\ GateJudged'
  BY StepKeepsJudgements, GateRowsKept, GatesKept
<1>2. Init => BeganBefore /\ GateRowsSay /\ GateJudged
  <2>1. Init => GateRowsSay
    BY DEF Init, GateRowsSay, IdleHandler, NoRow
  <2>2. Init => GateJudged
    BY DEF Init, IdleRequest, GateJudged, GateJudgedOf, GuestJudgedOf, GatesJudgedOf,
           AfterStandingRead, AfterAssignmentsRead, Passed, ReadSteps
  <2> QED
    BY <2>1, <2>2, InitJudgements
<1>3. GateJudged => AllowedPassedGates
  <2> SUFFICES ASSUME GateJudged, NEW r \in Requests, HasPassed(r)
               PROVE  \E v \in Window(r) : GatesMet(r, v, {})
    BY DEF AllowedPassedGates, GatesMet, GuestAt
  <2> QED
    BY DEF GateJudged, GateJudgedOf, GatesJudgedOf, HasPassed
<1> QED
  BY <1>1, <1>2, <1>3, TypeCorrect, PTL DEF Spec

-----------------------------------------------------------------------------
(* What a quiet store is asked step by step, it answers as if at once.      *)

\* What the lookups of a request find now.
Own(r) == Standing(rows, Now, req[r].q.person, CapabilityScope(req[r].q.cap))
Ranks(r, scope) == IsPrivileged(Standing(rows, Now, req[r].q.person, scope))
Given(r) == Assignments(rows, Now, req[r].q.person, CapabilityScope(req[r].q.cap))
LetIn(r) == RoomAllows(rows, Now, places, req[r].q.person, req[r].q.cap, req[r].q.room)
Gates(r) == EffectiveGates(rows, Now, req[r].q.cap)
Lacks(r, proof) == ~HasProof(rows, Now, req[r].q.person, proof)

\* What Evaluate makes of it.
IsMedia(r) == req[r].q.cap \in MediaCapabilities
Raised(r) == IsMedia(r) /\ HasPrivilegedRoomAccess(rows, Now, req[r].q.person)
GuestsOnly(r) == "guest_list" \in Gates(r)
OnList(r) == Raised(r) \/ GuestGateSatisfied(Own(r), Given(r))
MeetsRules(r) == Allowed(rows, Now, places, req[r].q.person, req[r].q.cap, req[r].q.room)

Judging == {"assignments", "permission", "gate", "proofs"}
Issuing == {"issueMedia", "issueRelay", "issueAdmin", "issuePermission"}

\* The standing a request holds is the one the scopes it was looked up in give.
StandingFits(r) ==
    /\ req[r].pc \in {"privRelay", "privAdmin"} =>
         IsMedia(r) /\ req[r].standing = Own(r) /\ ~IsPrivileged(Own(r))
    /\ req[r].pc = "privAdmin" => ~Ranks(r, "relay")
    /\ req[r].pc \in Judging => IF Raised(r) THEN IsPrivileged(req[r].standing)
                                             ELSE req[r].standing = Own(r)
    /\ req[r].pc \in Judging \cup {"privRelay", "privAdmin"} => ~DeniedByStanding(Own(r))

\* Who comes to the gates is not blocked and may be in the room.
RoomFits(r) ==
    /\ req[r].pc \in {"permission", "gate", "proofs"} =>
         req[r].assigned = Given(r) /\ "block" \notin Given(r)
    /\ req[r].pc = "permission" => IsMedia(r) /\ ~Raised(r)
    /\ req[r].pc \in {"gate", "proofs"} /\ IsMedia(r) => Raised(r) \/ LetIn(r)

\* A proof is missing if one of those looked up so far is lacked.
ProofsFit(r) ==
    /\ req[r].pc \in ReadSteps \ {"proofs"} => ~req[r].missing
    /\ req[r].pc = "proofs" =>
        /\ GuestsOnly(r) => OnList(r)
        /\ req[r].needed \subseteq Gates(r) \cap ProofTypes
        /\ req[r].missing <=> \E proof \in (Gates(r) \cap ProofTypes) \ req[r].needed : Lacks(r, proof)

\* The answer is that of Evaluate, then that of roomGrants.
AnswerFits(r) ==
    /\ req[r].pc \in Passed => MeetsRules(r)
    /\ req[r].pc = "denied" => ~MeetsRules(r)
    /\ req[r].pc \in Issuing => req[r].q.mint
    /\ req[r].pc \in Issuing \ {"issueMedia"} => ~Ranks(r, "media")
    /\ req[r].pc \in Issuing \ {"issueMedia", "issueRelay"} => ~Ranks(r, "relay")
    /\ req[r].pc = "issuePermission" => ~Ranks(r, "relay.admin")
    /\ req[r].pc = "issued" =>
         req[r].grants = RoomGrants(rows, Now, places, req[r].q.person, req[r].q.room)
    /\ req[r].pc # "failed"
    /\ req[r].pc \in ReadSteps \cup Issuing => req[r].q.person # Operator

AsAtOnceOf(r) == StandingFits(r) /\ RoomFits(r) /\ ProofsFit(r) /\ AnswerFits(r)
AsAtOnce == \A r \in Requests : req[r].began = Now => AsAtOnceOf(r)

\* A request asks for one of the capabilities.
LEMMA QueryType ==
    ASSUME TypeInv, NEW r \in Requests
    PROVE  /\ req[r] \in Request /\ req[r].q.cap \in Capabilities
           /\ req[r].q.cap = "relay.publish" <=> ~IsMedia(r)
<1>1. req[r] \in Request
  BY DEF TypeInv, TypeOK
<1>2. req[r].q \in Queries \cup {NoQuery}
  BY <1>1 DEF Request
<1>3. req[r].q.cap \in Capabilities
  <2>1. \A q \in Queries : q.cap \in Capabilities
    BY InputAssumption
  <2>2. NoQuery.cap \in Capabilities
    BY DEF NoQuery, Capabilities
  <2> QED
    BY <1>2, <2>1, <2>2
<1> QED
  BY <1>1, <1>3 DEF Capabilities, MediaCapabilities, IsMedia

\* What a request has to meet, for anybody but the operator.
LEMMA RulesOf ==
    ASSUME TypeInv, GateRowsSay, NEW r \in Requests, req[r].q.person # Operator
    PROVE  MeetsRules(r) <=>
             /\ ~DeniedByStanding(Own(r)) /\ "block" \notin Given(r)
             /\ IsMedia(r) => Raised(r) \/ LetIn(r)
             /\ GuestsOnly(r) => OnList(r)
             /\ \A proof \in Gates(r) \cap ProofTypes : ~Lacks(r, proof)
<1> DEFINE q == req[r].q
           standing == IF Raised(r) THEN Own(r) \cup {"moderator"} ELSE Own(r)
<1>2. q.cap = "relay.publish" <=> ~IsMedia(r)
  BY QueryType
<1>3. GuestGateSatisfied(standing, Given(r)) <=> OnList(r)
  BY DEF GuestGateSatisfied, OnList
<1>4. Gates(r) \subseteq {"guest_list"} \cup ProofTypes /\ "guest_list" \notin ProofTypes
  BY GatesAreKnown, InputAssumption DEF Gates, GateSays
<1>5. GatesOpen(rows, Now, q.person, q.cap, standing, Given(r))
        <=> /\ GuestsOnly(r) => OnList(r)
            /\ \A proof \in Gates(r) \cap ProofTypes : ~Lacks(r, proof)
  <2>1. GatesOpen(rows, Now, q.person, q.cap, standing, Given(r))
          <=> \A gate \in Gates(r) : IF gate = "guest_list" THEN OnList(r) ELSE ~Lacks(r, gate)
    BY <1>3 DEF GatesOpen, Gates, Lacks
  <2> QED
    BY <1>4, <2>1 DEF GuestsOnly
<1>6. MeetsRules(r) <=>
        /\ ~DeniedByStanding(Own(r)) /\ "block" \notin Given(r)
        /\ q.cap = "relay.publish" \/ Raised(r) \/ LetIn(r)
        /\ GatesOpen(rows, Now, q.person, q.cap, standing, Given(r))
  BY DEF MeetsRules, Allowed, Own, Given, Raised, IsMedia, LetIn
<1> QED
  BY <1>2, <1>5, <1>6

\* What is known of a request whose question and whose store stay the same.
LEMMA SameFacts ==
    ASSUME NEW r \in Requests, rows' = rows, places' = places, req'[r].q = req[r].q
    PROVE  /\ Own(r)' = Own(r) /\ Given(r)' = Given(r) /\ Gates(r)' = Gates(r)
           /\ IsMedia(r)' = IsMedia(r) /\ Raised(r)' = Raised(r) /\ LetIn(r)' = LetIn(r)
           /\ GuestsOnly(r)' = GuestsOnly(r) /\ OnList(r)' = OnList(r)
           /\ MeetsRules(r)' = MeetsRules(r)
           /\ \A s : Ranks(r, s)' = Ranks(r, s) /\ Lacks(r, s)' = Lacks(r, s)
BY DEF Now, Own, Given, IsMedia, Ranks, Raised, LetIn, Gates, GuestsOnly, OnList, Lacks, MeetsRules

\* A media subject who is privileged in the scope of the capability is so for
\* the room.
LEMMA RaisedBy ==
    ASSUME NEW r \in Requests
    PROVE  /\ IsMedia(r) /\ IsPrivileged(Own(r)) => Raised(r)
           /\ Raised(r) <=> /\ IsMedia(r)
                            /\ Ranks(r, "media") \/ Ranks(r, "relay") \/ Ranks(r, "relay.admin")
           /\ IsMedia(r) => (IsPrivileged(Own(r)) <=> Ranks(r, "media"))
BY DEF IsMedia, Raised, Own, Ranks, HasPrivilegedRoomAccess, CapabilityScope

\* Each lookup finds what it is to find, and goes on where Evaluate goes on.
LEMMA StandingFitsStep ==
    ASSUME TypeInv, GateRowsSay, NEW r \in Requests, AsAtOnceOf(r), ReadStanding(r, TRUE)
    PROVE  AsAtOnceOf(r)'
<1> DEFINE pc == AfterStanding(req[r].q.cap, Own(r))
<1>0. ~req[r].missing
  BY DEF ReadStanding, AsAtOnceOf, ProofsFit, ReadSteps
<1>1. req[r].pc = "standing" /\ req[r].q.person # Operator
  BY DEF ReadStanding, AsAtOnceOf, AnswerFits, ReadSteps
<1>2. /\ rows' = rows /\ places' = places /\ req'[r].q = req[r].q /\ req'[r].missing = req[r].missing
      /\ req'[r].standing = Own(r) /\ req'[r].pc = pc
  BY QueryType DEF ReadStanding, Own, TypeInv, TypeOK, Request
<1>3. \/ pc = "denied" /\ DeniedByStanding(Own(r))
      \/ pc = "privRelay" /\ ~DeniedByStanding(Own(r)) /\ IsMedia(r) /\ ~IsPrivileged(Own(r))
      \/ /\ pc = "assignments" /\ ~DeniedByStanding(Own(r))
         /\ ~IsMedia(r) \/ (IsPrivileged(Own(r)) /\ Raised(r))
  BY RaisedBy DEF AfterStanding, IsMedia
<1>4. ~IsMedia(r) => ~Raised(r)
  BY DEF Raised
<1> HIDE DEF pc
<1> QED
  BY <1>0, <1>1, <1>2, <1>3, <1>4, SameFacts, RulesOf
  DEF AsAtOnceOf, StandingFits, RoomFits, ProofsFit, AnswerFits, Judging, Issuing, Passed, ReadSteps

\* The scopes are looked up in turn until one of them raises the standing.
LEMMA PrivilegedFitsStep ==
    ASSUME TypeInv, GateRowsSay, NEW r \in Requests, AsAtOnceOf(r), ReadPrivileged(r, TRUE)
    PROVE  AsAtOnceOf(r)'
<1> DEFINE scope == IF req[r].pc = "privRelay" THEN "relay" ELSE "relay.admin"
           found == Standing(rows, Now, req[r].q.person, scope)
<1>0. ~req[r].missing
  BY DEF ReadPrivileged, AsAtOnceOf, ProofsFit, ReadSteps
<1>1. /\ req[r].pc \in {"privRelay", "privAdmin"} /\ req[r].q.person # Operator
      /\ IsMedia(r) /\ req[r].standing = Own(r) /\ ~IsPrivileged(Own(r)) /\ ~DeniedByStanding(Own(r))
      /\ req[r].pc = "privAdmin" => ~Ranks(r, "relay")
  BY DEF ReadPrivileged, AsAtOnceOf, AnswerFits, StandingFits, ReadSteps
<1>2. /\ rows' = rows /\ places' = places /\ req'[r].q = req[r].q /\ req'[r].missing = req[r].missing
      /\ req'[r].standing = IF IsPrivileged(found) THEN found ELSE req[r].standing
      /\ req'[r].pc = IF IsPrivileged(found) \/ req[r].pc = "privAdmin"
                        THEN "assignments" ELSE "privAdmin"
  BY QueryType DEF ReadPrivileged, TypeInv, TypeOK, Request
<1>3. IsPrivileged(found) <=> Ranks(r, scope)
  BY DEF Ranks
<1>4. \/ /\ req'[r].pc = "assignments"
         /\ IF Raised(r) THEN IsPrivileged(req'[r].standing) ELSE req'[r].standing = Own(r)
      \/ req'[r].pc = "privAdmin" /\ req'[r].standing = Own(r) /\ ~Ranks(r, "relay")
  <2> HIDE DEF found
  <2> QED
    BY <1>1, <1>2, <1>3, RaisedBy
<1> QED
  BY <1>0, <1>1, <1>2, <1>4, SameFacts
  DEF AsAtOnceOf, StandingFits, RoomFits, ProofsFit, AnswerFits, Judging, Issuing, Passed, ReadSteps

\* The assignments are those of the person.
LEMMA AssignmentsFitStep ==
    ASSUME TypeInv, GateRowsSay, NEW r \in Requests, AsAtOnceOf(r), ReadAssignments(r, TRUE)
    PROVE  AsAtOnceOf(r)'
<1>0. ~req[r].missing
  BY DEF ReadAssignments, AsAtOnceOf, ProofsFit, ReadSteps
<1>1. /\ req[r].pc = "assignments" /\ req[r].q.person # Operator /\ ~DeniedByStanding(Own(r))
      /\ IF Raised(r) THEN IsPrivileged(req[r].standing) ELSE req[r].standing = Own(r)
  BY DEF ReadAssignments, AsAtOnceOf, AnswerFits, StandingFits, ReadSteps, Judging
<1> DEFINE roomless == req[r].q.cap = "relay.publish" \/ IsPrivileged(req[r].standing)
           pc == IF "block" \in Given(r) THEN "denied"
                 ELSE IF roomless THEN "gate" ELSE "permission"
<1>2. /\ rows' = rows /\ places' = places /\ req'[r].q = req[r].q /\ req'[r].missing = req[r].missing
      /\ req'[r].standing = req[r].standing /\ req'[r].assigned = Given(r)
      /\ req'[r].pc = pc
  BY QueryType DEF ReadAssignments, Refused, Given, TypeInv, TypeOK, Request
<1>3. req[r].q.cap = "relay.publish" <=> ~IsMedia(r)
  BY QueryType
<1>4. IsMedia(r) => (roomless <=> Raised(r))
  BY <1>1, <1>3, RaisedBy
<1>5. \/ pc = "denied" /\ "block" \in Given(r)
      \/ pc = "gate" /\ "block" \notin Given(r) /\ (IsMedia(r) => Raised(r))
      \/ pc = "permission" /\ "block" \notin Given(r) /\ IsMedia(r) /\ ~Raised(r)
  BY <1>3, <1>4
<1> HIDE DEF pc
<1> QED
  BY <1>0, <1>1, <1>2, <1>5, SameFacts, RulesOf
  DEF AsAtOnceOf, StandingFits, RoomFits, ProofsFit, AnswerFits, Judging, Issuing, Passed, ReadSteps

\* Only who is not raised needs the room's permission.
LEMMA PermissionFitsStep ==
    ASSUME TypeInv, GateRowsSay, NEW r \in Requests, AsAtOnceOf(r), ReadPermission(r, TRUE)
    PROVE  AsAtOnceOf(r)'
<1>0. ~req[r].missing
  BY DEF ReadPermission, AsAtOnceOf, ProofsFit, ReadSteps
<1>1. /\ req[r].pc = "permission" /\ req[r].q.person # Operator /\ ~DeniedByStanding(Own(r))
      /\ IF Raised(r) THEN IsPrivileged(req[r].standing) ELSE req[r].standing = Own(r)
      /\ req[r].assigned = Given(r) /\ "block" \notin Given(r) /\ IsMedia(r) /\ ~Raised(r)
  BY DEF ReadPermission, AsAtOnceOf, AnswerFits, StandingFits, RoomFits, ReadSteps, Judging
<1>2. /\ rows' = rows /\ places' = places /\ req'[r].q = req[r].q /\ req'[r].missing = req[r].missing
      /\ req'[r].standing = req[r].standing /\ req'[r].assigned = req[r].assigned
      /\ req'[r].pc = IF LetIn(r) THEN "gate" ELSE "denied"
  BY QueryType DEF ReadPermission, PermissionStep, LetIn, TypeInv, TypeOK, Request
<1> QED
  BY <1>0, <1>1, <1>2, SameFacts, RulesOf
  DEF AsAtOnceOf, StandingFits, RoomFits, ProofsFit, AnswerFits, Judging, Issuing, Passed, ReadSteps

\* Where an allowed decision goes, its answer fits.
LEMMA AllowedFits ==
    ASSUME NEW r \in Requests, req'[r].pc = OnAllow(req[r].q), MeetsRules(r), rows' = rows,
           places' = places, req'[r].q = req[r].q, req[r].q.person # Operator
    PROVE  AsAtOnceOf(r)'
<1>1. \/ req'[r].pc = "issueMedia" /\ req[r].q.mint
      \/ req'[r].pc = "allowed"
  BY DEF OnAllow
<1> QED
  BY <1>1, SameFacts
  DEF AsAtOnceOf, StandingFits, RoomFits, ProofsFit, AnswerFits, Judging, Issuing, Passed, ReadSteps

\* The guest list is judged as Evaluate judges it.
LEMMA GateFitsStep ==
    ASSUME TypeInv, GateRowsSay, NEW r \in Requests, AsAtOnceOf(r), ReadGate(r, TRUE)
    PROVE  AsAtOnceOf(r)'
<1>1. /\ req[r].pc = "gate" /\ req[r].q.person # Operator /\ ~DeniedByStanding(Own(r))
      /\ IF Raised(r) THEN IsPrivileged(req[r].standing) ELSE req[r].standing = Own(r)
      /\ req[r].assigned = Given(r) /\ "block" \notin Given(r)
      /\ IsMedia(r) => Raised(r) \/ LetIn(r)
  BY DEF ReadGate, AsAtOnceOf, AnswerFits, StandingFits, RoomFits, ReadSteps, Judging
<1> DEFINE shut == GuestListShut(Gates(r), req[r].standing, req[r].assigned)
           proofs == Gates(r) \cap ProofTypes
<1>2. /\ rows' = rows /\ places' = places /\ req'[r].q = req[r].q /\ req'[r].missing = req[r].missing
      /\ req'[r].standing = req[r].standing /\ req'[r].assigned = req[r].assigned
      /\ req'[r].needed = IF ~shut THEN proofs ELSE {}
      /\ req'[r].pc = IF shut THEN "denied" ELSE IF proofs # {} THEN "proofs" ELSE OnAllow(req[r].q)
  BY QueryType DEF ReadGate, Gates, TypeInv, TypeOK, Request
<1>3. GuestGateSatisfied(req[r].standing, req[r].assigned) <=> OnList(r)
  BY <1>1 DEF GuestGateSatisfied, OnList, IsPrivileged
<1>4. shut <=> GuestsOnly(r) /\ ~OnList(r)
  BY <1>3 DEF GuestListShut, GuestsOnly
<1>5. ~req[r].missing
  BY <1>1 DEF AsAtOnceOf, ProofsFit, ReadSteps
<1> HIDE DEF shut
<1>6. CASE shut
  BY <1>1, <1>2, <1>4, <1>6, SameFacts, RulesOf
  DEF AsAtOnceOf, StandingFits, RoomFits, ProofsFit, AnswerFits, Judging, Issuing, Passed, ReadSteps
<1>7. CASE ~shut /\ proofs # {}
  BY <1>1, <1>2, <1>4, <1>5, <1>7, SameFacts
  DEF AsAtOnceOf, StandingFits, RoomFits, ProofsFit, AnswerFits, Judging, Issuing, Passed, ReadSteps
<1>8. CASE ~shut /\ proofs = {}
  <2>1. MeetsRules(r)
    BY <1>1, <1>4, <1>8, RulesOf
  <2> QED
    BY <1>1, <1>2, <1>8, <2>1, AllowedFits
<1> QED
  BY <1>6, <1>7, <1>8

\* Each proof is looked up once, and none is forgotten.
LEMMA ProofFitsStep ==
    ASSUME TypeInv, GateRowsSay, NEW r \in Requests, AsAtOnceOf(r), ReadProof(r, TRUE)
    PROVE  AsAtOnceOf(r)'
<1>1. /\ req[r].pc = "proofs" /\ req[r].q.person # Operator /\ ~DeniedByStanding(Own(r))
      /\ IF Raised(r) THEN IsPrivileged(req[r].standing) ELSE req[r].standing = Own(r)
      /\ req[r].assigned = Given(r) /\ "block" \notin Given(r)
      /\ IsMedia(r) => Raised(r) \/ LetIn(r)
      /\ GuestsOnly(r) => OnList(r)
      /\ req[r].needed \subseteq Gates(r) \cap ProofTypes
      /\ req[r].missing <=> \E p \in (Gates(r) \cap ProofTypes) \ req[r].needed : Lacks(r, p)
  BY DEF ReadProof, AsAtOnceOf, AnswerFits, StandingFits, RoomFits, ProofsFit, ReadSteps, Judging
<1>2. PICK proof \in req[r].needed :
        req' = [req EXCEPT
          ![r].needed = req[r].needed \ {proof},
          ![r].missing = req[r].missing \/ Lacks(r, proof),
          ![r].pc = IF req[r].needed \ {proof} # {} THEN "proofs"
                    ELSE IF req[r].missing \/ Lacks(r, proof) THEN "denied"
                    ELSE OnAllow(req[r].q)]
  BY Zenon DEF ReadProof, Lacks
<1> DEFINE rest == req[r].needed \ {proof}
           missing == req[r].missing \/ Lacks(r, proof)
           proofs == Gates(r) \cap ProofTypes
<1>3. missing \in BOOLEAN
  BY QueryType DEF Request, Lacks
<1>4. /\ rows' = rows /\ places' = places
      /\ req' = [req EXCEPT ![r].needed = rest, ![r].missing = missing,
                   ![r].pc = IF rest # {} THEN "proofs"
                             ELSE IF missing THEN "denied" ELSE OnAllow(req[r].q)]
  BY <1>2, Zenon DEF ReadProof
<1>5. missing <=> \E p \in proofs \ rest : Lacks(r, p)
  BY <1>1, <1>2
<1> HIDE DEF missing
<1>6. /\ req'[r].q = req[r].q /\ req'[r].standing = req[r].standing
      /\ req'[r].assigned = req[r].assigned /\ req'[r].needed = rest /\ req'[r].missing = missing
      /\ req'[r].pc = IF rest # {} THEN "proofs" ELSE IF missing THEN "denied" ELSE OnAllow(req[r].q)
  BY <1>4, QueryType DEF Request, TypeInv, TypeOK
<1>7. CASE rest # {}
  BY <1>1, <1>4, <1>5, <1>6, <1>7, SameFacts
  DEF AsAtOnceOf, StandingFits, RoomFits, ProofsFit, AnswerFits, Judging, Issuing, Passed, ReadSteps
<1>8. CASE rest = {} /\ missing
  <2>1. ~MeetsRules(r)
    <3>1. \E p \in proofs : Lacks(r, p)
      BY <1>5, <1>8
    <3> QED
      BY <1>1, <3>1, RulesOf
  <2>2. req'[r].pc = "denied"
    BY <1>6, <1>8
  <2> QED
    BY <1>1, <1>4, <1>6, <2>1, <2>2, SameFacts
    DEF AsAtOnceOf, StandingFits, RoomFits, ProofsFit, AnswerFits, Judging, Issuing, Passed, ReadSteps
<1>9. CASE rest = {} /\ ~missing
  <2>1. MeetsRules(r)
    BY <1>1, <1>5, <1>9, RulesOf
  <2> QED
    BY <1>1, <1>4, <1>6, <1>9, <2>1, AllowedFits
<1> QED
  BY <1>7, <1>8, <1>9

\* The rights of a room for somebody who is privileged, and for others.
LEMMA GrantsOf ==
    ASSUME NEW r \in Requests, req[r].q.person # Operator
    PROVE  LET i == PermissionRow(rows, Now, req[r].q.person, req[r].q.room)
               grants == RoomGrants(rows, Now, places, req[r].q.person, req[r].q.room)
           IN  /\ Ranks(r, "media") \/ Ranks(r, "relay") \/ Ranks(r, "relay.admin")
                    => grants = {"publish", "subscribe"}
               /\ ~(Ranks(r, "media") \/ Ranks(r, "relay") \/ Ranks(r, "relay.admin"))
                  /\ (i # 0 \/ req[r].q.room \in GeohashRooms)
                    => grants = PermissionGrants(i, req[r].q.room)
BY DEF Ranks, RoomGrants, HasPrivilegedRoomAccess, PermissionGrants

\* Of a token request the capability is media.join.
LEMMA MintJoins ==
    ASSUME TypeInv, NEW r \in Requests, req[r].q.mint
    PROVE  req[r].q.cap = "media.join" /\ IsMedia(r)
<1>1. req[r].q \in Queries \cup {NoQuery}
  BY QueryType DEF Request
<1>2. ~NoQuery.mint
  BY DEF NoQuery
<1>3. req[r].q \in Queries
  BY <1>1, <1>2
<1> QED
  BY <1>3, InputAssumption DEF IsMedia, MediaCapabilities

\* The token service finds the same privilege again.
LEMMA IssueFitsStep ==
    ASSUME TypeInv, GateRowsSay, NEW r \in Requests, AsAtOnceOf(r), IssuePrivileged(r, TRUE)
    PROVE  AsAtOnceOf(r)'
<1> DEFINE pc == req[r].pc
           granted == IsPrivileged(Standing(rows, Now, req[r].q.person, IssueScope[pc]))
<1>1. pc \in {"issueMedia", "issueRelay", "issueAdmin"}
  BY DEF IssuePrivileged, IssueScope
<1>2. /\ req[r].q.person # Operator /\ req[r].q.mint /\ MeetsRules(r)
      /\ pc # "issueMedia" => ~Ranks(r, "media")
      /\ pc = "issueAdmin" => ~Ranks(r, "relay")
  BY <1>1 DEF AsAtOnceOf, AnswerFits, Issuing, Passed
<1>3. granted <=> Ranks(r, IssueScope[pc])
  BY DEF Ranks
<1>4. /\ rows' = rows /\ places' = places /\ req'[r].q = req[r].q
      /\ req'[r].grants = IF granted THEN {"publish", "subscribe"} ELSE {}
      /\ req'[r].pc = IF granted THEN "issued" ELSE AfterIssueScope[pc]
  BY QueryType DEF IssuePrivileged, TypeInv, TypeOK, Request
<1> HIDE DEF granted
<1>5. \/ pc = "issueMedia" /\ IssueScope[pc] = "media" /\ AfterIssueScope[pc] = "issueRelay"
      \/ pc = "issueRelay" /\ IssueScope[pc] = "relay" /\ AfterIssueScope[pc] = "issueAdmin"
      \/ pc = "issueAdmin" /\ IssueScope[pc] = "relay.admin" /\ AfterIssueScope[pc] = "issuePermission"
  BY <1>1 DEF IssueScope, AfterIssueScope
<1>6. granted => req'[r].grants = RoomGrants(rows, Now, places, req[r].q.person, req[r].q.room)
  BY <1>2, <1>3, <1>4, <1>5, GrantsOf
<1>7. Now' = Now
  BY <1>4 DEF Now
<1>8. \/ granted /\ req'[r].pc = "issued"
      \/ req'[r].pc = "issueRelay" /\ ~Ranks(r, "media")
      \/ req'[r].pc = "issueAdmin" /\ ~Ranks(r, "media") /\ ~Ranks(r, "relay")
      \/ /\ req'[r].pc = "issuePermission"
         /\ ~Ranks(r, "media") /\ ~Ranks(r, "relay") /\ ~Ranks(r, "relay.admin")
  BY <1>2, <1>3, <1>4, <1>5
<1> QED
  BY <1>2, <1>4, <1>6, <1>7, <1>8, SameFacts
  DEF AsAtOnceOf, StandingFits, RoomFits, ProofsFit, AnswerFits, Judging, Issuing, Passed, ReadSteps

\* It finds the permission, or the room, that let the person in.
LEMMA PermissionIssueFitsStep ==
    ASSUME TypeInv, GateRowsSay, NEW r \in Requests, AsAtOnceOf(r), IssueFromPermission(r, TRUE)
    PROVE  AsAtOnceOf(r)'
<1> DEFINE i == PermissionRow(rows, Now, req[r].q.person, req[r].q.room)
<1>1. /\ req[r].q.person # Operator /\ req[r].q.mint /\ MeetsRules(r)
      /\ ~Ranks(r, "media") /\ ~Ranks(r, "relay") /\ ~Ranks(r, "relay.admin")
  BY DEF IssueFromPermission, AsAtOnceOf, AnswerFits, Issuing, Passed
<1>2. LetIn(r) /\ req[r].q.cap = "media.join"
  BY <1>1, MintJoins, RaisedBy, RulesOf
<1>3. i # 0 \/ req[r].q.room \in GeohashRooms
  BY <1>2 DEF LetIn, RoomAllows, DefaultRoomGrants
<1>4. /\ rows' = rows /\ places' = places /\ req'[r].q = req[r].q
      /\ req'[r].grants = PermissionGrants(i, req[r].q.room) /\ req'[r].pc = "issued"
  BY <1>3, QueryType DEF IssueFromPermission, TypeInv, TypeOK, Request
<1>5. req'[r].grants = RoomGrants(rows, Now, places, req[r].q.person, req[r].q.room)
  BY <1>1, <1>3, <1>4, GrantsOf
<1>6. Now' = Now
  BY <1>4 DEF Now
<1> QED
  BY <1>1, <1>4, <1>5, <1>6, SameFacts
  DEF AsAtOnceOf, StandingFits, RoomFits, ProofsFit, AnswerFits, Judging, Issuing, Passed, ReadSteps

\* A request that begins or ends has found nothing yet.
LEMMA BeginFitsStep ==
    ASSUME TypeInv, NEW r \in Requests, BeginQuery(r) \/ Respond(r)
    PROVE  AsAtOnceOf(r)'
<1>1. CASE BeginQuery(r)
  <2>1. PICK q \in Queries :
          req' = [req EXCEPT ![r] =
                   [pc |-> IF q.person # Operator THEN "standing"
                           ELSE IF q.mint THEN "issued" ELSE "allowed",
                    q |-> q, began |-> Now, standing |-> {}, assigned |-> {},
                    needed |-> {}, missing |-> FALSE,
                    grants |-> IF q.person = Operator /\ q.mint
                                 THEN {"publish", "subscribe"} ELSE {}]]
    BY <1>1 DEF BeginQuery
  <2>2. /\ req'[r].q = q /\ req'[r].missing = FALSE
        /\ req'[r].pc = IF q.person # Operator THEN "standing"
                        ELSE IF q.mint THEN "issued" ELSE "allowed"
        /\ req'[r].grants = IF q.person = Operator /\ q.mint THEN {"publish", "subscribe"} ELSE {}
    BY <2>1 DEF TypeInv, TypeOK
  <2>3. q.person = Operator => MeetsRules(r)'
    BY <2>2 DEF MeetsRules, Allowed
  <2>4. q.person = Operator /\ q.mint =>
          req'[r].grants = RoomGrants(rows, Now, places, req[r].q.person, req[r].q.room)'
    BY <2>2 DEF RoomGrants
  <2> QED
    BY <2>2, <2>3, <2>4
    DEF AsAtOnceOf, StandingFits, RoomFits, ProofsFit, AnswerFits, Judging, Issuing, Passed, ReadSteps
<1>2. CASE Respond(r)
  <2>1. req'[r].pc = "idle"
    BY <1>2 DEF Respond, TypeInv, TypeOK, IdleRequest
  <2> QED
    BY <2>1
    DEF AsAtOnceOf, StandingFits, RoomFits, ProofsFit, AnswerFits, Judging, Issuing, Passed, ReadSteps
<1> QED
  BY <1>1, <1>2

\* A request that is not touched, nor the store.
LEMMA UntouchedFits ==
    ASSUME NEW r \in Requests, rows' = rows, places' = places, req'[r] = req[r], AsAtOnceOf(r)
    PROVE  AsAtOnceOf(r)'
BY SameFacts DEF AsAtOnceOf, StandingFits, RoomFits, ProofsFit, AnswerFits, Now

\* Nor one that has not begun.
LEMMA IdleFits == ASSUME NEW r \in Requests, req[r].pc = "idle" PROVE AsAtOnceOf(r)
BY DEF AsAtOnceOf, StandingFits, RoomFits, ProofsFit, AnswerFits, Judging, Issuing, Passed, ReadSteps

\* A step of one request leaves the others alone and fits itself.
LEMMA RequestFits ==
    ASSUME TypeInv, BeganBefore, GateRowsSay, AsAtOnce, StoreFails = FALSE,
           NEW r \in Requests, RequestStep(r)
    PROVE  AsAtOnce'
<1>1. rows' = rows /\ places' = places /\ \A g \in Requests \ {r} : req'[g] = req[g]
  <2>1. req \in [Requests -> Request]
    BY DEF TypeInv, TypeOK
  <2> QED
    BY <2>1 DEF RequestStep, BeginQuery, Respond, ReadStanding, ReadPrivileged,
       ReadAssignments, ReadPermission, ReadGate, ReadProof, IssuePrivileged,
       IssueFromPermission
<1>2. Now' = Now
  BY <1>1 DEF Now
<1>3. ASSUME NEW g \in Requests \ {r}, req'[g].began = Now PROVE AsAtOnceOf(g)'
  BY <1>1, <1>3, UntouchedFits DEF AsAtOnce
<1>4. CASE BeginQuery(r) \/ Respond(r)
  <2>1. AsAtOnceOf(r)'
    BY <1>4, BeginFitsStep
  <2> QED
    BY <1>2, <1>3, <2>1 DEF AsAtOnce
<1>5. CASE ~(BeginQuery(r) \/ Respond(r))
  <2>1. req'[r].began = req[r].began
    <3>1. req \in [Requests -> Request] /\ req[r] \in Request
      BY DEF TypeInv, TypeOK
    <3>2. ASSUME NEW ok \in Outcomes, ReadProof(r, ok) PROVE req'[r].began = req[r].began
      <4>1. PICK proof \in req[r].needed :
              LET missing == req[r].missing \/ ~HasProof(rows, Now, req[r].q.person, proof)
                  rest == req[r].needed \ {proof}
              IN  req' = [req EXCEPT
                            ![r].needed = rest,
                            ![r].missing = missing,
                            ![r].pc = IF ~ok THEN "denied"
                                      ELSE IF rest # {} THEN "proofs"
                                      ELSE IF missing THEN "denied" ELSE OnAllow(req[r].q)]
        BY <3>2, Zenon DEF ReadProof
      <4> DEFINE missing == req[r].missing \/ ~HasProof(rows, Now, req[r].q.person, proof)
                 rest == req[r].needed \ {proof}
                 pc == IF ~ok THEN "denied" ELSE IF rest # {} THEN "proofs"
                       ELSE IF missing THEN "denied" ELSE OnAllow(req[r].q)
      <4>2. req' = [req EXCEPT ![r].needed = rest, ![r].missing = missing, ![r].pc = pc]
        BY <4>1, Zenon
      <4> HIDE DEF missing, rest, pc
      <4> QED
        BY <3>1, <4>2 DEF Request
    <3>3. ASSUME NEW ok \in Outcomes,
                 \/ ReadStanding(r, ok) \/ ReadPrivileged(r, ok) \/ ReadAssignments(r, ok)
                 \/ ReadPermission(r, ok) \/ ReadGate(r, ok)
                 \/ IssuePrivileged(r, ok) \/ IssueFromPermission(r, ok)
          PROVE  req'[r].began = req[r].began
      BY <3>1, <3>3 DEF ReadStanding, ReadPrivileged, ReadAssignments, ReadPermission, ReadGate,
         IssuePrivileged, IssueFromPermission, Request
    <3> QED
      BY <1>5, <3>2, <3>3 DEF RequestStep
  <2>2. ASSUME req[r].began = Now PROVE AsAtOnceOf(r)'
    <3>1. AsAtOnceOf(r)
      BY <2>2 DEF AsAtOnce
    <3>2. \/ ReadStanding(r, TRUE) \/ ReadPrivileged(r, TRUE) \/ ReadAssignments(r, TRUE)
          \/ ReadPermission(r, TRUE) \/ ReadGate(r, TRUE) \/ ReadProof(r, TRUE)
          \/ IssuePrivileged(r, TRUE) \/ IssueFromPermission(r, TRUE)
      BY <1>5 DEF RequestStep, Outcomes
    <3> QED
      BY <3>1, <3>2, StandingFitsStep, PrivilegedFitsStep, AssignmentsFitStep, PermissionFitsStep,
         GateFitsStep, ProofFitsStep, IssueFitsStep, PermissionIssueFitsStep
  <2> QED
    BY <1>2, <1>3, <2>1, <2>2 DEF AsAtOnce
<1> QED
  BY <1>4, <1>5

\* An INSERT ends the quiet of every request that is under way.
LEMMA AsAtOnceKept ==
    ASSUME TypeInv, BeganBefore, GateRowsSay, AsAtOnce, StoreFails = FALSE, [Next]_vars
    PROVE  AsAtOnce'
<1>1. Now = Len(rows) /\ Now \in Nat /\ rows \in Seq(Row)
  BY DEF TypeInv, TypeOK, Now
<1>2. ASSUME rows' = rows, places' = places, req' = req PROVE AsAtOnce'
  BY <1>2, UntouchedFits DEF AsAtOnce, Now
<1>3. ASSUME NEW e \in Row, rows' = Append(rows, e), req' = req PROVE AsAtOnce'
  <2>1. \A r \in Requests : req'[r].began # Now'
    BY <1>1, <1>3 DEF BeganBefore, Now
  <2> QED
    BY <2>1 DEF AsAtOnce
<1>4. ASSUME NEW r \in Requests, RequestStep(r) PROVE AsAtOnce'
  BY <1>4, RequestFits
<1>5. ASSUME NEW h \in Handlers, HandlerStep(h) PROVE AsAtOnce'
  <2>1. req' = req /\ places' = places /\ (rows' = rows \/ rows' = Append(rows, adm[h].row))
    BY <1>5 DEF HandlerStep, BeginAdmin, BeginOAuthCallback, CheckAdmin, WriteRow, WriteAudit
  <2>2. adm[h].row \in Row
    BY IdleTypes DEF TypeInv, TypeOK, Handler
  <2> QED
    BY <1>2, <1>3, <2>1, <2>2
<1>6. ASSUME NEW person \in People, NEW room \in Rooms, CreateBeacon(person, room)
      PROVE  AsAtOnce'
  <2>1. req' = req /\ \E e \in Row : rows' = Append(rows, e)
    BY <1>6, WrittenRowTypes DEF CreateBeacon
  <2> QED
    BY <1>3, <2>1
<1>7. CASE Restart
  <2>1. \A r \in Requests : req'[r].pc = "idle"
    BY <1>7 DEF Restart, IdleRequest
  <2>2. \A r \in Requests : AsAtOnceOf(r)'
    BY <2>1
    DEF AsAtOnceOf, StandingFits, RoomFits, ProofsFit, AnswerFits, Judging, Issuing, Passed, ReadSteps
  <2> QED
    BY <2>2 DEF AsAtOnce
<1>8. CASE UNCHANGED vars
  BY <1>2, <1>8 DEF vars
<1> QED
  BY <1>4, <1>5, <1>6, <1>7, <1>8 DEF Next

\* While the store answers, a request during which nothing is written is decided
\* as the rules decide at once, in both directions, and its token has the rights
\* of the room.
THEOREM DecisionsAreAsAtOnce ==
    ASSUME StoreFails = FALSE PROVE Spec => []AnsweredAsAtOnce
<1>1. TypeInv /\ BeganBefore /\ GateRowsSay /\ AsAtOnce /\ [Next]_vars
        => BeganBefore' /\ GateRowsSay' /\ AsAtOnce'
  BY StepKeepsJudgements, GateRowsKept, AsAtOnceKept
<1>2. Init => BeganBefore /\ GateRowsSay /\ AsAtOnce
  <2>1. Init => GateRowsSay
    BY DEF Init, GateRowsSay, IdleHandler, NoRow
  <2>2. Init => AsAtOnce
    BY IdleFits DEF Init, IdleRequest, AsAtOnce
  <2> QED
    BY <2>1, <2>2, InitJudgements
<1>3. AsAtOnce => AnsweredAsAtOnce
  BY DEF AsAtOnce, AnsweredAsAtOnce, AsAtOnceOf, AnswerFits, MeetsRules
<1> QED
  BY <1>1, <1>2, <1>3, TypeCorrect, PTL DEF Spec
=============================================================================
