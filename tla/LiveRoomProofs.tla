--------------------------- MODULE LiveRoomProofs ---------------------------
(* What LiveKit lets people do follows from the policy, for every room,    *)
(* number of admins, people and rows.                                      *)
EXTENDS LiveRoom, PolicyLemmas, TLAPS

-----------------------------------------------------------------------------
(* Lookups. *)

\* The newest row is found first: at the version it makes, a live permission
\* row is the one the token service goes by.
LEMMA NewRowIsFound ==
    ASSUME NEW s \in Seq(Row), NEW i \in 1..Len(s), NEW person, NEW room,
           s[i].kind = "permission", s[i].key = person, s[i].form = "hex",
           s[i].scope = room, ~s[i].revoked
    PROVE  PermissionRow(s, i, person, room) = i
<1> DEFINE S == InScope(s, ActiveRows(s, i, "permission", person, "hex"), room)
           L == {LatestRoomPermission(s, i, person, f, room) : f \in Aliases}
<1>0. i \in Nat
  OBVIOUS
<1>1. S \in SUBSET (0..i) /\ i \in S
  BY DEF InScope, ActiveRows
<1>2. Newest(S) \in S /\ i <= Newest(S)
  <2> HIDE DEF S
  <2> QED
    BY <1>0, <1>1, NewestIsMember
<1>3. LatestRoomPermission(s, i, person, "hex", room) = i
  BY <1>1, <1>2 DEF LatestRoomPermission
<1>4. L \in SUBSET (0..i) /\ i \in L
  BY <1>3, LatestPermissionBound DEF Aliases
<1>5. Newest(L) \in L /\ i <= Newest(L)
  <2> HIDE DEF L
  <2> QED
    BY <1>0, <1>4, NewestIsMember
<1>6. Newest(L) = i
  <2>1. Newest(L) \in 0..i
    <3> HIDE DEF L
    <3> QED
      BY <1>4, <1>5
  <2>2. \A n \in 0..i : i <= n => n = i
    BY <1>0
  <2> QED
    BY <1>5, <2>1, <2>2
<1> QED
  BY <1>6 DEF PermissionRow

-----------------------------------------------------------------------------
(* The inductive invariant. *)

\* What a token carries was granted at the version it was read at, and what
\* the handlers are telling LiveKit are room permissions.
HeldWasGranted ==
    \A t \in tokens : \A right \in t.grants :
        right \in RoomGrants(rows, t.asOf, {}, t.of, Room)
UpdatesArePermissions ==
    /\ \A h \in Handlers : upd[h].pc # "idle" => upd[h].at # 0 /\ rows[upd[h].at].kind = "permission"
    /\ \A i \in late : rows[i].kind = "permission"

RoomInv == TypeOK /\ HeldWasGranted /\ UpdatesArePermissions /\ LiveRightsWereGranted

\* The rights of a row that reaches somebody are those a token would carry at
\* the version the row makes.
LEMMA SyncedRightsAreGranted ==
    ASSUME NEW i \in DOMAIN rows, rows \in Seq(Row), rows[i].kind = "permission",
           Finds(i), NEW right \in SyncRights(rows[i])
    PROVE  right \in RoomGrants(rows, i, {}, rows[i].key, Room)
<1>1. ~rows[i].revoked /\ right \in rows[i].says \cap Rights
  BY DEF SyncRights
<1>2. PermissionRow(rows, i, rows[i].key, Room) = i
  <2>1. i \in 1..Len(rows)
    OBVIOUS
  <2> QED
    BY <1>1, <2>1, NewRowIsFound DEF Finds
<1>3. i # 0
  OBVIOUS
<1> QED
  BY <1>1, <1>2, <1>3 DEF RoomGrants, Rights

\* One row more does not take away what was granted at the versions before.
LEMMA AppendKeepsGrants ==
    ASSUME NEW e \in Row, rows \in Seq(Row), rows' = Append(rows, e),
           NEW p, NEW v \in 0..Now
    PROVE  RoomGrants(rows', v, {}, p, Room) = RoomGrants(rows, v, {}, p, Room)
BY RoomStable DEF Now

\* Every step keeps the types.
LEMMA TypeStep == TypeOK /\ UpdatesArePermissions /\ [Next]_vars => TypeOK'
<1> SUFFICES ASSUME TypeOK, UpdatesArePermissions, [Next]_vars PROVE TypeOK'
  OBVIOUS
<1> USE LiveRoomAssumption
<1> DEFINE Told == {"nothing", "applied", "absent", "warning"}
<1>0. /\ Now \in Nat /\ DOMAIN rows = 1..Now /\ 0 \in 0..Now
      /\ Outside \in [in: BOOLEAN, rights: SUBSET Rights, asOf: 0..Now]
      /\ IdleUpdate \in [pc: {"idle", "sync", "done"}, at: 0..Now, found: BOOLEAN]
  BY DEF TypeOK, Now, Outside, IdleUpdate, Rights
<1>1. ASSUME NEW r \in Requests, NEW p \in Callers, Ask(r, p) PROVE TypeOK'
  BY <1>1 DEF TypeOK, Ask, Now
<1>2. ASSUME NEW r \in Requests, Issue(r) PROVE TypeOK'
  <2> DEFINE grants == RoomGrants(rows, Now, {}, asked[r], Room)
  <2>1. grants \subseteq Rights \cup {"refused"}
    BY DEF RoomGrants, DefaultRoomGrants, Rights
  <2> HIDE DEF grants
  <2>2. asked[r] \in Callers
    BY <1>2 DEF TypeOK, Issue
  <2>3. "refused" \notin grants => [of |-> asked[r], grants |-> grants, asOf |-> Now]
            \in [of: Callers, grants: SUBSET Rights, asOf: 0..Now]
    BY <1>0, <2>1, <2>2
  <2>4. tokens' \subseteq [of: Callers, grants: SUBSET Rights, asOf: 0..Now]
    BY <1>2, <2>3 DEF TypeOK, Issue, grants
  <2> QED
    BY <1>2, <2>4 DEF TypeOK, Issue, Now
<1>3. ASSUME NEW t \in tokens, Connect(t) PROVE TypeOK'
  <2>1. t.of \in People /\ t.grants \in SUBSET Rights /\ t.asOf \in 0..Now
    BY DEF TypeOK
  <2> QED
    BY <1>3, <2>1 DEF TypeOK, Connect, Now
<1>4. ASSUME NEW p \in People, Leave(p) PROVE TypeOK'
  BY <1>0, <1>4 DEF TypeOK, Leave, Now
<1>13. ASSUME NEW t \in tokens, Expire(t) PROVE TypeOK'
  BY <1>13 DEF TypeOK, Expire, Now
<1>5. ASSUME NEW h \in Handlers, Write(h) PROVE TypeOK'
  <2>1. PICK row \in RowInputs : rows' = Append(rows, row)
    BY <1>5 DEF Write
  <2>2. rows' \in Seq(RowInputs) /\ Now' = Now + 1 /\ Now' <= MaxRows /\ DOMAIN rows' = 1..(Now + 1)
    BY <1>0, <1>5, <2>1 DEF TypeOK, Write, Now
  <2>3. told' \in [1..(Now + 1) -> Told]
    <3>1. told \in Seq(Told) /\ Len(told) = Now
      BY <1>0 DEF TypeOK
    <3> HIDE DEF Told
    <3>2. "nothing" \in Told
      BY DEF Told
    <3>3. Append(told, "nothing") \in Seq(Told) /\ Len(Append(told, "nothing")) = Now + 1
      BY <1>0, <3>1, <3>2
    <3>4. \A seq \in Seq(Told) : seq \in [1..Len(seq) -> Told]
      OBVIOUS
    <3>5. Append(told, "nothing") \in [1..(Now + 1) -> Told]
      <4> DEFINE seq == Append(told, "nothing")
      <4> HIDE DEF seq
      <4> QED
        BY <3>3, <3>4 DEF seq
    <3> QED
      BY <1>5, <3>5 DEF Write
  <2>4. 0..Now \subseteq 0..(Now + 1) /\ 1..Now \subseteq 1..(Now + 1) /\ Now + 1 \in 0..(Now + 1)
    BY <1>0
  <2>5. /\ tokens' \subseteq [of: Callers, grants: SUBSET Rights, asOf: 0..(Now + 1)]
        /\ asked' \in [Requests -> Callers \cup {Nobody}]
    BY <1>5, <2>4 DEF TypeOK, Write
  <2>6. live' \in [People -> [in: BOOLEAN, rights: SUBSET Rights, asOf: 0..(Now + 1)]]
    BY <1>5, <2>4 DEF TypeOK, Write
  <2>7. upd' \in [Handlers -> [pc: {"idle", "sync", "done"}, at: 0..(Now + 1), found: BOOLEAN]]
    <3> DEFINE U == [pc: {"idle", "sync", "done"}, at: 0..(Now + 1), found: BOOLEAN]
    <3>1. upd \in [Handlers -> U]
      BY <2>4 DEF TypeOK
    <3>2. [pc |-> "sync", at |-> Now + 1, found |-> FALSE] \in U
      BY <2>4
    <3> HIDE DEF U
    <3>3. \/ upd' = [upd EXCEPT ![h] = [pc |-> "sync", at |-> Now + 1, found |-> FALSE]]
          \/ upd' = upd
      BY <1>5 DEF Write
    <3>4. upd' \in [Handlers -> U]
      BY <3>1, <3>2, <3>3
    <3> QED
      BY <3>4 DEF U
  <2>8. late' \subseteq 1..(Now + 1)
    BY <1>0, <1>5, <2>4 DEF TypeOK, Write
  <2> QED
    BY <2>2, <2>3, <2>5, <2>6, <2>7, <2>8 DEF TypeOK
<1>6. ASSUME NEW i \in DOMAIN rows
      PROVE  Landed(i) \in [People -> [in: BOOLEAN, rights: SUBSET Rights, asOf: 0..Now]]
  <2>1. SyncRights(rows[i]) \in SUBSET Rights
    BY DEF SyncRights
  <2>2. i \in 0..Now
    BY <1>0
  <2> DEFINE P == [in: BOOLEAN, rights: SUBSET Rights, asOf: 0..Now]
             k == rows[i].key
             r == SyncRights(rows[i])
  <2>3. live \in [People -> P]
    BY DEF TypeOK
  <2>4. ASSUME NEW p \in P
        PROVE  [p EXCEPT !.rights = r, !.asOf = i] \in P
    <3> HIDE DEF r
    <3> QED
      BY <2>1, <2>2, <2>4 DEF r
  <2>5. Landed(i) = live \/ Landed(i) = [live EXCEPT ![k].rights = r, ![k].asOf = i]
    BY DEF Landed
  <2>6. ASSUME k \in People
        PROVE  [live EXCEPT ![k].rights = r, ![k].asOf = i] = [live EXCEPT ![k] = [live[k] EXCEPT !.rights = r, !.asOf = i]]
    <3> HIDE DEF k, r, P
    <3> QED
      BY <2>3, <2>6
  <2> HIDE DEF P, k, r
  <2>7. CASE k \in People
    <3>1. [live[k] EXCEPT !.rights = r, !.asOf = i] \in P
      BY <2>3, <2>4, <2>7
    <3>2. [live EXCEPT ![k] = [live[k] EXCEPT !.rights = r, !.asOf = i]] \in [People -> P]
      BY <2>3, <3>1
    <3>3. Landed(i) \in [People -> P]
      BY <2>3, <2>5, <2>6, <2>7, <3>2
    <3> QED
      BY <3>3 DEF P
  <2>8. CASE k \notin People
    <3>1. [live EXCEPT ![k].rights = r, ![k].asOf = i] = live
      BY <2>3, <2>8
    <3>2. Landed(i) \in [People -> P]
      BY <2>3, <2>5, <3>1
    <3> QED
      BY <3>2 DEF P
  <2> QED
    BY <2>7, <2>8
<1>7. ASSUME NEW h \in Handlers, Sync(h) PROVE TypeOK'
  <2>1. upd[h].at \in DOMAIN rows
    BY <1>0, <1>7 DEF TypeOK, Sync, UpdatesArePermissions
  <2>2. Finds(upd[h].at) \in BOOLEAN
    <3>1. live[rows[upd[h].at].key].in \in BOOLEAN
      <4>1. rows[upd[h].at] \in RowInputs /\ rows[upd[h].at].kind = "permission"
        BY <1>7, <2>1 DEF TypeOK, Sync, UpdatesArePermissions
      <4> QED
        BY <4>1 DEF TypeOK
    <3> QED
      BY <3>1 DEF Finds
  <2> DEFINE f == Finds(upd[h].at)
  <2>3. upd' = [upd EXCEPT ![h].pc = "done", ![h].found = f]
    BY <1>7 DEF Sync
  <2> HIDE DEF f
  <2>4. upd' \in [Handlers -> [pc: {"idle", "sync", "done"}, at: 0..Now, found: BOOLEAN]]
    BY <2>2, <2>3 DEF TypeOK, f
  <2>5. live' \in [People -> [in: BOOLEAN, rights: SUBSET Rights, asOf: 0..Now]]
    BY <1>6, <1>7, <2>1 DEF Sync
  <2> QED
    BY <1>7, <2>4, <2>5 DEF TypeOK, Sync, Now
<1>8. ASSUME NEW h \in Handlers, Answer(h) PROVE TypeOK'
  BY <1>0, <1>8 DEF TypeOK, Answer, Now
<1>9. ASSUME NEW h \in Handlers, GiveUp(h) PROVE TypeOK'
  <2>1. upd[h].at \in DOMAIN rows
    BY <1>0, <1>9 DEF TypeOK, GiveUp, UpdatesArePermissions
  <2> QED
    BY <1>0, <1>9, <2>1 DEF TypeOK, GiveUp, Now
<1>10. ASSUME NEW i \in late, SyncLate(i) PROVE TypeOK'
  BY <1>6, <1>10 DEF TypeOK, SyncLate, Now
<1>11. CASE Restart
  <2>1. \A h \in Handlers : upd[h].pc = "sync" => upd[h].at \in DOMAIN rows
    BY <1>0 DEF TypeOK, UpdatesArePermissions
  <2>2. PICK sent \in SUBSET {upd[h].at : h \in {g \in Handlers : upd[g].pc = "sync"}} :
          late' = late \cup sent
    BY <1>11 DEF Restart
  <2>3. late' \subseteq DOMAIN rows
    BY <2>1, <2>2 DEF TypeOK
  <2> QED
    BY <1>0, <1>11, <2>3 DEF TypeOK, Restart, Now
<1>12. CASE UNCHANGED vars
  BY <1>12 DEF TypeOK, vars, Now
<1> QED
  BY <1>1, <1>2, <1>3, <1>4, <1>5, <1>7, <1>8, <1>9, <1>10, <1>11, <1>12, <1>13 DEF Next

\* Only room permissions are ever on their way to LiveKit.
LEMMA UpdateStep == TypeOK /\ UpdatesArePermissions /\ [Next]_vars => UpdatesArePermissions'
<1> SUFFICES ASSUME TypeOK, UpdatesArePermissions, [Next]_vars PROVE UpdatesArePermissions'
  OBVIOUS
<1> USE LiveRoomAssumption
<1>0. Now \in Nat /\ DOMAIN rows = 1..Now /\ rows \in Seq(RowInputs)
  BY DEF TypeOK, Now
<1>1. ASSUME UNCHANGED <<rows, upd, late>> PROVE UpdatesArePermissions'
  BY <1>1 DEF UpdatesArePermissions
<1>2. ASSUME NEW h \in Handlers, Write(h) PROVE UpdatesArePermissions'
  <2>1. PICK row \in RowInputs :
          /\ rows' = Append(rows, row)
          /\ upd' = IF row.kind = "permission"
                      THEN [upd EXCEPT ![h] = [pc |-> "sync", at |-> Now + 1, found |-> FALSE]]
                      ELSE upd
    BY <1>2 DEF Write
  <2>2. rows'[Now + 1] = row /\ \A i \in 1..Now : rows'[i] = rows[i]
    BY <1>0, <2>1 DEF Now
  <2>3. \A i \in late : rows'[i].kind = "permission"
    BY <1>0, <2>2 DEF TypeOK, UpdatesArePermissions
  <2>4. ASSUME NEW g \in Handlers, upd'[g].pc # "idle"
        PROVE  upd'[g].at # 0 /\ rows'[upd'[g].at].kind = "permission"
    <3>1. CASE g = h /\ row.kind = "permission"
      BY <1>0, <2>1, <2>2, <3>1 DEF TypeOK
    <3>2. CASE ~(g = h /\ row.kind = "permission")
      <4>1. upd'[g] = upd[g]
        BY <2>1, <3>2 DEF TypeOK
      <4>2. upd[g].at \in 1..Now
        BY <1>0, <2>4, <4>1 DEF TypeOK, UpdatesArePermissions
      <4> QED
        BY <2>2, <2>4, <4>1, <4>2 DEF UpdatesArePermissions
    <3> QED
      BY <3>1, <3>2
  <2>5. late' = late
    BY <1>2 DEF Write
  <2> QED
    BY <2>3, <2>4, <2>5 DEF UpdatesArePermissions
<1>3. ASSUME NEW h \in Handlers, Sync(h) PROVE UpdatesArePermissions'
  BY <1>3 DEF Sync, TypeOK, UpdatesArePermissions
<1>4. ASSUME NEW h \in Handlers, Answer(h) PROVE UpdatesArePermissions'
  BY <1>4 DEF Answer, TypeOK, UpdatesArePermissions, IdleUpdate
<1>5. ASSUME NEW h \in Handlers, GiveUp(h) PROVE UpdatesArePermissions'
  BY <1>5 DEF GiveUp, TypeOK, UpdatesArePermissions, IdleUpdate
<1>6. ASSUME NEW i \in late, SyncLate(i) PROVE UpdatesArePermissions'
  BY <1>6 DEF SyncLate, UpdatesArePermissions
<1>7. CASE Restart
  <2>1. PICK sent \in SUBSET {upd[h].at : h \in {g \in Handlers : upd[g].pc = "sync"}} :
          late' = late \cup sent
    BY <1>7 DEF Restart
  <2>2. \A i \in late' : rows[i].kind = "permission"
    BY <2>1 DEF UpdatesArePermissions
  <2> QED
    BY <1>7, <2>2 DEF Restart, IdleUpdate, UpdatesArePermissions
<1>8. ASSUME \/ \E r \in Requests : (\E p \in Callers : Ask(r, p)) \/ Issue(r)
             \/ \E t \in tokens : Connect(t) \/ Expire(t)
             \/ \E p \in Callers : Leave(p)
      PROVE  UNCHANGED <<rows, upd, late>>
  BY <1>8 DEF Ask, Issue, Connect, Leave, Expire
<1>9. CASE UNCHANGED vars
  BY <1>1, <1>9 DEF vars
<1> QED
  BY <1>1, <1>2, <1>3, <1>4, <1>5, <1>6, <1>7, <1>8, <1>9 DEF Next

\* The grants of a token are those of the version it was read at, also when
\* the store has grown.
LEMMA HeldStep == TypeOK /\ HeldWasGranted /\ [Next]_vars => HeldWasGranted'
<1> SUFFICES ASSUME TypeOK, HeldWasGranted, [Next]_vars PROVE HeldWasGranted'
  OBVIOUS
<1> USE LiveRoomAssumption
<1>1. ASSUME rows' = rows, tokens' \subseteq tokens PROVE HeldWasGranted'
  BY <1>1 DEF HeldWasGranted
<1>2. ASSUME NEW r \in Requests, Issue(r) PROVE HeldWasGranted'
  <2> DEFINE grants == RoomGrants(rows, Now, {}, asked[r], Room)
             new == [of |-> asked[r], grants |-> grants, asOf |-> Now]
  <2>1. rows' = rows /\ tokens' \subseteq tokens \cup {new}
    BY <1>2 DEF Issue
  <2>2. \A right \in new.grants : right \in RoomGrants(rows, new.asOf, {}, new.of, Room)
    OBVIOUS
  <2> HIDE DEF new
  <2> QED
    BY <2>1, <2>2 DEF HeldWasGranted
<1>3. ASSUME NEW h \in Handlers, Write(h) PROVE HeldWasGranted'
  <2>1. PICK row \in Row : rows' = Append(rows, row)
    BY <1>3 DEF Write
  <2>2. rows \in Seq(Row) /\ \A t \in tokens : t.asOf \in 0..Now
    BY DEF TypeOK
  <2>3. \A t \in tokens :
          RoomGrants(rows', t.asOf, {}, t.of, Room) = RoomGrants(rows, t.asOf, {}, t.of, Room)
    BY <2>1, <2>2, AppendKeepsGrants
  <2>4. tokens' = tokens
    BY <1>3 DEF Write
  <2> QED
    BY <2>3, <2>4 DEF HeldWasGranted
<1>4. ASSUME NEW r \in Requests, NEW p \in Callers, Ask(r, p) PROVE HeldWasGranted'
  BY <1>1, <1>4 DEF Ask
<1>5. ASSUME NEW t \in tokens, Connect(t) \/ Expire(t) PROVE HeldWasGranted'
  BY <1>1, <1>5 DEF Connect, Expire
<1>6. ASSUME NEW p \in Callers, Leave(p) PROVE HeldWasGranted'
  BY <1>1, <1>6 DEF Leave
<1>7. ASSUME NEW h \in Handlers, Sync(h) \/ Answer(h) \/ GiveUp(h) PROVE HeldWasGranted'
  BY <1>1, <1>7 DEF Sync, Answer, GiveUp
<1>8. ASSUME NEW i \in late, SyncLate(i) PROVE HeldWasGranted'
  BY <1>1, <1>8 DEF SyncLate
<1>9. CASE Restart
  BY <1>1, <1>9 DEF Restart
<1>10. CASE UNCHANGED vars
  BY <1>1, <1>10 DEF vars
<1> QED
  BY <1>2, <1>3, <1>4, <1>5, <1>6, <1>7, <1>8, <1>9, <1>10 DEF Next

\* A right that comes into the room is a token's or a row's; one that is
\* there was granted at a version that is still there.
LEMMA LiveStep == RoomInv /\ [Next]_vars => LiveRightsWereGranted'
<1> SUFFICES ASSUME RoomInv, [Next]_vars PROVE LiveRightsWereGranted'
  OBVIOUS
<1> USE LiveRoomAssumption DEF RoomInv
<1>0. Now \in Nat /\ DOMAIN rows = 1..Now /\ rows \in Seq(RowInputs) /\ rows \in Seq(Row)
  BY DEF TypeOK, Now
<1>1. ASSUME UNCHANGED <<rows, live>> PROVE LiveRightsWereGranted'
  BY <1>1 DEF LiveRightsWereGranted, Now
<1>2. ASSUME NEW i \in DOMAIN rows, rows[i].kind = "permission", live' = Landed(i), rows' = rows
      PROVE  LiveRightsWereGranted'
  <2>1. ASSUME NEW q \in People, NEW right \in live'[q].rights
        PROVE  \E v \in 0..Now : right \in RoomGrants(rows, v, {}, q, Room)
    <3>1. CASE live'[q].rights = live[q].rights
      BY <2>1, <3>1 DEF LiveRightsWereGranted
    <3>2. CASE Finds(i) /\ q = rows[i].key
      <4> DEFINE r == SyncRights(rows[i])
      <4>1. live' = [live EXCEPT ![q].rights = r, ![q].asOf = i]
        BY <1>2, <3>2 DEF Landed
      <4> HIDE DEF r
      <4>2. live'[q].rights = r
        BY <4>1 DEF TypeOK
      <4>3. right \in RoomGrants(rows, i, {}, rows[i].key, Room)
        BY <1>0, <1>2, <2>1, <3>2, <4>2, SyncedRightsAreGranted DEF r
      <4>4. i \in 0..Now
        BY <1>0
      <4> QED
        BY <3>2, <4>3, <4>4
    <3>3. ~(Finds(i) /\ q = rows[i].key) => live'[q].rights = live[q].rights
      <4>1. CASE ~Finds(i)
        BY <1>2, <4>1 DEF Landed
      <4>2. CASE Finds(i) /\ q # rows[i].key
        BY <1>2, <4>2 DEF Landed, TypeOK
      <4> QED
        BY <4>1, <4>2
    <3> QED
      BY <3>1, <3>2, <3>3
  <2> QED
    BY <1>2, <2>1 DEF LiveRightsWereGranted, Now
<1>3. ASSUME NEW t \in tokens, Connect(t) PROVE LiveRightsWereGranted'
  <2>1. ASSUME NEW q \in People, NEW right \in live'[q].rights
        PROVE  \E v \in 0..Now : right \in RoomGrants(rows, v, {}, q, Room)
    <3>1. CASE q = t.of
      <4>1. right \in t.grants /\ t.asOf \in 0..Now
        BY <1>3, <2>1, <3>1 DEF Connect, TypeOK
      <4> QED
        BY <3>1, <4>1 DEF HeldWasGranted
    <3>2. CASE q # t.of
      BY <1>3, <2>1, <3>2 DEF Connect, TypeOK, LiveRightsWereGranted
    <3> QED
      BY <3>1, <3>2
  <2>2. rows' = rows
    BY <1>3 DEF Connect
  <2> QED
    BY <2>1, <2>2 DEF LiveRightsWereGranted, Now
<1>4. ASSUME NEW p \in People, Leave(p) PROVE LiveRightsWereGranted'
  <2>1. \A q \in People : live'[q] = live[q] \/ live'[q] = Outside
    BY <1>4 DEF Leave, TypeOK
  <2>2. rows' = rows
    BY <1>4 DEF Leave
  <2> QED
    BY <2>1, <2>2 DEF LiveRightsWereGranted, Outside, Now
<1>5. ASSUME NEW h \in Handlers, Write(h) PROVE LiveRightsWereGranted'
  <2>1. PICK row \in Row : rows' = Append(rows, row)
    BY <1>5 DEF Write
  <2>2. \A q \in People : \A v \in 0..Now :
          RoomGrants(rows', v, {}, q, Room) = RoomGrants(rows, v, {}, q, Room)
    BY <1>0, <2>1, AppendKeepsGrants
  <2>3. live' = live /\ 0..Now \subseteq 0..Now'
    BY <1>0, <1>5, <2>1 DEF Write, Now
  <2> QED
    BY <2>2, <2>3 DEF LiveRightsWereGranted
<1>6. ASSUME NEW h \in Handlers, Sync(h) PROVE LiveRightsWereGranted'
  <2>1. upd[h].at \in DOMAIN rows /\ rows[upd[h].at].kind = "permission"
    BY <1>0, <1>6 DEF Sync, TypeOK, UpdatesArePermissions
  <2> QED
    BY <1>2, <1>6, <2>1 DEF Sync
<1>7. ASSUME NEW i \in late, SyncLate(i) PROVE LiveRightsWereGranted'
  BY <1>2, <1>7 DEF SyncLate, TypeOK, UpdatesArePermissions
<1>8. ASSUME \/ \E r \in Requests : (\E p \in Callers : Ask(r, p)) \/ Issue(r)
             \/ \E t \in tokens : Expire(t)
      PROVE  UNCHANGED <<rows, live>>
  BY <1>8 DEF Ask, Issue, Expire
<1>9. ASSUME NEW h \in Handlers, Answer(h) \/ GiveUp(h) PROVE UNCHANGED <<rows, live>>
  BY <1>9 DEF Answer, GiveUp
<1>10. CASE Restart
  BY <1>1, <1>10 DEF Restart
<1>11. CASE UNCHANGED vars
  BY <1>1, <1>11 DEF vars
<1> QED
  BY <1>1, <1>3, <1>4, <1>5, <1>6, <1>7, <1>8, <1>9, <1>10, <1>11 DEF Next

\* The invariant holds in every state.
LEMMA RoomInvariant == Spec => []RoomInv
<1>1. Init => RoomInv
  <2> SUFFICES ASSUME Init PROVE RoomInv
    OBVIOUS
  <2> USE LiveRoomAssumption DEF Init
  <2>1. TypeOK
    BY DEF TypeOK, Now, Outside, IdleUpdate
  <2>2. HeldWasGranted /\ UpdatesArePermissions /\ LiveRightsWereGranted
    BY DEF HeldWasGranted, UpdatesArePermissions, LiveRightsWereGranted, Outside, IdleUpdate
  <2> QED
    BY <2>1, <2>2 DEF RoomInv
<1>2. RoomInv /\ [Next]_vars => RoomInv'
  BY TypeStep, UpdateStep, HeldStep, LiveStep DEF RoomInv
<1> QED
  BY <1>1, <1>2, PTL DEF Spec

\* The state has its type, for every number of admins, people and rows.
THEOREM RoomTypesAreKept == Spec => []TypeOK
BY RoomInvariant, PTL DEF RoomInv

\* However tokens, joins, updates, timeouts and restarts interleave, a right
\* that LiveKit lets a person use is one that the policy gave her.
THEOREM LiveRightsAreGranted == Spec => []LiveRightsWereGranted
BY RoomInvariant, PTL DEF RoomInv

-----------------------------------------------------------------------------
(* What was answered is over. *)

\* An update on its way is one its admin has no answer to, and is on its way
\* once.
Unanswered ==
    /\ \A h \in Handlers : upd[h].pc # "idle" =>
          told[upd[h].at] = "nothing" /\ upd[h].at \notin late
    /\ \A g, h \in Handlers : g # h /\ upd[g].pc # "idle" /\ upd[h].pc # "idle" => upd[g].at # upd[h].at
    /\ \A i \in late : told[i] \in {"nothing", "warning"}

\* It stays so with every step.
LEMMA UnansweredStep == RoomInv /\ Unanswered /\ [Next]_vars => Unanswered'
<1> SUFFICES ASSUME RoomInv, Unanswered, [Next]_vars PROVE Unanswered'
  OBVIOUS
<1> USE LiveRoomAssumption DEF RoomInv
<1>0. /\ Now \in Nat /\ DOMAIN rows = 1..Now /\ rows \in Seq(RowInputs)
      /\ \A h \in Handlers : upd[h].pc # "idle" => upd[h].at \in 1..Now
      /\ late \subseteq 1..Now
  BY DEF TypeOK, Now, UpdatesArePermissions
<1>1. ASSUME \/ \E r \in Requests : (\E p \in Callers : Ask(r, p)) \/ Issue(r)
             \/ \E t \in tokens : Connect(t) \/ Expire(t)
             \/ \E p \in Callers : Leave(p)
      PROVE  Unanswered'
  <2>1. UNCHANGED <<upd, late, told>>
    BY <1>1 DEF Ask, Issue, Connect, Leave, Expire
  <2> QED
    BY <2>1 DEF Unanswered
<1>3. ASSUME NEW h \in Handlers, Write(h) PROVE Unanswered'
  <2>1. told' = Append(told, "nothing") /\ UNCHANGED late
    BY <1>3 DEF Write
  <2>2. told'[Now + 1] = "nothing" /\ \A i \in 1..Now : told'[i] = told[i]
    <3> DEFINE Told == {"nothing", "applied", "absent", "warning"}
    <3>1. told \in [1..Now -> Told]
      BY <1>0 DEF TypeOK
    <3> HIDE DEF Told
    <3>2. told \in Seq(Told) /\ Len(told) = Now
      BY <1>0, <3>1
    <3> QED
      BY <2>1, <3>2
  <2>3. \A g \in Handlers : \/ upd'[g] = upd[g]
                            \/ g = h /\ upd'[g].at = Now + 1
    BY <1>3 DEF Write, TypeOK
  <2>4. Now + 1 \notin late /\ \A g \in Handlers : upd[g].pc # "idle" => upd[g].at # Now + 1
    <3>1. Now + 1 \notin 1..Now
      BY <1>0
    <3> QED
      BY <1>0, <3>1
  <2>5. ASSUME NEW g \in Handlers, upd'[g].pc # "idle"
        PROVE  told'[upd'[g].at] = "nothing" /\ upd'[g].at \notin late
    BY <1>0, <2>2, <2>3, <2>4, <2>5 DEF Unanswered
  <2>6. ASSUME NEW f \in Handlers, NEW g \in Handlers, f # g, upd'[f].pc # "idle", upd'[g].pc # "idle"
        PROVE  upd'[f].at # upd'[g].at
    BY <2>3, <2>4, <2>6 DEF Unanswered
  <2>7. \A i \in late : told'[i] \in {"nothing", "warning"}
    <3>1. \A i \in late : i \in 1..Now
      BY <1>0
    <3> QED
      BY <2>2, <3>1 DEF Unanswered
  <2> QED
    BY <2>1, <2>5, <2>6, <2>7 DEF Unanswered
<1>4. ASSUME NEW h \in Handlers, Sync(h) PROVE Unanswered'
  <2>1. UNCHANGED <<late, told>>
    BY <1>4 DEF Sync
  <2>2. \A g \in Handlers : upd'[g].at = upd[g].at /\ (upd'[g].pc # "idle" => upd[g].pc # "idle")
    BY <1>4 DEF Sync, TypeOK
  <2> QED
    BY <2>1, <2>2 DEF Unanswered
<1>5. ASSUME NEW i \in late, SyncLate(i) PROVE Unanswered'
  BY <1>5 DEF SyncLate, Unanswered
<1>6. ASSUME NEW h \in Handlers, Answer(h) \/ GiveUp(h) PROVE Unanswered'
  <2>1. upd[h].pc # "idle"
    BY <1>6 DEF Answer, GiveUp
  <2>2. \A i \in DOMAIN rows : i # upd[h].at => told'[i] = told[i]
    BY <1>6 DEF Answer, GiveUp, TypeOK
  <2>3. \A g \in Handlers : upd'[g].pc # "idle" => g # h /\ upd'[g] = upd[g]
    BY <1>6 DEF Answer, GiveUp, IdleUpdate, TypeOK
  <2>4. late' = late \/ (late' = late \cup {upd[h].at} /\ told'[upd[h].at] = "warning")
    BY <1>0, <1>6, <2>1 DEF Answer, GiveUp, TypeOK
  <2>5. upd[h].at \notin late
    BY <2>1 DEF Unanswered
  <2>6. \A i \in late' : told'[i] \in {"nothing", "warning"}
    <3>1. \A i \in late : i \in DOMAIN rows /\ i # upd[h].at
      BY <1>0, <2>5
    <3>2. \A i \in late : told'[i] \in {"nothing", "warning"}
      BY <2>2, <3>1 DEF Unanswered
    <3> QED
      BY <2>4, <3>2
  <2>7. ASSUME NEW g \in Handlers, upd'[g].pc # "idle"
        PROVE  told'[upd'[g].at] = "nothing" /\ upd'[g].at \notin late'
    <3>1. g # h /\ upd'[g] = upd[g] /\ upd[g].at # upd[h].at
      BY <2>1, <2>3, <2>7 DEF Unanswered
    <3> QED
      BY <1>0, <2>2, <2>4, <2>7, <3>1 DEF Unanswered
  <2> QED
    BY <2>3, <2>6, <2>7 DEF Unanswered
<1>7. CASE Restart
  <2>1. PICK sent \in SUBSET {upd[h].at : h \in {g \in Handlers : upd[g].pc = "sync"}} :
          late' = late \cup sent
    BY <1>7 DEF Restart
  <2>2. \A i \in late' : told[i] \in {"nothing", "warning"}
    BY <2>1 DEF Unanswered
  <2> QED
    BY <1>7, <2>2 DEF Restart, IdleUpdate, Unanswered
<1>8. CASE UNCHANGED vars
  BY <1>8 DEF vars, Unanswered
<1> QED
  BY <1>1, <1>3, <1>4, <1>5, <1>6, <1>7, <1>8 DEF Next

\* Rights give way to older ones only when the person joins once more with a
\* token that was read before, or by a change whose admin has no answer or was
\* warned.
THEOREM AnsweredDoesNotReturn == Spec => AnsweredIsOver
<1> DEFINE A == \A p \in People :
                  live[p].in /\ live'[p].in /\ live'[p].asOf < live[p].asOf
                    => \/ \E t \in tokens : t.of = p /\ Connect(t)
                       \/ told[live'[p].asOf] \in {"nothing", "warning"}
<1>1. Init => Unanswered
  BY DEF Init, Unanswered, IdleUpdate
<1>2. RoomInv /\ Unanswered /\ [Next]_vars => [A]_vars
  <2> SUFFICES ASSUME RoomInv, Unanswered, Next, NEW p \in People,
                      live[p].in, live'[p].in, live'[p].asOf < live[p].asOf,
                      ~\E t \in tokens : t.of = p /\ Connect(t)
               PROVE  told[live'[p].asOf] \in {"nothing", "warning"}
    OBVIOUS
  <2> USE LiveRoomAssumption DEF RoomInv
  <2>0. ~(live'[p].asOf = live[p].asOf)
    <3>1. live[p].asOf \in Nat
      BY DEF TypeOK, Now
    <3> QED
      BY <3>1
  <2>1. ASSUME NEW i \in DOMAIN rows, live' = Landed(i) PROVE live'[p].asOf = i
    <3> DEFINE r == SyncRights(rows[i])
    <3>1. \/ live' = live
          \/ live' = [live EXCEPT ![rows[i].key].rights = r, ![rows[i].key].asOf = i]
      BY <2>1 DEF Landed
    <3> HIDE DEF r
    <3>2. CASE p = rows[i].key
      BY <2>0, <3>1, <3>2 DEF TypeOK
    <3>3. CASE p # rows[i].key
      BY <2>0, <3>1, <3>3 DEF TypeOK
    <3> QED
      BY <3>2, <3>3
  <2>2. ASSUME NEW h \in Handlers, Sync(h) PROVE told[live'[p].asOf] \in {"nothing", "warning"}
    <3>1. upd[h].pc # "idle" /\ live' = Landed(upd[h].at)
      BY <2>2 DEF Sync
    <3>2. upd[h].at \in DOMAIN rows
      BY <3>1 DEF TypeOK, Now, UpdatesArePermissions
    <3> QED
      BY <2>1, <3>1, <3>2 DEF Unanswered
  <2>3. ASSUME NEW i \in late, SyncLate(i) PROVE told[live'[p].asOf] \in {"nothing", "warning"}
    <3>1. i \in DOMAIN rows /\ live' = Landed(i)
      BY <2>3 DEF SyncLate, TypeOK
    <3> QED
      BY <2>1, <3>1 DEF Unanswered
  <2>4. ASSUME NEW t \in tokens, Connect(t) PROVE FALSE
    <3>1. t.of # p
      BY <2>4
    <3>2. live'[p] = live[p]
      BY <2>4, <3>1 DEF Connect, TypeOK
    <3> QED
      BY <2>0, <3>2
  <2>8. ASSUME NEW q \in Callers, Leave(q) PROVE FALSE
    <3>1. live' = [live EXCEPT ![q] = Outside]
      BY <2>8 DEF Leave
    <3>2. CASE p = q
      BY <3>1, <3>2 DEF TypeOK, Outside
    <3>3. CASE p # q
      BY <2>0, <3>1, <3>3 DEF TypeOK
    <3> QED
      BY <3>2, <3>3
  <2>5. ASSUME \/ \E r \in Requests : (\E q \in Callers : Ask(r, q)) \/ Issue(r)
               \/ \E t \in tokens : Expire(t)
        PROVE  FALSE
    BY <2>0, <2>5 DEF Ask, Issue, Expire
  <2>6. ASSUME NEW h \in Handlers, Write(h) \/ Answer(h) \/ GiveUp(h) PROVE FALSE
    BY <2>0, <2>6 DEF Write, Answer, GiveUp
  <2>7. CASE Restart
    BY <2>0, <2>7 DEF Restart
  <2> QED
    BY <2>2, <2>3, <2>4, <2>5, <2>6, <2>7, <2>8 DEF Next
<1>3. RoomInv /\ Unanswered /\ [Next]_vars => Unanswered'
  BY UnansweredStep
<1> QED
  BY <1>1, <1>2, <1>3, RoomInvariant, PTL DEF Spec, AnsweredIsOver
=============================================================================
