---------------------------- MODULE PolicyLemmas ----------------------------
(***************************************************************************)
(* Facts about the lookups of PolicyStore and PolicyEngine: what they      *)
(* return, and that an INSERT leaves every lookup at an older version as   *)
(* it was.                                                                 *)
(***************************************************************************)
EXTENDS PolicyEngine, FiniteSetTheorems, WellFoundedInduction, TLAPS

\* ORDER BY ... LIMIT 1 returns one of the rows it chose from: a non-empty set
\* of row numbers has a newest one.
LEMMA NewestIsMember ==
    ASSUME NEW n \in Nat, NEW S \in SUBSET (0..n), S # {}
    PROVE  Newest(S) \in S /\ \A j \in S : j <= Newest(S)
<1> DEFINE T == {i..n : i \in S}
           R == StrictSubsetOrdering(0..n)
<1>0. \A i \in S : i..n \in SUBSET (0..n)
  <2>1. ASSUME NEW i \in S PROVE \A k \in i..n : k \in 0..n
    <3>1. i \in 0..n
      OBVIOUS
    <3> QED
      BY <3>1
  <2> QED
    BY <2>1
<1>1. T \subseteq SUBSET (0..n) /\ T # {}
  <2>1. T \subseteq SUBSET (0..n)
    BY ONLY <1>0, Zenon
  <2>2. PICK i : i \in S
    OBVIOUS
  <2> QED
    BY <2>1, <2>2
<1>2. PICK x \in T : \A y \in T : ~(<<y, x>> \in R)
  <2>1. FiniteSubsetsOf(0..n) = SUBSET (0..n)
    <3>1. IsFiniteSet(0..n)
      BY FS_Interval
    <3> QED
      BY <3>1, FS_FiniteSubsetsOfFinite
  <2>2. IsWellFoundedOn(R, SUBSET (0..n))
    BY <2>1, FS_StrictSubsetOrderingWellFounded
  <2> HIDE DEF T, R
  <2> QED
    BY <1>1, <2>2, WFMin
<1>3. PICK m \in S : x = m..n
  OBVIOUS
<1>4. \A j \in S : j <= m
  <2> TAKE j \in S
  <2>1. <<j..n, m..n>> \in (SUBSET (0..n)) \X (SUBSET (0..n))
    <3>1. j..n \in SUBSET (0..n) /\ m..n \in SUBSET (0..n)
      BY <1>0, Zenon
    <3> QED
      BY ONLY <3>1, Zenon
  <2>2. ~((j..n) \subseteq (m..n) /\ (j..n) # (m..n))
    <3>1. ~(<<j..n, m..n>> \in R)
      <4>1. j..n \in T
        OBVIOUS
      <4> HIDE DEF T, R
      <4> QED
        BY <1>2, <1>3, <4>1
    <3>2. <<j..n, m..n>>[1] = j..n /\ <<j..n, m..n>>[2] = m..n
      OBVIOUS
    <3> QED
      BY ONLY <2>1, <3>1, <3>2, Zenon DEF StrictSubsetOrdering
  <2>3. m < j => (j..n) \subseteq (m..n) /\ m \in m..n /\ m \notin j..n
    OBVIOUS
  <2> QED
    BY <2>2, <2>3
<1> QED
  BY <1>4 DEF Newest

\* The standing lookup returns a row of the version it read, or none.
LEMMA StandingRowBound ==
    ASSUME NEW s, NEW v \in Nat, NEW person, NEW scope
    PROVE  StandingRow(s, v, person, scope) \in 0..v
<1>1. ASSUME NEW f PROVE LatestStanding(s, v, person, f, scope) \in 0..v
  <2> DEFINE S == ActiveRows(s, v, "standing", person, f)
  <2>1. \A sc : InScope(s, S, sc) \in SUBSET (0..v)
    BY DEF InScope, ActiveRows
  <2>2. \A sc : Newest(InScope(s, S, sc)) \in 0..v
    <3> TAKE sc
    <3>1. CASE InScope(s, S, sc) = {}
      BY <3>1 DEF Newest
    <3>2. CASE InScope(s, S, sc) # {}
      <4>1. Newest(InScope(s, S, sc)) \in InScope(s, S, sc)
        BY <2>1, <3>2, NewestIsMember
      <4> QED
        BY <2>1, <4>1
    <3> QED
      BY <3>1, <3>2
  <2> QED
    BY <2>2 DEF LatestStanding, ScopedRow
<1> DEFINE L == {LatestStanding(s, v, person, f, scope) : f \in Aliases}
<1>2. L \in SUBSET (0..v) /\ L # {}
  BY <1>1 DEF Aliases
<1>3. Newest(L) \in L
  <2> HIDE DEF L
  <2> QED
    BY <1>2, NewestIsMember
<1> QED
  BY <1>2, <1>3 DEF StandingRow

\* Every row of the store says a set of flags.
LEMMA RowSays ==
    ASSUME NEW s \in Seq(Row)
    PROVE  \A i \in 1..Len(s) : s[i].says \in SUBSET Flags
<1>1. \A i \in 1..Len(s) : s[i] \in Row
  OBVIOUS
<1>2. \A e \in Row : e.says \in SUBSET Flags
  <2> DEFINE F == SUBSET Flags
  <2> HIDE DEF F
  <2>1. \A e \in [kind: Kinds, key: People \cup Capabilities, form: Forms,
                  scope: Scopes \cup Rooms \cup ProofTypes, says: F,
                  by: People, revoked: BOOLEAN] : e.says \in F
    OBVIOUS
  <2> QED
    BY <2>1 DEF Row, F
<1> QED
  BY <1>1, <1>2

\* A standing is a set of flags.
LEMMA StandingType ==
    ASSUME NEW s \in Seq(Row), NEW v \in 0..Len(s), NEW person, NEW scope
    PROVE  Standing(s, v, person, scope) \in SUBSET Flags
<1>1. StandingRow(s, v, person, scope) \in 0..v
  BY StandingRowBound
<1>2. \A i \in 1..Len(s) : s[i].says \in SUBSET Flags
  BY RowSays
<1>3. {"guest"} \in SUBSET Flags
  BY DEF Flags, StandingClasses
<1>4. StandingRow(s, v, person, scope) # 0 => StandingRow(s, v, person, scope) \in 1..Len(s)
  BY <1>1
<1> QED
  BY <1>2, <1>3, <1>4 DEF Standing

\* A lookup at a version the store already had does not see a later INSERT.
LEMMA StandingStable ==
    ASSUME NEW s \in Seq(Row), NEW e \in Row, NEW v \in 0..Len(s),
           NEW person, NEW scope
    PROVE  Standing(Append(s, e), v, person, scope) = Standing(s, v, person, scope)
<1> DEFINE t == Append(s, e)
<1>1. \A i \in 1..v : t[i] = s[i]
  OBVIOUS
<1>2. ASSUME NEW f
      PROVE  LatestStanding(t, v, person, f, scope) = LatestStanding(s, v, person, f, scope)
  <2> DEFINE S == ActiveRows(s, v, "standing", person, f)
  <2>1. ActiveRows(t, v, "standing", person, f) = S
    BY <1>1 DEF ActiveRows
  <2>2. S \subseteq 1..v
    BY DEF ActiveRows
  <2>3. InScope(t, S, scope) = InScope(s, S, scope) /\ InScope(t, S, "relay") = InScope(s, S, "relay")
    BY <1>1, <2>2 DEF InScope
  <2> QED
    BY <2>1, <2>3 DEF LatestStanding, ScopedRow
<1>3. StandingRow(t, v, person, scope) = StandingRow(s, v, person, scope)
  BY <1>2 DEF StandingRow
<1>4. StandingRow(s, v, person, scope) \in 0..v
  BY StandingRowBound
<1> QED
  BY <1>1, <1>3, <1>4 DEF Standing

\* The assignments found at a version are sets of flags, do not change with a
\* later INSERT, and are never fewer at a later version.
LEMMA AssignmentsType ==
    ASSUME NEW s \in Seq(Row), NEW v \in 0..Len(s), NEW person, NEW scope
    PROVE  Assignments(s, v, person, scope) \in SUBSET Flags
<1>1. \A i \in 1..v : s[i].says \in SUBSET Flags
  BY RowSays
<1>2. \A f : ActivePolicyAssignments(s, v, person, f, scope) \subseteq 1..v
  BY DEF ActivePolicyAssignments, InScope, ActiveRows
<1> QED
  BY <1>1, <1>2 DEF Assignments

\* A row that is appended changes the assignments at no earlier version.
LEMMA AssignmentsStable ==
    ASSUME NEW s \in Seq(Row), NEW e \in Row, NEW v \in 0..Len(s),
           NEW person, NEW scope
    PROVE  Assignments(Append(s, e), v, person, scope) = Assignments(s, v, person, scope)
<1> DEFINE t == Append(s, e)
<1>1. \A i \in 1..v : t[i] = s[i]
  OBVIOUS
<1>2. \A f : /\ ActivePolicyAssignments(t, v, person, f, scope)
                 = ActivePolicyAssignments(s, v, person, f, scope)
             /\ ActivePolicyAssignments(s, v, person, f, scope) \subseteq 1..v
  <2> TAKE f
  <2> DEFINE S == ActiveRows(s, v, "assignment", person, f)
  <2>1. ActiveRows(t, v, "assignment", person, f) = S /\ S \subseteq 1..v
    BY <1>1 DEF ActiveRows
  <2>2. \A sc : InScope(t, S, sc) = InScope(s, S, sc) /\ InScope(s, S, sc) \subseteq 1..v
    BY <1>1, <2>1 DEF InScope
  <2> QED
    BY <2>1, <2>2 DEF ActivePolicyAssignments
<1> DEFINE I == UNION {ActivePolicyAssignments(s, v, person, f, scope) : f \in Aliases}
<1>3. I = UNION {ActivePolicyAssignments(t, v, person, f, scope) : f \in Aliases}
  BY <1>2
<1>4. \A i \in I : t[i].says = s[i].says
  BY <1>1, <1>2
<1>5. {t[i].says : i \in I} = {s[i].says : i \in I}
  <2> HIDE DEF I, t
  <2> QED
    BY <1>4
<1> QED
  BY <1>3, <1>5, Zenon DEF Assignments

\* No later row takes an assignment back: once blocked, always blocked.
LEMMA AssignmentsMonotone ==
    ASSUME NEW s, NEW v \in Nat, NEW w \in Nat, v <= w, NEW person, NEW scope
    PROVE  Assignments(s, v, person, scope) \subseteq Assignments(s, w, person, scope)
<1>1. \A f : ActivePolicyAssignments(s, v, person, f, scope)
                \subseteq ActivePolicyAssignments(s, w, person, f, scope)
  BY DEF ActivePolicyAssignments, InScope, ActiveRows
<1> QED
  BY <1>1 DEF Assignments

\* ORDER BY ... LIMIT 1 over the rows of one table up to a version.
LEMMA NewestBound ==
    ASSUME NEW v \in Nat, NEW S \in SUBSET (1..v)
    PROVE  Newest(S) \in 0..v /\ (Newest(S) = 0 <=> S = {})
<1>1. CASE S = {}
  BY <1>1 DEF Newest
<1>2. CASE S # {}
  <2>1. S \in SUBSET (0..v)
    OBVIOUS
  <2>2. Newest(S) \in S
    BY <1>2, <2>1, NewestIsMember
  <2>3. \A i \in S : i \in 1..v
    OBVIOUS
  <2>4. Newest(S) \in 1..v
    BY <2>2, <2>3
  <2>5. \A x \in 1..v : x \in 0..v /\ x # 0
    OBVIOUS
  <2> QED
    BY <1>2, <2>4, <2>5, Zenon
<1> QED
  BY <1>1, <1>2

\* The rows a lookup chooses from are rows of its version, and an INSERT
\* changes none of them.
LEMMA RowsStable ==
    ASSUME NEW s \in Seq(Row), NEW e \in Row, NEW v \in 0..Len(s), NEW kind, NEW key, NEW f, NEW scope
    PROVE  /\ ActiveRows(s, v, kind, key, f) \subseteq 1..v
           /\ InScope(s, ActiveRows(s, v, kind, key, f), scope) \subseteq 1..v
           /\ ActiveRows(Append(s, e), v, kind, key, f) = ActiveRows(s, v, kind, key, f)
           /\ InScope(Append(s, e), ActiveRows(Append(s, e), v, kind, key, f), scope)
                = InScope(s, ActiveRows(s, v, kind, key, f), scope)
<1> DEFINE t == Append(s, e)
           S == ActiveRows(s, v, kind, key, f)
<1>1. \A i \in 1..v : t[i] = s[i]
  OBVIOUS
<1>2. ActiveRows(t, v, kind, key, f) = S /\ S \subseteq 1..v
  BY <1>1 DEF ActiveRows
<1>3. InScope(t, S, scope) = InScope(s, S, scope) /\ InScope(s, S, scope) \subseteq 1..v
  BY <1>1, <1>2 DEF InScope
<1> QED
  BY <1>2, <1>3

\* A permission lookup under one spelling returns a row of its version, or none.
LEMMA LatestPermissionBound ==
    ASSUME NEW s, NEW v \in Nat, NEW person, NEW form, NEW room
    PROVE  LatestRoomPermission(s, v, person, form, room) \in 0..v
<1> DEFINE S == InScope(s, ActiveRows(s, v, "permission", person, form), room)
<1>1. S \in SUBSET (0..v)
  BY DEF InScope, ActiveRows
<1>2. CASE S = {}
  BY <1>2 DEF LatestRoomPermission, Newest
<1>3. CASE S # {}
  <2>1. Newest(S) \in S
    BY <1>1, <1>3, NewestIsMember
  <2> QED
    BY <1>1, <2>1 DEF LatestRoomPermission
<1> QED
  BY <1>2, <1>3

\* The permission lookup over the aliases does too.
LEMMA PermissionRowBound ==
    ASSUME NEW s, NEW v \in Nat, NEW person, NEW room
    PROVE  PermissionRow(s, v, person, room) \in 0..v
<1> DEFINE L == {LatestRoomPermission(s, v, person, f, room) : f \in Aliases}
<1>1. L \in SUBSET (0..v) /\ L # {}
  BY LatestPermissionBound DEF Aliases
<1>2. Newest(L) \in L
  <2> HIDE DEF L
  <2> QED
    BY <1>1, NewestIsMember
<1> QED
  BY <1>1, <1>2 DEF PermissionRow

\* A permission lookup does not see a later INSERT.
LEMMA PermissionRowStable ==
    ASSUME NEW s \in Seq(Row), NEW e \in Row, NEW v \in 0..Len(s),
           NEW person, NEW room
    PROVE  PermissionRow(Append(s, e), v, person, room) = PermissionRow(s, v, person, room)
<1> DEFINE t == Append(s, e)
<1>1. \A i \in 1..v : t[i] = s[i]
  OBVIOUS
<1>2. ASSUME NEW f
      PROVE  LatestRoomPermission(t, v, person, f, room) = LatestRoomPermission(s, v, person, f, room)
  <2> DEFINE S == ActiveRows(s, v, "permission", person, f)
  <2>1. ActiveRows(t, v, "permission", person, f) = S
    BY <1>1 DEF ActiveRows
  <2>2. S \subseteq 1..v
    BY DEF ActiveRows
  <2>3. InScope(t, S, room) = InScope(s, S, room)
    BY <1>1, <2>2 DEF InScope
  <2> QED
    BY <2>1, <2>3 DEF LatestRoomPermission
<1> QED
  BY <1>2 DEF PermissionRow

\* So what a room allows and what a token carries, by the rows of an older
\* version, stay as they were.
LEMMA RoomStable ==
    ASSUME NEW s \in Seq(Row), NEW e \in Row, NEW v \in 0..Len(s), NEW places,
           NEW person, NEW cap, NEW room
    PROVE  /\ HasPrivilegedRoomAccess(Append(s, e), v, person) = HasPrivilegedRoomAccess(s, v, person)
           /\ RoomAllows(Append(s, e), v, places, person, cap, room)
                = RoomAllows(s, v, places, person, cap, room)
           /\ RoomGrants(Append(s, e), v, places, person, room)
                = RoomGrants(s, v, places, person, room)
<1> DEFINE t == Append(s, e)
           i == PermissionRow(s, v, person, room)
<1>1. \A scope : Standing(t, v, person, scope) = Standing(s, v, person, scope)
  BY StandingStable
<1>2. HasPrivilegedRoomAccess(t, v, person) = HasPrivilegedRoomAccess(s, v, person)
  BY <1>1, Zenon DEF HasPrivilegedRoomAccess
<1>3. i \in 0..v /\ PermissionRow(t, v, person, room) = i
  BY PermissionRowBound, PermissionRowStable
<1>4. i # 0 => t[i] = s[i]
  BY <1>3
<1>5. RoomAllows(t, v, places, person, cap, room) = RoomAllows(s, v, places, person, cap, room)
  <2> HIDE DEF t
  <2>1. PermissionRow(s, v, person, room) # 0 =>
          t[PermissionRow(s, v, person, room)] = s[PermissionRow(s, v, person, room)]
    BY <1>4
  <2>2. PermissionRow(t, v, person, room) = PermissionRow(s, v, person, room)
    BY <1>3
  <2> QED
    BY <2>1, <2>2, Zenon DEF RoomAllows
<1>6. RoomGrants(t, v, places, person, room) = RoomGrants(s, v, places, person, room)
  <2> HIDE DEF t
  <2>1. PermissionRow(s, v, person, room) # 0 =>
          t[PermissionRow(s, v, person, room)] = s[PermissionRow(s, v, person, room)]
    BY <1>4
  <2>2. PermissionRow(t, v, person, room) = PermissionRow(s, v, person, room)
    BY <1>3
  <2> QED
    BY <1>2, <2>1, <2>2, Zenon DEF RoomGrants
<1> QED
  BY <1>2, <1>5, <1>6

\* Beacons that come into memory close no room to somebody it let in.
LEMMA RoomAllowsAnywhere ==
    ASSUME NEW s, NEW v, NEW p, NEW q, NEW person, NEW cap, NEW room
    PROVE  RoomAllows(s, v, p, person, cap, room) = RoomAllows(s, v, q, person, cap, room)
<1>1. "subscribe" \in DefaultRoomGrants(p, room) <=> "subscribe" \in DefaultRoomGrants(q, room)
  BY DEF DefaultRoomGrants
<1> QED
  BY <1>1, Zenon DEF RoomAllows

\* The gates in force at a version are those of a row of it, or the defaults.
LEMMA GatesStable ==
    ASSUME NEW s \in Seq(Row), NEW e \in Row, NEW v \in 0..Len(s), NEW cap
    PROVE  /\ \/ \E i \in 1..v : s[i].kind = "gate" /\ EffectiveGates(s, v, cap) = s[i].says
              \/ EffectiveGates(s, v, cap) \subseteq DefaultMediaJoinProofs
           /\ EffectiveGates(Append(s, e), v, cap) = EffectiveGates(s, v, cap)
<1> DEFINE scope == CapabilityScope(cap)
           S == ActiveRows(s, v, "gate", cap, "hex")
           i == LatestGatePolicy(s, v, cap, scope)
<1>1. /\ S \subseteq 1..v
      /\ \A sc : InScope(s, S, sc) \subseteq S
  BY DEF ActiveRows, InScope
<1>2. i = 0 \/ (i \in 1..v /\ s[i].kind = "gate")
  <2>1. \A sc : Newest(InScope(s, S, sc)) = 0 \/ Newest(InScope(s, S, sc)) \in S
    <3> TAKE sc
    <3> DEFINE C == InScope(s, S, sc)
    <3>1. C \in SUBSET (0..v) /\ C \subseteq S
      BY <1>1
    <3> HIDE DEF C
    <3>2. C = {} => Newest(C) = 0
      BY DEF Newest
    <3>3. C # {} => Newest(C) \in C
      <4>1. v \in Nat
        OBVIOUS
      <4> QED
        BY <3>1, <4>1, NewestIsMember
    <3>4. Newest(C) = 0 \/ Newest(C) \in S
      BY <3>1, <3>2, <3>3, Zenon
    <3> QED
      BY <3>4 DEF C
  <2>2. i = 0 \/ i \in S
    BY <2>1, Zenon DEF LatestGatePolicy, ScopedRow
  <2> QED
    BY <2>2 DEF ActiveRows
<1>3. LatestGatePolicy(Append(s, e), v, cap, scope) = i
  <2>1. \A sc : InScope(Append(s, e), ActiveRows(Append(s, e), v, "gate", cap, "hex"), sc)
                   = InScope(s, S, sc)
    BY RowsStable
  <2> QED
    BY <2>1, Zenon DEF LatestGatePolicy, ScopedRow
<1>4. i # 0 => Append(s, e)[i] = s[i]
  BY <1>2
<1>5. EffectiveGates(Append(s, e), v, cap) = EffectiveGates(s, v, cap)
  BY <1>3, <1>4, Zenon DEF EffectiveGates
<1>6. \/ \E j \in 1..v : s[j].kind = "gate" /\ EffectiveGates(s, v, cap) = s[j].says
      \/ EffectiveGates(s, v, cap) \subseteq DefaultMediaJoinProofs
  <2>1. CASE i # 0
    <3>1. EffectiveGates(s, v, cap) = s[i].says
      BY <2>1 DEF EffectiveGates
    <3> HIDE DEF i
    <3> QED
      BY <1>2, <2>1, <3>1
  <2>2. CASE i = 0
    BY <2>2 DEF EffectiveGates
  <2> QED
    BY <2>1, <2>2
<1> QED
  BY <1>5, <1>6

\* A proof that was found is found at every later version, of a store with
\* more rows too.
LEMMA ProofKept ==
    ASSUME NEW s \in Seq(Row), NEW e \in Row, NEW person, NEW proof,
           HasProof(s, Len(s), person, proof)
    PROVE  HasProof(Append(s, e), Len(s) + 1, person, proof)
<1> DEFINE n == Len(s)
           t == Append(s, e)
           S(f) == InScope(s, ActiveRows(s, n, "proof", person, f), proof)
           T(f) == InScope(t, ActiveRows(t, n + 1, "proof", person, f), proof)
<1>1. n \in Nat /\ n + 1 \in Nat /\ \A i \in 1..n : t[i] = s[i] /\ i \in 1..(n + 1)
  OBVIOUS
<1>2. \A f : S(f) \subseteq 1..n /\ T(f) \subseteq 1..(n + 1)
  BY DEF InScope, ActiveRows
<1>3. \A f : S(f) \subseteq T(f)
  BY <1>1 DEF InScope, ActiveRows
<1>4. PICK f \in Aliases : Newest(S(f)) # 0
  BY DEF HasProof, LatestProofVerification
<1> HIDE DEF n, t
<1>5. S(f) # {}
  BY <1>1, <1>2, <1>4, NewestBound
<1>6. T(f) # {}
  BY <1>3, <1>5
<1>7. Newest(T(f)) # 0
  <2> HIDE DEF T
  <2> QED
    BY <1>1, <1>2, <1>6, NewestBound
<1> QED
  BY <1>7 DEF HasProof, LatestProofVerification, n, t
=============================================================================
