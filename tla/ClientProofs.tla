---------------------------- MODULE ClientProofs ----------------------------
(***************************************************************************)
(* Proofs about two parts of the client that share no state: the ring of   *)
(* keys the tabs keep together (Keyring), and the pages the shell shows    *)
(* (ClientView), the map with its chats first, then the feed and the       *)
(* rollup that fetches it.                                                 *)
(***************************************************************************)
EXTENDS Keyring, ClientView, FiniteSetTheorems, TLAPS

-----------------------------------------------------------------------------
(* The functions of key-manager.ts: what they make is a ring, and of which  *)
(* keys.                                                                    *)

LEMMA EmptyIsRing == EmptyRing \in Ring /\ KeysOf(EmptyRing) = {}
BY DEF EmptyRing, Ring, KeysOf, ToSet, IsInjective

LEMMA RingFields ==
    ASSUME NEW r \in Ring
    PROVE  /\ r.keys \in Seq(Keys) /\ KeysOf(r) \subseteq Keys
           /\ \A i, j \in DOMAIN r.keys : r.keys[i] = r.keys[j] => i = j
           /\ r.active = Nobody <=> KeysOf(r) = {}
           /\ r.active = Nobody <=> r = EmptyRing
           /\ r.active # Nobody => r.active \in KeysOf(r)
<1>1. /\ r.keys \in Seq(Keys) /\ IsInjective(r.keys)
      /\ IF r.keys = << >> THEN r.active = Nobody ELSE r.active \in KeysOf(r)
      /\ r \in [keys: Seq(Keys), active: Keys \cup {Nobody}]
  BY DEF Ring
<1>2. KeysOf(r) \subseteq Keys
  BY <1>1 DEF KeysOf, ToSet
<1>3. r.keys = << >> <=> KeysOf(r) = {}
  <2>1. CASE r.keys = << >>
    <3>1. DOMAIN r.keys = {}
      BY <2>1
    <3> QED
      BY <2>1, <3>1 DEF KeysOf, ToSet
  <2>2. CASE r.keys # << >>
    <3>1. 1 \in DOMAIN r.keys
      BY <1>1, <2>2
    <3> QED
      BY <2>2, <3>1 DEF KeysOf, ToSet
  <2> QED
    BY <2>1, <2>2
<1>4. r = EmptyRing <=> r.keys = << >>
  BY <1>1 DEF EmptyRing
<1> QED
  BY <1>1, <1>2, <1>3, <1>4, KeyringAssumption DEF IsInjective

\* Of a sequence that has k once, the other elements are left, each once.
LEMMA WithoutOne ==
    ASSUME NEW keys \in Seq(Keys), IsInjective(keys), NEW k \in ToSet(keys)
    PROVE  /\ Without(keys, k) \in Seq(Keys) /\ IsInjective(Without(keys, k))
           /\ ToSet(Without(keys, k)) = ToSet(keys) \ {k}
<1> DEFINE pos == CHOOSE i \in DOMAIN keys : keys[i] = k
           left == Without(keys, k)
<1>1. pos \in 1..Len(keys) /\ keys[pos] = k
  BY DEF ToSet
<1>2. left = SubSeq(keys, 1, pos - 1) \o SubSeq(keys, pos + 1, Len(keys))
  BY DEF Without, RemoveAt
<1> HIDE DEF pos, left
<1> DEFINE before == SubSeq(keys, 1, pos - 1)
           after == SubSeq(keys, pos + 1, Len(keys))
           from(i) == IF i < pos THEN i ELSE i + 1
<1>3. /\ before \in Seq(Keys) /\ Len(before) = pos - 1
      /\ \A i \in 1..(pos - 1) : before[i] = keys[i]
  BY <1>1
<1>4. /\ after \in Seq(Keys) /\ Len(after) = Len(keys) - pos
      /\ \A i \in 1..(Len(keys) - pos) : after[i] = keys[pos + i]
  BY <1>1
<1>5. /\ left \in Seq(Keys) /\ DOMAIN left = 1..(Len(keys) - 1)
      /\ \A i \in DOMAIN left : from(i) \in DOMAIN keys \ {pos} /\ left[i] = keys[from(i)]
  <2> HIDE DEF before, after
  <2>1. left = before \o after
    BY <1>2 DEF before, after
  <2>2. left \in Seq(Keys) /\ Len(left) = Len(keys) - 1
    BY <1>1, <1>3, <1>4, <2>1
  <2>3. ASSUME NEW i \in 1..(Len(keys) - 1), i < pos PROVE left[i] = keys[i]
    <3>1. left[i] = before[i]
      BY <1>1, <1>3, <1>4, <2>1, <2>3
    <3> QED
      BY <1>1, <1>3, <2>3, <3>1
  <2>4. ASSUME NEW i \in 1..(Len(keys) - 1), i >= pos PROVE left[i] = keys[i + 1]
    <3>1. left[i] = after[i - (pos - 1)]
      BY <1>1, <1>3, <1>4, <2>1, <2>4
    <3>2. i - (pos - 1) \in 1..(Len(keys) - pos) /\ pos + (i - (pos - 1)) = i + 1
      BY <1>1, <2>4
    <3> QED
      BY <1>4, <3>1, <3>2
  <2> QED
    BY <1>1, <2>2, <2>3, <2>4
<1> HIDE DEF before, after
<1>6. IsInjective(left)
  <2>1. \A i, j \in DOMAIN left : from(i) = from(j) => i = j
    BY <1>1, <1>5
  <2>2. \A i, j \in DOMAIN left : left[i] = left[j] => from(i) = from(j)
    <3> HIDE DEF from
    <3> QED
      BY <1>5 DEF IsInjective
  <2> HIDE DEF from
  <2> QED
    BY <2>1, <2>2 DEF IsInjective
<1>7. ToSet(left) \subseteq ToSet(keys) \ {k}
  <2> HIDE DEF from
  <2> QED
    BY <1>1, <1>5 DEF ToSet, IsInjective
<1>8. ASSUME NEW e \in ToSet(keys) \ {k} PROVE e \in ToSet(left)
  <2>1. PICK i \in 1..Len(keys) : keys[i] = e /\ i # pos
    BY <1>1 DEF ToSet
  <2>2. CASE i < pos
    <3>1. i \in DOMAIN left /\ from(i) = i
      <4>1. i \in 1..(Len(keys) - 1)
        BY <1>1, <2>1, <2>2
      <4> QED
        BY <1>5, <2>2, <4>1
    <3> HIDE DEF from
    <3>2. left[i] = e
      BY <1>5, <2>1, <3>1
    <3> QED
      BY <3>1, <3>2 DEF ToSet
  <2>3. CASE i > pos
    <3>1. i - 1 \in DOMAIN left /\ from(i - 1) = i
      <4>1. i - 1 \in 1..(Len(keys) - 1) /\ ~(i - 1 < pos) /\ (i - 1) + 1 = i
        BY <1>1, <2>1, <2>3
      <4> QED
        BY <1>5, <4>1
    <3> HIDE DEF from
    <3>2. left[i - 1] = e
      BY <1>5, <2>1, <3>1
    <3> QED
      BY <3>1, <3>2 DEF ToSet
  <2> QED
    BY <1>1, <2>1, <2>2, <2>3
<1> QED
  BY <1>5, <1>6, <1>7, <1>8 DEF left

LEMMA AddedRing ==
    ASSUME NEW r \in Ring, NEW k \in Keys
    PROVE  /\ AddKeyToKeyring(r, k) \in Ring
           /\ KeysOf(AddKeyToKeyring(r, k)) = KeysOf(r) \cup {k}
<1> DEFINE keys == IF k \in KeysOf(r) THEN r.keys ELSE <<k>> \o r.keys
<1>1. r.keys \in Seq(Keys) /\ \A i, j \in DOMAIN r.keys : r.keys[i] = r.keys[j] => i = j
  BY RingFields
<1>2. keys \in Seq(Keys) /\ IsInjective(keys) /\ ToSet(keys) = KeysOf(r) \cup {k}
  <2>1. CASE k \in KeysOf(r)
    BY <1>1, <2>1 DEF KeysOf, IsInjective
  <2>2. CASE k \notin KeysOf(r)
    <3> DEFINE more == <<k>> \o r.keys
    <3>1. /\ more \in Seq(Keys) /\ Len(more) = Len(r.keys) + 1 /\ more[1] = k
          /\ \A i \in 1..Len(r.keys) : more[i + 1] = r.keys[i]
      BY <1>1
    <3> HIDE DEF more
    <3>2. \A i \in 2..Len(more) : i - 1 \in DOMAIN r.keys /\ more[i] = r.keys[i - 1]
      BY <1>1, <3>1
    <3>3. \A i \in DOMAIN r.keys : r.keys[i] # k
      BY <2>2 DEF KeysOf, ToSet
    <3>4. IsInjective(more)
      <4> SUFFICES ASSUME NEW i \in DOMAIN more, NEW j \in DOMAIN more, more[i] = more[j]
                   PROVE  i = j
        BY DEF IsInjective
      <4>1. i \in 1..Len(more) /\ j \in 1..Len(more)
        BY <3>1
      <4>2. i = 1 <=> j = 1
        BY <3>1, <3>2, <3>3, <4>1
      <4>3. CASE i # 1 /\ j # 1
        <5>1. i - 1 = j - 1
          BY <1>1, <3>1, <3>2, <4>1, <4>3
        <5> QED
          BY <4>1, <5>1
      <4> QED
        BY <4>2, <4>3
    <3>5. ToSet(more) \subseteq KeysOf(r) \cup {k}
      BY <3>1, <3>2 DEF KeysOf, ToSet
    <3>6. KeysOf(r) \cup {k} \subseteq ToSet(more)
      <4>1. \A i \in DOMAIN r.keys : i + 1 \in DOMAIN more
        BY <1>1, <3>1
      <4>2. 1 \in DOMAIN more
        BY <1>1, <3>1
      <4> QED
        BY <1>1, <3>1, <4>1, <4>2 DEF KeysOf, ToSet
    <3>7. keys = more
      BY <2>2 DEF more
    <3> QED
      BY <3>1, <3>4, <3>5, <3>6, <3>7
  <2> QED
    BY <2>1, <2>2
<1>3. keys # << >>
  BY <1>2 DEF ToSet
<1>4. AddKeyToKeyring(r, k) = [keys |-> keys, active |-> k]
  BY DEF AddKeyToKeyring
<1> HIDE DEF keys
<1> QED
  BY <1>2, <1>3, <1>4 DEF Ring, KeysOf

LEMMA RemovedRing ==
    ASSUME NEW r \in Ring, NEW k \in KeysOf(r)
    PROVE  /\ RemoveKeyFromKeyring(r, k) \in Ring
           /\ KeysOf(RemoveKeyFromKeyring(r, k)) = KeysOf(r) \ {k}
<1> DEFINE left == Without(r.keys, k)
           active == IF left = << >> THEN Nobody ELSE left[1]
<1>1. left \in Seq(Keys) /\ IsInjective(left) /\ ToSet(left) = KeysOf(r) \ {k}
  BY RingFields, WithoutOne DEF KeysOf, IsInjective
<1>2. RemoveKeyFromKeyring(r, k) = [keys |-> left, active |-> active]
  BY DEF RemoveKeyFromKeyring
<1> HIDE DEF left
<1>3. left # << >> => left[1] \in ToSet(left)
  BY <1>1 DEF ToSet
<1>4. active \in Keys \cup {Nobody} /\ IF left = << >> THEN active = Nobody ELSE active \in ToSet(left)
  BY <1>1, <1>3 DEF ToSet
<1> HIDE DEF active
<1> QED
  BY <1>1, <1>2, <1>4 DEF Ring, KeysOf

LEMMA ActivatedRing ==
    ASSUME NEW r \in Ring, NEW k \in KeysOf(r)
    PROVE  /\ SetActiveKeyInKeyring(r, k) \in Ring
           /\ KeysOf(SetActiveKeyInKeyring(r, k)) = KeysOf(r)
<1> DEFINE s == [r EXCEPT !.active = k]
<1>1. r \in [keys: Seq(Keys), active: Keys \cup {Nobody}] /\ r.keys # << >> /\ k \in Keys
      /\ IsInjective(r.keys)
  BY RingFields DEF Ring, KeysOf, ToSet
<1>2. s.keys = r.keys /\ s.active = k /\ s \in [keys: Seq(Keys), active: Keys \cup {Nobody}]
  BY <1>1
<1>3. SetActiveKeyInKeyring(r, k) = s
  BY DEF SetActiveKeyInKeyring
<1> HIDE DEF s
<1> QED
  BY <1>1, <1>2, <1>3 DEF Ring, KeysOf
-----------------------------------------------------------------------------
(* The invariant. *)

\* A tab in step has on its settings page what is stored, shows the user it
\* signs as, and asks the extension only if no key is active.
InStepShows ==
    \A t \in inStep :
        /\ page[t] = "settings" => ring[t] = stored
        /\ IF stored.active # Nobody THEN user[t] = stored.active /\ t \notin asking
           ELSE user[t] \in {Nobody, "extension"}

\* No ring, stored or copied, has a key that was never made.
OnlyMade ==
    /\ KeysOf(stored) \cup removed \subseteq made
    /\ \A t \in Tabs : KeysOf(ring[t]) \cup KeysOf(check[t].ring) \subseteq made

\* A check whose page is there writes that page's ring.
CheckOfPage == \A t \in Tabs : check[t].pc = "page" => page[t] = "settings"

KeyringInv == TypeOK /\ InStepShows /\ OnlyMade /\ CheckOfPage /\ KeysStay

\* A write that leaves the ring as it is tells nobody anything new, and a write
\* that changes it leaves only the tabs that know of it in step.
LEMMA WritesStep ==
    ASSUME KeyringInv, NEW r \in Ring, NEW copy, NEW known \in SUBSET Tabs,
           Writes(r, copy, known)
    PROVE  /\ stored' \in Ring /\ inStep' \subseteq Tabs /\ strays' \in BOOLEAN
           /\ stored' = r
           /\ r = stored => inStep' = known \cup inStep /\ strays' = strays
           /\ r # stored => inStep' = known /\ (~strays' => copy = stored /\ ~strays)
BY DEF KeyringInv, TypeOK, Writes

\* Whom a tab shows after its own write or its first look at the ring.
LEMMA ShowsUserStep ==
    ASSUME TypeOK, NEW t \in Tabs, NEW r \in Ring, ShowsUser(t, r.active)
    PROVE  /\ user' \in [Tabs -> Keys \cup {Nobody, "extension"}] /\ asking' \subseteq Tabs
           /\ user'[t] = r.active /\ (r.active # Nobody => t \notin asking')
           /\ \A u \in Tabs : u # t => user'[u] = user[u] /\ (u \in asking' <=> u \in asking)
<1>1. r.active \in Keys \cup {Nobody}
  BY DEF Ring
<1> QED
  BY <1>1 DEF TypeOK, ShowsUser

\* A tab that is opened reads the ring, and makes the first key if asked to.
LEMMA EnterStep ==
    ASSUME KeyringInv, NEW t \in Tabs, NEW k \in Keys \cup {Nobody}, Enter(t, k)
    PROVE  KeyringInv'
<1> USE DEF KeyringInv
<1> DEFINE r == IF stored = EmptyRing /\ k # Nobody THEN AddKeyToKeyring(stored, k) ELSE stored
<1>1. stored \in Ring /\ r \in Ring
  BY AddedRing DEF TypeOK
<1>2. KeysOf(r) \subseteq Keys
  BY <1>1, RingFields
<1>3. /\ r = stored \/ (k \notin made /\ KeysOf(r) = {k} /\ KeysOf(stored) = {} /\ k \in Keys)
  BY <1>1, AddedRing, EmptyIsRing DEF Enter
<1>4. /\ page[t] = "closed" /\ stored' = r /\ made' = made \cup (KeysOf(r) \ KeysOf(stored))
      /\ page' = [page EXCEPT ![t] = "app"] /\ ShowsUser(t, r.active)
      /\ inStep' = (IF r = stored THEN inStep \cup {t} ELSE {t})
      /\ UNCHANGED <<ring, check, removed, strays>>
  BY DEF Enter
<1> HIDE DEF r
<1>5. TypeOK'
  BY <1>1, <1>2, <1>4, ShowsUserStep DEF TypeOK
<1>6. InStepShows'
  <2>1. \A u \in inStep' : u # t => u \in inStep /\ r = stored
    BY <1>4
  <2>2. \A u \in inStep' : page'[u] = "settings" => u # t /\ page[u] = "settings"
    BY <1>4 DEF TypeOK
  <2>3. r.active # Nobody \/ user'[t] = Nobody
    BY <1>1, <1>4, ShowsUserStep
  <2> QED
    BY <1>1, <1>4, <2>1, <2>2, <2>3, ShowsUserStep DEF InStepShows, TypeOK
<1>7. OnlyMade' /\ CheckOfPage'
  BY <1>3, <1>4 DEF OnlyMade, CheckOfPage, TypeOK
<1>8. KeysStay'
  BY <1>3, <1>4 DEF OnlyMade, KeysStay
<1> QED
  BY <1>5, <1>6, <1>7, <1>8

\* What a settings page writes becomes the ring, and its tab is in step.
LEMMA CommitsStep ==
    ASSUME KeyringInv, NEW t \in Tabs, NEW r \in Ring, Commits(t, r),
           made' \subseteq Keys, removed' \subseteq made', made \subseteq made',
           KeysOf(r) \subseteq made',
           KeysOf(stored) = made \ removed /\ (ring[t] = stored \/ r = stored)
             => KeysOf(r) = made' \ removed'
    PROVE  KeyringInv'
<1> USE DEF KeyringInv
<1>1. /\ page[t] = "settings" /\ ring' = [ring EXCEPT ![t] = r] /\ Writes(r, ring[t], {t})
      /\ ShowsUser(t, r.active) /\ UNCHANGED <<page, check>>
  BY DEF Commits
<1>2. /\ stored' = r /\ inStep' \subseteq Tabs /\ strays' \in BOOLEAN
      /\ r = stored => inStep' = {t} \cup inStep /\ strays' = strays
      /\ r # stored => inStep' = {t} /\ (~strays' => ring[t] = stored /\ ~strays)
  BY <1>1, WritesStep
<1>3. TypeOK'
  BY <1>1, <1>2, ShowsUserStep DEF TypeOK
<1>4. InStepShows'
  <2>1. r.active # Nobody \/ user'[t] = Nobody
    BY <1>1, ShowsUserStep
  <2>2. \A u \in inStep' : u # t => u \in inStep /\ r = stored
    BY <1>2
  <2>3. ring'[t] = r /\ \A u \in Tabs : u # t => ring'[u] = ring[u]
    BY <1>1 DEF TypeOK
  <2> QED
    BY <1>1, <1>2, <2>1, <2>2, <2>3, ShowsUserStep DEF InStepShows
<1>5. OnlyMade' /\ CheckOfPage'
  <2>1. \A u \in Tabs : KeysOf(ring'[u]) \subseteq KeysOf(ring[u]) \cup KeysOf(r)
    BY <1>1 DEF TypeOK
  <2> QED
    BY <1>1, <1>2, <2>1 DEF OnlyMade, CheckOfPage
<1>6. KeysStay'
  <2> SUFFICES ASSUME ~strays' PROVE KeysOf(r) = made' \ removed'
    BY <1>2 DEF KeysStay
  <2>1. ~strays /\ (ring[t] = stored \/ r = stored)
    BY <1>2 DEF KeysStay
  <2> QED
    BY <2>1 DEF KeysStay
<1> QED
  BY <1>3, <1>4, <1>5, <1>6

\* A key is made or imported, activated or removed.
LEMMA KeyStep ==
    ASSUME KeyringInv, NEW t \in Tabs, NEW k \in Keys,
           AddKey(t, k) \/ ActivateKey(t, k) \/ RemoveKey(t, k)
    PROVE  KeyringInv'
<1>1. ring[t] \in Ring /\ stored \in Ring /\ made \subseteq Keys
      /\ KeysOf(ring[t]) \cup removed \subseteq made
  BY DEF KeyringInv, TypeOK, OnlyMade
<1>2. CASE AddKey(t, k)
  <2> DEFINE r == AddKeyToKeyring(ring[t], k)
  <2>1. r \in Ring /\ KeysOf(r) = KeysOf(ring[t]) \cup {k}
    BY <1>1, AddedRing
  <2>2. Commits(t, r) /\ made' = made \cup {k} /\ removed' = removed \ {k}
    BY <1>2 DEF AddKey
  <2> HIDE DEF r
  <2>3. KeysOf(stored) = made \ removed /\ (ring[t] = stored \/ r = stored)
          => KeysOf(r) = made' \ removed'
    BY <2>1, <2>2
  <2> QED
    BY <1>1, <2>1, <2>2, <2>3, CommitsStep
<1>3. CASE ActivateKey(t, k)
  <2> DEFINE r == SetActiveKeyInKeyring(ring[t], k)
  <2>1. Commits(t, r) /\ UNCHANGED <<made, removed>> /\ k \in KeysOf(ring[t])
    BY <1>3 DEF ActivateKey
  <2>2. r \in Ring /\ KeysOf(r) = KeysOf(ring[t])
    BY <1>1, <2>1, ActivatedRing
  <2> HIDE DEF r
  <2> QED
    BY <1>1, <2>1, <2>2, CommitsStep
<1>4. CASE RemoveKey(t, k)
  <2> DEFINE r == RemoveKeyFromKeyring(ring[t], k)
  <2>1. Commits(t, r) /\ made' = made /\ removed' = removed \cup {k} /\ k \in KeysOf(ring[t])
    BY <1>4 DEF RemoveKey
  <2>2. r \in Ring /\ KeysOf(r) = KeysOf(ring[t]) \ {k}
    BY <1>1, <2>1, RemovedRing
  <2> HIDE DEF r
  <2>3. KeysOf(stored) = made \ removed /\ (ring[t] = stored \/ r = stored)
          => KeysOf(r) = made' \ removed'
    BY <2>1, <2>2
  <2> QED
    BY <1>1, <2>1, <2>2, <2>3, CommitsStep
<1> QED
  BY <1>2, <1>3, <1>4

\* A proof check that ends writes the ring of its page: what is stored, or a
\* stray.
LEMMA CheckStep ==
    ASSUME KeyringInv, NEW t \in Tabs, ProofChecked(t) \/ LeftPageWrites(t)
    PROVE  KeyringInv'
<1> USE DEF KeyringInv
<1> DEFINE r == IF ProofChecked(t) THEN ring[t] ELSE check[t].ring
           known == IF ProofChecked(t) THEN {t} \cap inStep ELSE {}
<1>1. r \in Ring /\ known \in SUBSET Tabs /\ KeysOf(r) \subseteq made
  BY DEF TypeOK, OnlyMade
<1>2. /\ Writes(r, r, known) /\ check' = [check EXCEPT ![t] = NoCheck]
      /\ UNCHANGED <<page, ring, user, asking, made, removed>>
  <2>1. CASE ProofChecked(t)
    <3>1. r = ring[t] /\ known = {t} \cap inStep
      BY <2>1
    <3> HIDE DEF r, known
    <3> QED
      BY <2>1, <3>1 DEF ProofChecked
  <2>2. CASE ~ProofChecked(t)
    <3>1. r = check[t].ring /\ known = {} /\ LeftPageWrites(t)
      BY <2>2
    <3> HIDE DEF r, known
    <3> QED
      BY <3>1 DEF LeftPageWrites
  <2> QED
    BY <2>1, <2>2
<1>3. known \subseteq inStep /\ (known # {} => r = stored)
  BY DEF ProofChecked, CheckOfPage, InStepShows
<1> HIDE DEF r, known
<1>4. /\ stored' = r /\ strays' \in BOOLEAN
      /\ r = stored => inStep' = inStep /\ strays' = strays
      /\ r # stored => inStep' = {} /\ strays'
  BY <1>2, <1>3 DEF Writes, TypeOK
<1>5. /\ check' \in [Tabs -> [pc: {"none", "page", "left"}, ring: Ring]]
      /\ \A u \in Tabs : check'[u] = check[u] \/ check'[u] = NoCheck
      /\ NoCheck.pc = "none" /\ KeysOf(NoCheck.ring) = {}
  BY <1>2, EmptyIsRing DEF TypeOK, NoCheck
<1>6. TypeOK'
  BY <1>1, <1>2, <1>4, <1>5 DEF TypeOK
<1>7. InStepShows' /\ KeysStay'
  BY <1>2, <1>4 DEF InStepShows, KeysStay
<1>8. OnlyMade' /\ CheckOfPage'
  BY <1>1, <1>2, <1>4, <1>5 DEF OnlyMade, CheckOfPage
<1> QED
  BY <1>6, <1>7, <1>8

\* The steps that write nothing: the extension answers, a settings page is
\* opened or left, a tab is closed, a check begins or comes to nothing.
LEMMA QuietStep ==
    ASSUME KeyringInv, NEW t \in Tabs,
           \/ ExtensionAnswers(t) \/ OpenSettings(t) \/ LeaveSettings(t) \/ CloseTab(t)
           \/ CheckProof(t) \/ CheckEnds(t)
    PROVE  KeyringInv'
<1> USE DEF KeyringInv
<1>1. /\ UNCHANGED <<stored, made, removed, strays>> /\ inStep' \subseteq inStep
  BY DEF ExtensionAnswers, OpenSettings, LeaveSettings, CloseTab, CheckProof, CheckEnds, history
<1>2. /\ EmptyRing \in Ring /\ KeysOf(EmptyRing) = {} /\ NoCheck.pc = "none" /\ NoCheck.ring = EmptyRing
      /\ NoCheck \in [pc: {"none", "page", "left"}, ring: Ring]
  BY EmptyIsRing DEF NoCheck
<1>3. /\ ring' \in [Tabs -> Ring] /\ page' \in [Tabs -> {"closed", "app", "settings"}]
      /\ \A u \in Tabs : KeysOf(ring'[u]) \subseteq made
      /\ \A u \in inStep : page'[u] = "settings" => ring'[u] = stored
  <2>1. CASE OpenSettings(t)
    BY <2>1 DEF OpenSettings, TypeOK, OnlyMade, InStepShows
  <2>2. CASE LeaveSettings(t) \/ CloseTab(t)
    BY <1>2, <2>2 DEF LeaveSettings, CloseTab, TypeOK, OnlyMade, InStepShows
  <2>3. CASE UNCHANGED <<ring, page>>
    BY <2>3 DEF TypeOK, OnlyMade, InStepShows
  <2> QED
    BY <2>1, <2>2, <2>3 DEF ExtensionAnswers, CheckProof, CheckEnds
<1> DEFINE C == [pc: {"none", "page", "left"}, ring: Ring]
<1>4. /\ check' \in [Tabs -> C]
      /\ \A u \in Tabs : KeysOf(check'[u].ring) \subseteq made
      /\ \A u \in Tabs : check'[u].pc = "page" => page'[u] = "settings"
  <2>1. check \in [Tabs -> C] /\ page \in [Tabs -> {"closed", "app", "settings"}]
        /\ check[t].ring \in Ring /\ ring[t] \in Ring
    BY DEF TypeOK
  <2>2. CASE check' = check /\ ~CloseTab(t) /\ (LeaveSettings(t) => check[t].pc # "page")
    <3>1. \A u \in Tabs : page[u] = "settings" => page'[u] = "settings" \/ (u = t /\ LeaveSettings(t))
      BY <2>1, <2>2 DEF ExtensionAnswers, OpenSettings, LeaveSettings, CheckProof, CheckEnds
    <3> HIDE DEF C
    <3> QED
      BY <2>1, <2>2, <3>1 DEF CheckOfPage, OnlyMade
  <2>3. ASSUME NEW c \in C, check' = [check EXCEPT ![t] = c], KeysOf(c.ring) \subseteq made,
               c.pc = "page" => page'[t] = "settings",
               \A u \in Tabs : u # t => page'[u] = page[u]
        PROVE  /\ check' \in [Tabs -> C]
               /\ \A u \in Tabs : KeysOf(check'[u].ring) \subseteq made
               /\ \A u \in Tabs : check'[u].pc = "page" => page'[u] = "settings"
    <3> HIDE DEF C
    <3>1. check'[t] = c /\ \A u \in Tabs : u # t => check'[u] = check[u]
      BY <2>1, <2>3
    <3> QED
      BY <2>1, <2>3, <3>1 DEF CheckOfPage, OnlyMade
  <2>4. CASE LeaveSettings(t) /\ check[t].pc = "page"
    <3> DEFINE c == [check[t] EXCEPT !.pc = "left", !.ring = ring[t]]
    <3>1. c \in C /\ c.pc = "left" /\ c.ring = ring[t]
      BY <2>1
    <3>2. check' = [check EXCEPT ![t] = c]
      BY <2>4 DEF LeaveSettings
    <3>3. KeysOf(ring[t]) \subseteq made /\ \A u \in Tabs : u # t => page'[u] = page[u]
      BY <2>1, <2>4 DEF LeaveSettings, OnlyMade
    <3> HIDE DEF c, C
    <3> QED
      BY <2>3, <3>1, <3>2, <3>3
  <2>5. CASE CheckProof(t)
    <3> DEFINE c == [check[t] EXCEPT !.pc = "page"]
    <3>1. c \in C /\ c.pc = "page" /\ c.ring = check[t].ring
      BY <2>1
    <3>2. check' = [check EXCEPT ![t] = c] /\ page[t] = "settings" /\ page' = page
      BY <2>5 DEF CheckProof
    <3>3. KeysOf(check[t].ring) \subseteq made
      BY DEF OnlyMade
    <3> HIDE DEF c, C
    <3> QED
      BY <2>3, <3>1, <3>2, <3>3
  <2>6. CASE CloseTab(t) \/ CheckEnds(t)
    <3>1. check' = [check EXCEPT ![t] = NoCheck] /\ \A u \in Tabs : u # t => page'[u] = page[u]
      BY <2>1, <2>6 DEF CloseTab, CheckEnds
    <3>2. NoCheck \in C
      BY <1>2
    <3> HIDE DEF C
    <3> QED
      BY <1>2, <2>3, <3>1, <3>2
  <2> QED
    BY <2>2, <2>4, <2>5, <2>6 DEF ExtensionAnswers, OpenSettings, LeaveSettings, CloseTab
<1>5. /\ user' \in [Tabs -> Keys \cup {Nobody, "extension"}] /\ asking' \subseteq asking
      /\ \A u \in inStep' : user'[u] = user[u] \/ (u \in asking /\ user'[u] = "extension")
  BY DEF ExtensionAnswers, OpenSettings, LeaveSettings, CloseTab, CheckProof, CheckEnds, TypeOK
<1>6. TypeOK'
  BY <1>1, <1>3, <1>4, <1>5 DEF TypeOK
<1>7. InStepShows'
  BY <1>1, <1>3, <1>5 DEF InStepShows
<1> QED
  BY <1>1, <1>3, <1>4, <1>6, <1>7 DEF OnlyMade, CheckOfPage, KeysStay

\* The invariant holds in every state.
LEMMA KeyringInvariant == KeyringSpec => []KeyringInv
<1>1. KeyringInit => KeyringInv
  <2> SUFFICES ASSUME KeyringInit PROVE KeyringInv
    OBVIOUS
  <2>1. EmptyRing.active = Nobody /\ EmptyRing.keys = << >> /\ NoCheck.pc = "none" /\ NoCheck.ring = EmptyRing
    BY DEF EmptyRing, NoCheck
  <2>2. NoCheck \in [pc: {"none", "page", "left"}, ring: Ring]
    BY EmptyIsRing DEF NoCheck
  <2> QED
    BY <2>1, <2>2, EmptyIsRing
       DEF KeyringInit, KeyringInv, TypeOK, InStepShows, OnlyMade, CheckOfPage, KeysStay
<1>2. KeyringInv /\ [KeyringNext]_keyringVars => KeyringInv'
  <2> SUFFICES ASSUME KeyringInv, [KeyringNext]_keyringVars PROVE KeyringInv'
    OBVIOUS
  <2>1. CASE UNCHANGED keyringVars
    BY <2>1 DEF keyringVars, KeyringInv, TypeOK, InStepShows, OnlyMade, CheckOfPage, KeysStay
  <2> QED
    BY <2>1, EnterStep, KeyStep, CheckStep, QuietStep DEF KeyringNext
<1> QED
  BY <1>1, <1>2, PTL DEF KeyringSpec

\* Every ring a tab stores, shows or has still to write is well formed: each
\* key once, and one of them active, unless there is none.
THEOREM RingsAreKept == KeyringSpec => []TypeOK
BY KeyringInvariant, PTL DEF KeyringInv

\* However tabs write, check proofs and wait for the extension, a tab that has
\* seen the last write shows the user it signs as.
THEOREM TabsSignAsShown == KeyringSpec => []SignsAsShown
<1>1. KeyringInv => SignsAsShown
  BY DEF KeyringInv, InStepShows, SignsAsShown
<1> QED
  BY <1>1, KeyringInvariant, PTL

\* Keys are lost, or come back, only by a write made from a copy that was not
\* the ring, for every number of tabs and keys.
THEOREM KeysAreNotLost == KeyringSpec => []KeysStay
BY KeyringInvariant, PTL DEF KeyringInv

-----------------------------------------------------------------------------
(* The pages: where a handler and the effects that follow leave the user.   *)

\* What never blanks a page: a narrow map is covered only for a beacon of the
\* address, and a narrow list only for a thread that is known.
PlaceOK(p) ==
    /\ p.route = "world" /\ p.narrow /\ p.covered => p.selected # None
    /\ p.open => p.chosen \in p.beacons

\* Where a handler may leave the user, before the effects run.
Sane(p) ==
    /\ p.covered => at.covered \/ p.selected # None
    /\ p.open => p.chosen # None

-----------------------------------------------------------------------------
(* The effects. *)

LEMMA InboxKnown ==
    ASSUME NEW p \in Place
    PROVE  Inbox(p) \subseteq p.beacons /\ p.beacons \subseteq Spots /\ None \notin p.beacons
BY WorldAssumption DEF Inbox, Place

\* Choosing a thread changes nothing else, and leaves the list hidden for one
\* that is known.
LEMMA ChosenStep ==
    ASSUME NEW p \in Place, p.open => p.chosen # None, NEW q \in Chosen(p)
    PROVE  /\ q \in Place /\ (q.open => q.chosen \in q.beacons)
           /\ q.route = p.route /\ q.beacons = p.beacons /\ q.selected = p.selected
           /\ q.focused = p.focused /\ q.narrow = p.narrow /\ q.covered = p.covered
<1>1. Inbox(p) \subseteq p.beacons /\ p.beacons \subseteq Spots
  BY InboxKnown
<1>2. CASE q = p
  BY <1>1, <1>2 DEF Chosen, Place
<1>3. CASE q = [p EXCEPT !.chosen = None, !.open = FALSE]
  BY <1>3 DEF Place
<1>4. ASSUME NEW s \in Inbox(p), q = [p EXCEPT !.chosen = s]
      PROVE  /\ q \in Place /\ (q.open => q.chosen \in q.beacons)
             /\ q.route = p.route /\ q.beacons = p.beacons /\ q.selected = p.selected
             /\ q.focused = p.focused /\ q.narrow = p.narrow /\ q.covered = p.covered
  BY <1>1, <1>4 DEF Place
<1>5. \/ q = p \/ q = [p EXCEPT !.chosen = None, !.open = FALSE]
      \/ \E s \in Inbox(p) : q = [p EXCEPT !.chosen = s]
  BY DEF Chosen
<1> QED
  BY <1>2, <1>3, <1>4, <1>5

LEMMA UnchosenStep ==
    ASSUME NEW p \in Place
    PROVE  /\ Unchosen(p) \in Place /\ Unchosen(p).open = FALSE
           /\ Unchosen(p).route = p.route /\ Unchosen(p).beacons = p.beacons
           /\ Unchosen(p).selected = p.selected /\ Unchosen(p).focused = p.focused
           /\ Unchosen(p).narrow = p.narrow /\ Unchosen(p).covered = p.covered
BY DEF Unchosen, Place

\* The effects of the chats page.
LEMMA ChatsStep ==
    ASSUME NEW p \in Place, p.open => p.chosen # None, NEW token \in BOOLEAN,
           NEW q \in ChatsAfter(p, token)
    PROVE  /\ q \in Place /\ (q.open => q.chosen \in q.beacons)
           /\ q.route = p.route /\ q.beacons = p.beacons /\ q.selected = p.selected
           /\ q.narrow = p.narrow /\ q.covered = p.covered
<1> DEFINE new   == p.route # at.route
           blank == [Unchosen(p) EXCEPT !.narrow = FALSE]
           kept  == [p EXCEPT !.open = @ /\ p.narrow]
           first == IF new THEN Chosen(blank) ELSE {kept}
<1>1. PICK f \in first : q \in Chosen(Unchosen(p)) \/ q \in Chosen([f EXCEPT !.narrow = p.narrow])
  BY DEF ChatsAfter
<1>2. /\ blank \in Place /\ blank.open = FALSE /\ blank.route = p.route /\ blank.beacons = p.beacons
      /\ blank.selected = p.selected /\ blank.covered = p.covered
  BY UnchosenStep DEF Place
<1>3. /\ kept \in Place /\ (kept.open => kept.chosen # None) /\ kept.route = p.route
      /\ kept.beacons = p.beacons /\ kept.selected = p.selected /\ kept.covered = p.covered
  BY DEF Place
<1> HIDE DEF blank, kept
<1>4. /\ f \in Place /\ (f.open => f.chosen # None) /\ f.route = p.route /\ f.beacons = p.beacons
      /\ f.selected = p.selected /\ f.covered = p.covered
  <2>1. CASE f \in Chosen(blank)
    <3>1. /\ f \in Place /\ (f.open => f.chosen \in f.beacons) /\ f.route = p.route
          /\ f.beacons = p.beacons /\ f.selected = p.selected /\ f.covered = p.covered
      BY <1>2, <2>1, ChosenStep
    <3> QED
      BY <3>1, InboxKnown
  <2>2. CASE f = kept
    BY <1>3, <2>2
  <2> QED
    BY <2>1, <2>2
<1> DEFINE g == [f EXCEPT !.narrow = p.narrow]
<1>5. /\ g \in Place /\ (g.open => g.chosen # None) /\ g.route = p.route /\ g.beacons = p.beacons
      /\ g.selected = p.selected /\ g.covered = p.covered /\ g.narrow = p.narrow
  BY <1>4 DEF Place
<1>6. q \in Chosen(Unchosen(p)) \/ q \in Chosen(g)
  BY <1>1
<1> HIDE DEF g, first
<1>7. CASE q \in Chosen(g)
  BY <1>5, <1>7, ChosenStep
<1>8. CASE q \in Chosen(Unchosen(p))
  BY <1>8, UnchosenStep, ChosenStep
<1> QED
  BY <1>6, <1>7, <1>8

\* The effects of any page.
LEMMA AfterStep ==
    ASSUME at \in Place, PlaceOK(at), NEW p \in Place, Sane(p), NEW token \in BOOLEAN,
           NEW q \in After(p, token)
    PROVE  /\ q \in Place /\ PlaceOK(q)
           /\ q.route = p.route /\ q.selected = p.selected
<1>1. CASE p.route = "world"
  <2> DEFINE c == Covered(p)
  <2>1. c \in BOOLEAN
    BY <1>1 DEF Covered, Place
  <2>2. p.narrow /\ c => p.selected # None
    BY <1>1 DEF Covered, Place, Sane, PlaceOK
  <2>3. q = [Unchosen(p) EXCEPT !.covered = c]
    BY <1>1 DEF After
  <2> HIDE DEF c
  <2> DEFINE u == Unchosen(p)
  <2>4. u \in Place /\ u.open = FALSE /\ u.route = p.route /\ u.selected = p.selected /\ u.narrow = p.narrow
    BY UnchosenStep
  <2> HIDE DEF u
  <2>5. /\ q \in Place /\ q.open = FALSE /\ q.route = p.route /\ q.selected = p.selected
        /\ q.narrow = p.narrow /\ q.covered = c
    <3>1. q = [u EXCEPT !.covered = c]
      BY <2>3 DEF u
    <3> QED
      BY <2>1, <2>4, <3>1 DEF Place
  <2> QED
    BY <2>2, <2>5 DEF PlaceOK
<1>2. CASE p.route = "chats"
  <2> DEFINE b == [p EXCEPT !.covered = FALSE]
  <2>1. b \in Place /\ (b.open => b.chosen # None) /\ b.route = p.route /\ b.selected = p.selected
    BY DEF Place, Sane
  <2>2. q \in ChatsAfter(b, token)
    BY <1>2 DEF After
  <2> HIDE DEF b
  <2>3. /\ q \in Place /\ (q.open => q.chosen \in q.beacons) /\ q.route = p.route /\ q.selected = p.selected
    BY <2>1, <2>2, ChatsStep
  <2> QED
    BY <1>2, <2>3 DEF PlaceOK
<1>3. CASE p.route \notin {"world", "chats"}
  <2> DEFINE u == Unchosen(p)
  <2>1. u \in Place /\ u.open = FALSE /\ u.route = p.route /\ u.selected = p.selected
    BY UnchosenStep
  <2>2. q = [u EXCEPT !.covered = FALSE]
    BY <1>3 DEF After
  <2> HIDE DEF u
  <2>3. q \in Place /\ q.open = FALSE /\ q.route = p.route /\ q.selected = p.selected
    BY <2>1, <2>2 DEF Place
  <2> QED
    BY <1>3, <2>3 DEF PlaceOK
<1> QED
  BY <1>1, <1>2, <1>3

-----------------------------------------------------------------------------
(* The invariant of the map and the chats. *)

Sheet == [on: Spots \cup {None}, step: {"none", "prompt", "form"}, picture: Spots \cup {None},
          uploading: BOOLEAN, submitting: BOOLEAN]
\* A picture is on the sheet of the spot it was chosen for.
SheetOK(d) == d \in Sheet /\ d.picture \in {None, d.on}

Panel == [reply: Note \cup {NoNote}, reacting: Note \cup {NoNote}, acting: Note \cup {NoNote},
          pressed: Note \cup {NoNote},
          dialog: [who: People \cup {None}, says: [Questions -> People \cup {None, "error"}]]]
\* The thread of the beacon at s: what is open there, and whom the dialog is
\* about.
OnNotesOf(th, s) == {th.reply, th.reacting, th.acting, th.pressed} \subseteq {NoNote, [on |-> s]}
SaysOfWho(th) == \A q \in Questions : th.dialog.says[q] \in {None, "error", th.dialog.who}
PanelOK(th, s) == th \in Panel /\ OnNotesOf(th, s) /\ SaysOfWho(th)

Ask == [who: People, about: Questions, live: BOOLEAN]

PlaceInv == at \in Place /\ PlaceOK(at) /\ remembered \in Spots \cup {None}
AskedInv == uploads \subseteq Upload /\ asks \subseteq Ask
PanelInv == PanelOK(thread, ThreadOf(at))
WorldInv == PlaceInv /\ SheetOK(draft) /\ AskedInv /\ lights \subseteq LightOf /\ PanelInv

LEMMA NoDraftOK == NoDraft \in Sheet /\ SheetOK(NoDraft)
BY DEF NoDraft, Sheet, SheetOK

LEMMA NewDraftOK ==
    ASSUME NEW s \in Spots
    PROVE  SheetOK(NewDraft(s))
BY DEF NewDraft, NoDraft, Sheet, SheetOK

LEMMA NoThreadOK ==
    ASSUME NEW s
    PROVE  PanelOK(NoThread, s)
BY DEF NoThread, NoDialog, NoNote, Panel, PanelOK, OnNotesOf, SaysOfWho

\* The panel on another beacon keeps the dialog only.
LEMMA ForBeaconOK ==
    ASSUME NEW th \in Panel, SaysOfWho(th), NEW s
    PROVE  PanelOK(ForBeacon(th), s)
<1> DEFINE fresh == ForBeacon(th)
<1>1. fresh = [reply |-> NoNote, reacting |-> NoNote, acting |-> NoNote, pressed |-> NoNote,
               dialog |-> th.dialog]
  BY DEF ForBeacon, NoThread
<1>2. fresh \in Panel
  BY <1>1 DEF Panel
<1>3. OnNotesOf(fresh, s) /\ SaysOfWho(fresh)
  BY <1>1 DEF OnNotesOf, SaysOfWho
<1> QED
  BY <1>2, <1>3 DEF PanelOK

\* Wherever a handler leaves the user, the effects restore the invariant.
LEMMA ShowsWithStep ==
    ASSUME WorldInv, NEW p \in Place, Sane(p), NEW d, SheetOK(d), NEW token \in BOOLEAN,
           ShowsWith(p, d, token)
    PROVE  PlaceInv' /\ SheetOK(draft)' /\ AskedInv' /\ PanelInv'
<1> DEFINE D(q) == IF q.route = "world" THEN d ELSE NoDraft
           Kept(q) == /\ q.route = at.route /\ q.narrow = at.narrow
                      /\ ThreadShown /\ Mounted(q, D(q))
<1>1. PICK q \in After(p, token) :
         /\ at' = q
         /\ remembered' = IF q.selected = None THEN remembered ELSE q.selected
         /\ draft' = D(q)
         /\ thread' = IF ~Kept(q) THEN NoThread
                      ELSE IF ThreadOf(q) # ThreadOf(at) THEN ForBeacon(thread) ELSE thread
         /\ asks' = IF Kept(q) THEN asks ELSE {}
         /\ uploads' = IF q.route = at.route THEN uploads ELSE {}
  BY DEF ShowsWith
<1>2. SheetOK(D(q))
  BY NoDraftOK
<1> HIDE DEF D, Kept
<1>3. q \in Place /\ PlaceOK(q)
  BY AfterStep DEF WorldInv, PlaceInv
<1>4. PlaceInv'
  BY <1>1, <1>3 DEF PlaceInv, PlaceOK, WorldInv, Place
<1>5. SheetOK(draft)'
  BY <1>1, <1>2 DEF SheetOK, Sheet
<1>6. AskedInv'
  BY <1>1 DEF AskedInv, WorldInv
<1>7. PanelOK(thread', ThreadOf(q))
  BY <1>1, NoThreadOK, ForBeaconOK DEF WorldInv, PanelInv, PanelOK
<1>8. PanelInv'
  BY <1>1, <1>7 DEF PanelInv
<1> QED
  BY <1>4, <1>5, <1>6, <1>8

LEMMA ShowsStep ==
    ASSUME WorldInv, NEW p \in Place, Sane(p), NEW d, SheetOK(d), Shows(p, d),
           lights' \subseteq LightOf
    PROVE  WorldInv'
BY ShowsWithStep DEF Shows, WorldInv

\* A call that goes on is one all the same.
LEMMA LightsGoOnStep == WorldInv /\ LightsGoOn => lights' \subseteq LightOf
BY DEF WorldInv, LightsGoOn, LightOf
-----------------------------------------------------------------------------
(* The steps to another place. *)

\* Where the user is, is sane, and an open chat is about a spot.
LEMMA HereIsSane ==
    ASSUME WorldInv
    PROVE  at \in Place /\ Sane(at) /\ (at.open => at.chosen # None) /\ "world" \in Pages
<1>1. at \in Place /\ PlaceOK(at)
  BY DEF WorldInv, PlaceInv
<1>2. at.open => at.chosen # None
  BY <1>1, InboxKnown DEF PlaceOK
<1> QED
  BY <1>1, <1>2, WorldAssumption DEF Sane

LEMMA OpenedStep ==
    ASSUME WorldInv, NEW s \in Spots, NEW narrow \in BOOLEAN
    PROVE  Opened(s, narrow) \in Place /\ Sane(Opened(s, narrow))
<1> DEFINE p == Opened(s, narrow)
<1>1. p \in Place /\ p.selected = s /\ p.open = at.open /\ p.chosen = at.chosen
  BY HereIsSane DEF Opened, Place
<1> HIDE DEF p
<1>2. Sane(p)
  BY <1>1, HereIsSane, WorldAssumption DEF Sane
<1> QED
  BY <1>1, <1>2 DEF p

LEMMA PressMapStep ==
    ASSUME WorldInv, NEW s \in Spots, PressMap(s)
    PROVE  WorldInv'
<1>1. lights' \subseteq LightOf
  BY DEF PressMap, WorldInv
<1>2. CASE OpenBeacon(s)
  <2>1. at.narrow \in BOOLEAN
    BY HereIsSane DEF Place
  <2> QED
    BY <1>1, <1>2, <2>1, OpenedStep, NoDraftOK, ShowsStep DEF OpenBeacon
<1> DEFINE p == [at EXCEPT !.selected = None, !.focused = FALSE, !.covered = FALSE]
<1>3. CASE Shows(p, NewDraft(s))
  <2>1. p \in Place /\ p.covered = FALSE /\ p.open = at.open /\ p.chosen = at.chosen
    BY HereIsSane DEF Place
  <2> HIDE DEF p
  <2>2. Sane(p)
    BY <2>1, HereIsSane DEF Sane
  <2> QED
    BY <1>1, <1>3, <2>1, <2>2, NewDraftOK, ShowsStep
<1> QED
  BY <1>2, <1>3 DEF PressMap

LEMMA PressAvatarStep ==
    ASSUME WorldInv, PressAvatar
    PROVE  WorldInv'
<1> DEFINE back == [Unchosen(at) EXCEPT !.selected = None, !.focused = FALSE, !.covered = FALSE]
           there == [at EXCEPT !.route = "world", !.selected = ThreadOf(at),
                               !.focused = (at.route = "world")]
<1>1. lights' \subseteq LightOf
  BY LightsGoOnStep DEF PressAvatar
<1>2. back \in Place /\ Sane(back)
  <2> DEFINE u == Unchosen(at)
  <2>1. u \in Place /\ u.open = FALSE
    BY UnchosenStep, HereIsSane
  <2> HIDE DEF u
  <2>2. back = [u EXCEPT !.selected = None, !.focused = FALSE, !.covered = FALSE]
    BY DEF u
  <2>3. back \in Place /\ back.open = FALSE /\ back.covered = FALSE
    BY <2>1, <2>2 DEF Place
  <2> QED
    BY <2>3 DEF Sane
<1>3. there \in Place /\ Sane(there)
  <2>1. ThreadOf(at) \in Spots \cup {None}
    BY HereIsSane DEF ThreadOf, Place
  <2>2. /\ there \in Place /\ there.covered = at.covered /\ there.open = at.open
        /\ there.chosen = at.chosen
    BY <2>1, HereIsSane DEF Place
  <2> HIDE DEF there
  <2> QED
    BY <2>2, HereIsSane DEF Sane
<1>4. Shows(back, NoDraft) \/ Shows(there, NoDraft)
  BY DEF PressAvatar
<1> HIDE DEF back, there
<1> QED
  BY <1>1, <1>2, <1>3, <1>4, NoDraftOK, ShowsStep

LEMMA ChooseThreadStep ==
    ASSUME WorldInv, NEW s \in Spots, ChooseThread(s)
    PROVE  WorldInv'
<1> DEFINE p == [at EXCEPT !.chosen = s, !.selected = s, !.focused = FALSE, !.open = @ \/ at.narrow]
<1>1. p \in Place /\ p.chosen = s /\ p.selected = s
  BY HereIsSane DEF Place
<1>2. Shows(p, NoDraft) /\ lights' \subseteq LightOf
  BY DEF ChooseThread, WorldInv
<1> HIDE DEF p
<1>3. Sane(p)
  BY <1>1, WorldAssumption DEF Sane
<1> QED
  BY <1>1, <1>2, <1>3, NoDraftOK, ShowsStep

LEMMA ResizeStep ==
    ASSUME WorldInv, Resize
    PROVE  WorldInv'
<1> DEFINE p == [at EXCEPT !.narrow = ~@]
<1>1. p \in Place /\ p.covered = at.covered /\ p.open = at.open /\ p.chosen = at.chosen
  BY HereIsSane DEF Place
<1>2. Shows(p, draft) /\ SheetOK(draft) /\ lights' \subseteq LightOf
  BY DEF Resize, WorldInv
<1> HIDE DEF p
<1>3. Sane(p)
  BY <1>1, HereIsSane DEF Sane
<1> QED
  BY <1>1, <1>2, <1>3, ShowsStep

LEMMA NavigateStep ==
    ASSUME WorldInv, NEW r \in Pages, Navigate(r)
    PROVE  WorldInv'
<1> DEFINE s == IF at.narrow /\ r \in {"world", "chats"} THEN None ELSE remembered
           p == [at EXCEPT !.route = r, !.selected = s, !.focused = FALSE]
<1>1. \/ Shows(p, draft)
      \/ ShowsWith(Unchosen(p), draft, TRUE)
  BY DEF Navigate
<1>2. SheetOK(draft) /\ lights' \subseteq LightOf
  BY LightsGoOnStep DEF Navigate, WorldInv
<1>3. s \in Spots \cup {None}
  BY DEF WorldInv, PlaceInv
<1> HIDE DEF s
<1>4. p \in Place /\ p.covered = at.covered /\ p.open = at.open /\ p.chosen = at.chosen
  BY <1>3, HereIsSane DEF Place
<1> HIDE DEF p
<1>5. Sane(p)
  BY <1>4, HereIsSane DEF Sane
<1>6. Unchosen(p) \in Place /\ Sane(Unchosen(p))
  BY <1>4, <1>5, UnchosenStep DEF Sane
<1> QED
  BY <1>1, <1>2, <1>4, <1>5, <1>6, ShowsStep, ShowsWithStep DEF WorldInv

LEMMA FollowLinkStep ==
    ASSUME WorldInv, NEW r \in Pages, NEW s \in Spots \cup {None}, NEW foc \in BOOLEAN,
           FollowLink(r, s, foc)
    PROVE  WorldInv'
<1> DEFINE p == [at EXCEPT !.route = r, !.selected = s, !.focused = foc]
<1>1. p \in Place /\ p.covered = at.covered /\ p.open = at.open /\ p.chosen = at.chosen
  BY HereIsSane DEF Place
<1>2. Shows(p, draft) /\ SheetOK(draft) /\ lights' \subseteq LightOf
  BY LightsGoOnStep DEF FollowLink, WorldInv
<1> HIDE DEF p
<1>3. Sane(p)
  BY <1>1, HereIsSane DEF Sane
<1> QED
  BY <1>1, <1>2, <1>3, ShowsStep

LEMMA PlacesChangeStep ==
    ASSUME WorldInv, NEW bs \in SUBSET Spots, PlacesChange(bs)
    PROVE  WorldInv'
<1> DEFINE p == [at EXCEPT !.beacons = bs]
<1>1. p \in Place /\ p.covered = at.covered /\ p.open = at.open /\ p.chosen = at.chosen
  BY HereIsSane DEF Place
<1>2. Shows(p, draft) /\ SheetOK(draft) /\ lights' \subseteq LightOf
  BY DEF PlacesChange, WorldInv
<1> HIDE DEF p
<1>3. Sane(p)
  BY <1>1, HereIsSane DEF Sane
<1> QED
  BY <1>1, <1>2, <1>3, ShowsStep

LEMMA CloseDraftStep ==
    ASSUME WorldInv, CloseDraft
    PROVE  WorldInv'
<1>1. Shows(at, NoDraft) /\ lights' \subseteq LightOf
  BY DEF CloseDraft, WorldInv
<1> QED
  BY <1>1, HereIsSane, NoDraftOK, ShowsStep

\* A beacon that is lit leaves the user where it was opened.
LEMMA LandsStep ==
    ASSUME WorldInv, NEW l \in lights
    PROVE  Lands(l) \in Place /\ Sane(Lands(l)) /\ Lands(l).route = at.route
<1> DEFINE o == Opened(l.on, l.narrow)
           a == [at EXCEPT !.selected = l.on, !.focused = FALSE]
           q == IF l.mounted THEN o ELSE a
           p == [q EXCEPT !.beacons = @ \cup {l.on}]
<1>1. l.on \in Spots /\ l.narrow \in BOOLEAN
  BY DEF WorldInv, LightOf
<1>2. o \in Place /\ Sane(o) /\ o.route = at.route
  BY <1>1, OpenedStep, HereIsSane DEF Opened, Place
<1>3. /\ a \in Place /\ a.selected = l.on /\ a.open = at.open /\ a.chosen = at.chosen
      /\ a.route = at.route
  BY <1>1, HereIsSane DEF Place
<1> HIDE DEF o, a
<1>4. a \in Place /\ Sane(a) /\ a.route = at.route
  BY <1>1, <1>3, HereIsSane, WorldAssumption DEF Sane
<1>5. q \in Place /\ Sane(q) /\ q.route = at.route
  BY <1>2, <1>4
<1>6. Lands(l) = p
  BY DEF Lands, o, a
<1> HIDE DEF q
<1>7. /\ p \in Place /\ p.covered = q.covered /\ p.open = q.open /\ p.chosen = q.chosen
      /\ p.selected = q.selected /\ p.route = q.route
  BY <1>1, <1>5 DEF Place
<1> HIDE DEF p
<1> QED
  BY <1>5, <1>6, <1>7 DEF Sane

LEMMA LitStep ==
    ASSUME WorldInv, NEW l \in lights, Lit(l)
    PROVE  WorldInv'
<1> DEFINE d == IF l.mounted THEN NoDraft ELSE draft
<1>1. Shows(Lands(l), d) /\ lights' \subseteq LightOf
  BY DEF Lit, WorldInv
<1>2. SheetOK(d)
  BY NoDraftOK DEF WorldInv
<1> HIDE DEF d
<1> QED
  BY <1>1, <1>2, LandsStep, ShowsStep
-----------------------------------------------------------------------------
(* The steps on the sheet. *)

LEMMA SheetStep ==
    ASSUME WorldInv, NEW d, SheetOK(d), Drafts(d), uploads' \subseteq Upload,
           lights' \subseteq LightOf
    PROVE  WorldInv'
<1>1. draft' = d /\ at' = at /\ remembered' = remembered /\ thread' = thread /\ asks' = asks
  BY DEF Drafts, place
<1>2. PlaceInv'
  BY <1>1 DEF WorldInv, PlaceInv, PlaceOK, Place
<1>3. SheetOK(draft)'
  BY <1>1 DEF SheetOK, Sheet
<1>4. PanelInv'
  BY <1>1 DEF WorldInv, PanelInv
<1> QED
  BY <1>1, <1>2, <1>3, <1>4 DEF WorldInv, AskedInv

LEMMA OpenFormStep ==
    ASSUME WorldInv, OpenForm
    PROVE  WorldInv'
<1> DEFINE d == [draft EXCEPT !.step = "form"]
<1>1. SheetOK(d)
  BY DEF WorldInv, SheetOK, Sheet
<1>2. Drafts(d) /\ uploads' \subseteq Upload /\ lights' \subseteq LightOf
  BY DEF OpenForm, WorldInv, AskedInv
<1> HIDE DEF d
<1> QED
  BY <1>1, <1>2, SheetStep

LEMMA ChoosePictureStep ==
    ASSUME WorldInv, ChoosePicture
    PROVE  WorldInv'
<1> DEFINE d == [draft EXCEPT !.uploading = TRUE]
<1>1. SheetOK(d)
  BY DEF WorldInv, SheetOK, Sheet
<1>2. Drafts(d) /\ uploads' \subseteq Upload /\ lights' \subseteq LightOf
  BY DEF ChoosePicture, WorldInv, AskedInv
<1> HIDE DEF d
<1> QED
  BY <1>1, <1>2, SheetStep

LEMMA RemovePictureStep ==
    ASSUME WorldInv, RemovePicture
    PROVE  WorldInv'
<1> DEFINE d == [draft EXCEPT !.picture = None]
<1>1. SheetOK(d)
  BY DEF WorldInv, SheetOK, Sheet
<1>2. Drafts(d) /\ uploads' \subseteq Upload /\ lights' \subseteq LightOf
  BY DEF RemovePicture, WorldInv, AskedInv
<1> HIDE DEF d
<1> QED
  BY <1>1, <1>2, SheetStep

LEMMA LightStep ==
    ASSUME WorldInv, Light
    PROVE  WorldInv'
<1> DEFINE d == [draft EXCEPT !.submitting = TRUE]
<1>1. SheetOK(d)
  BY DEF WorldInv, SheetOK, Sheet
<1>2. Drafts(d) /\ uploads' \subseteq Upload /\ lights' \subseteq LightOf
  BY DEF Light, WorldInv, AskedInv
<1> HIDE DEF d
<1> QED
  BY <1>1, <1>2, SheetStep

\* A picture comes late: it is put on the sheet of its spot, or on none.
LEMMA UploadedStep ==
    ASSUME WorldInv, NEW t \in uploads, Uploaded(t)
    PROVE  WorldInv'
<1>1. PICK picture \in {t.on, draft.picture} :
        Drafts(IF SheetOf(t.on) THEN [draft EXCEPT !.picture = picture, !.uploading = FALSE]
                                ELSE draft)
  BY DEF Uploaded
<1> DEFINE d == [draft EXCEPT !.picture = picture, !.uploading = FALSE]
<1>2. uploads' \subseteq Upload /\ lights' \subseteq LightOf /\ t.on \in Spots
  BY DEF Uploaded, WorldInv, AskedInv, Upload
<1>3. SheetOf(t.on) => SheetOK(d)
  BY <1>2 DEF WorldInv, SheetOK, Sheet, SheetOf
<1>4. SheetOK(draft)
  BY DEF WorldInv
<1> HIDE DEF d
<1>5. CASE SheetOf(t.on)
  BY <1>1, <1>2, <1>3, <1>5, SheetStep DEF d
<1>6. CASE ~SheetOf(t.on)
  BY <1>1, <1>2, <1>4, <1>6, SheetStep
<1> QED
  BY <1>5, <1>6

LEMMA LightFailsStep ==
    ASSUME WorldInv, NEW l \in lights, LightFails(l)
    PROVE  WorldInv'
<1> DEFINE cleared == [draft EXCEPT !.submitting = FALSE]
           d == IF l.mounted /\ SheetOf(l.on) THEN cleared ELSE draft
<1>1. SheetOK(cleared) /\ SheetOK(draft)
  BY DEF WorldInv, SheetOK, Sheet
<1>2. Drafts(d) /\ uploads' \subseteq Upload /\ lights' \subseteq LightOf
  BY DEF LightFails, WorldInv, AskedInv
<1> HIDE DEF cleared
<1>3. SheetOK(d)
  BY <1>1
<1> HIDE DEF d
<1> QED
  BY <1>2, <1>3, SheetStep

-----------------------------------------------------------------------------
(* The steps in the thread. *)

LEMMA ThreadsStep ==
    ASSUME WorldInv, NEW th, PanelOK(th, ThreadOf(at)), Threads(th), asks' \subseteq Ask
    PROVE  WorldInv'
<1>1. /\ thread' = th /\ at' = at /\ remembered' = remembered /\ draft' = draft
      /\ uploads' = uploads /\ lights' = lights
  BY DEF Threads, place
<1>2. PlaceInv'
  BY <1>1 DEF WorldInv, PlaceInv, PlaceOK, Place
<1>3. SheetOK(draft)'
  BY <1>1 DEF WorldInv, SheetOK, Sheet
<1>4. PanelInv'
  BY <1>1 DEF PanelInv
<1> QED
  BY <1>1, <1>2, <1>3, <1>4 DEF WorldInv, AskedInv

\* What is open on the notes of the thread may be put anywhere there.
OpenHere == {NoNote, [on |-> ThreadOf(at)]} \cap (Note \cup {NoNote})

LEMMA OnNotesStep ==
    ASSUME WorldInv, NEW th,
           th \in [reply: OpenHere, reacting: OpenHere, acting: OpenHere, pressed: OpenHere,
                   dialog: {thread.dialog}],
           Threads(th), asks' = asks
    PROVE  WorldInv'
<1>1. thread \in Panel /\ SaysOfWho(thread)
  BY DEF WorldInv, PanelInv, PanelOK
<1>2. th \in Panel /\ OnNotesOf(th, ThreadOf(at)) /\ th.dialog = thread.dialog
  BY <1>1 DEF Panel, OnNotesOf, OpenHere
<1>3. SaysOfWho(th)
  BY <1>1, <1>2 DEF SaysOfWho
<1> QED
  BY <1>2, <1>3, ThreadsStep DEF PanelOK, WorldInv, AskedInv

LEMMA OpenNow ==
    ASSUME WorldInv
    PROVE  /\ thread \in [reply: OpenHere, reacting: OpenHere, acting: OpenHere, pressed: OpenHere,
                          dialog: {thread.dialog}]
           /\ NoNote \in OpenHere
           /\ \A n \in Note : n.on = ThreadOf(at) => n \in OpenHere
           /\ \A m, n \in OpenHere : Toggled(m, n) \in OpenHere
<1>1. thread \in Panel /\ OnNotesOf(thread, ThreadOf(at))
  BY DEF WorldInv, PanelInv, PanelOK
<1>2. thread \in [reply: OpenHere, reacting: OpenHere, acting: OpenHere, pressed: OpenHere,
                  dialog: {thread.dialog}]
  BY <1>1 DEF Panel, OnNotesOf, OpenHere
<1>3. NoNote \in OpenHere
  BY DEF OpenHere
<1>4. \A n \in Note : n.on = ThreadOf(at) => n \in OpenHere
  BY DEF OpenHere, Note
<1>5. \A m, n \in OpenHere : Toggled(m, n) \in OpenHere
  BY <1>3 DEF Toggled
<1> QED
  BY <1>2, <1>3, <1>4, <1>5

LEMMA ReplyToStep ==
    ASSUME WorldInv, NEW n \in Note, ReplyTo(n)
    PROVE  WorldInv'
<1> DEFINE m == Toggled(thread.reply, n)
           th == [thread EXCEPT !.reply = m, !.reacting = NoNote, !.acting = NoNote]
<1>1. m \in OpenHere
  BY OpenNow DEF ReplyTo
<1>2. Threads(th) /\ asks' = asks
  BY DEF ReplyTo
<1> HIDE DEF m
<1>3. th \in [reply: OpenHere, reacting: OpenHere, acting: OpenHere, pressed: OpenHere,
              dialog: {thread.dialog}]
  BY <1>1, OpenNow
<1> HIDE DEF th
<1> QED
  BY <1>2, <1>3, OnNotesStep

LEMMA CancelReplyStep ==
    ASSUME WorldInv, CancelReply
    PROVE  WorldInv'
<1> DEFINE th == [thread EXCEPT !.reply = NoNote]
<1>1. Threads(th) /\ asks' = asks
  BY DEF CancelReply
<1>2. th \in [reply: OpenHere, reacting: OpenHere, acting: OpenHere, pressed: OpenHere,
              dialog: {thread.dialog}]
  BY OpenNow
<1> HIDE DEF th
<1> QED
  BY <1>1, <1>2, OnNotesStep

LEMMA ToggleReactionsStep ==
    ASSUME WorldInv, NEW n \in Note, ToggleReactions(n)
    PROVE  WorldInv'
<1> DEFINE m == Toggled(thread.reacting, n)
           a == IF at.narrow THEN n ELSE thread.acting
           th == [thread EXCEPT !.reacting = m, !.acting = a]
<1>1. m \in OpenHere /\ a \in OpenHere
  BY OpenNow DEF ToggleReactions
<1>2. Threads(th) /\ asks' = asks
  BY DEF ToggleReactions
<1> HIDE DEF m, a
<1>3. th \in [reply: OpenHere, reacting: OpenHere, acting: OpenHere, pressed: OpenHere,
              dialog: {thread.dialog}]
  BY <1>1, OpenNow
<1> HIDE DEF th
<1> QED
  BY <1>2, <1>3, OnNotesStep

LEMMA ReactStep ==
    ASSUME WorldInv, React
    PROVE  WorldInv'
<1> DEFINE th == [thread EXCEPT !.reacting = NoNote, !.acting = NoNote]
<1>1. Threads(th) /\ asks' = asks
  BY DEF React
<1>2. th \in [reply: OpenHere, reacting: OpenHere, acting: OpenHere, pressed: OpenHere,
              dialog: {thread.dialog}]
  BY OpenNow
<1> HIDE DEF th
<1> QED
  BY <1>1, <1>2, OnNotesStep

LEMMA PressStep ==
    ASSUME WorldInv, NEW n \in Note, Press(n)
    PROVE  WorldInv'
<1> DEFINE th == [thread EXCEPT !.pressed = n]
<1>1. Threads(th) /\ asks' = asks /\ n \in OpenHere
  BY OpenNow DEF Press
<1>2. th \in [reply: OpenHere, reacting: OpenHere, acting: OpenHere, pressed: OpenHere,
              dialog: {thread.dialog}]
  BY <1>1, OpenNow
<1> HIDE DEF th
<1> QED
  BY <1>1, <1>2, OnNotesStep

LEMMA LiftStep ==
    ASSUME WorldInv, Lift
    PROVE  WorldInv'
<1> DEFINE th == [thread EXCEPT !.pressed = NoNote]
<1>1. Threads(th) /\ asks' = asks
  BY DEF Lift
<1>2. th \in [reply: OpenHere, reacting: OpenHere, acting: OpenHere, pressed: OpenHere,
              dialog: {thread.dialog}]
  BY OpenNow
<1> HIDE DEF th
<1> QED
  BY <1>1, <1>2, OnNotesStep

LEMMA LongPressStep ==
    ASSUME WorldInv, LongPress
    PROVE  WorldInv'
<1> DEFINE r == IF thread.reacting = thread.pressed THEN thread.reacting ELSE NoNote
           a == Toggled(thread.acting, thread.pressed)
           th == [thread EXCEPT !.reacting = r, !.acting = a, !.pressed = NoNote]
<1>1. r \in OpenHere /\ a \in OpenHere
  BY OpenNow
<1>2. Threads(th) /\ asks' = asks
  BY OpenNow DEF LongPress
<1> HIDE DEF r, a
<1>3. th \in [reply: OpenHere, reacting: OpenHere, acting: OpenHere, pressed: OpenHere,
              dialog: {thread.dialog}]
  BY <1>1, OpenNow
<1> HIDE DEF th
<1> QED
  BY <1>2, <1>3, OnNotesStep

LEMMA PostStep ==
    ASSUME WorldInv, Post
    PROVE  WorldInv'
<1> DEFINE th == [thread EXCEPT !.reply = NoNote, !.reacting = NoNote, !.acting = NoNote]
<1>1. Threads(th) /\ asks' = asks
  BY DEF Post
<1>2. th \in [reply: OpenHere, reacting: OpenHere, acting: OpenHere, pressed: OpenHere,
              dialog: {thread.dialog}]
  BY OpenNow
<1> HIDE DEF th
<1> QED
  BY <1>1, <1>2, OnNotesStep
-----------------------------------------------------------------------------
(* The steps of the dialog with a profile. *)

Dialog == [who: People \cup {None}, says: [Questions -> People \cup {None, "error"}]]

LEMMA DialogStep ==
    ASSUME WorldInv, NEW dlg \in Dialog,
           \A q \in Questions : dlg.says[q] \in {None, "error", dlg.who},
           Threads([thread EXCEPT !.dialog = dlg]), asks' \subseteq Ask
    PROVE  WorldInv'
<1> DEFINE th == [thread EXCEPT !.dialog = dlg]
<1>1. thread \in Panel /\ OnNotesOf(thread, ThreadOf(at))
  BY DEF WorldInv, PanelInv, PanelOK
<1>2. /\ th \in Panel /\ th.dialog = dlg
      /\ th.reply = thread.reply /\ th.reacting = thread.reacting
      /\ th.acting = thread.acting /\ th.pressed = thread.pressed
  BY <1>1 DEF Panel, Dialog
<1> HIDE DEF th
<1>3. PanelOK(th, ThreadOf(at))
  BY <1>1, <1>2 DEF PanelOK, OnNotesOf, SaysOfWho
<1> QED
  BY <1>3, ThreadsStep DEF th

\* What is asked when the dialog is about somebody else, is asked about them.
LEMMA AsksStep ==
    ASSUME WorldInv, NEW p \in People \cup {None}
    PROVE  AsksAbout(p) \subseteq Ask
<1>1. asks \subseteq Ask
  BY DEF WorldInv, AskedInv
<1>2. {[a EXCEPT !.live = FALSE] : a \in asks} \subseteq Ask
  BY <1>1 DEF Ask
<1>3. [who: {p} \ {None}, about: Questions, live: {TRUE}] \subseteq Ask
  BY DEF Ask
<1> QED
  BY <1>1, <1>2, <1>3 DEF AsksAbout

LEMMA OpenProfileStep ==
    ASSUME WorldInv, NEW p \in People, OpenProfile(p)
    PROVE  WorldInv'
<1> DEFINE dlg == [who |-> p, says |-> NoDialog.says]
<1>1. dlg \in Dialog /\ \A q \in Questions : dlg.says[q] \in {None, "error", dlg.who}
  BY DEF Dialog, NoDialog
<1>2. Threads([thread EXCEPT !.dialog = dlg]) /\ asks' \subseteq Ask
  BY AsksStep DEF OpenProfile
<1> HIDE DEF dlg
<1> QED
  BY <1>1, <1>2, DialogStep

LEMMA CloseProfileStep ==
    ASSUME WorldInv, CloseProfile
    PROVE  WorldInv'
<1>1. NoDialog \in Dialog /\ \A q \in Questions : NoDialog.says[q] \in {None, "error", NoDialog.who}
  BY DEF Dialog, NoDialog
<1>2. Threads([thread EXCEPT !.dialog = NoDialog]) /\ asks' \subseteq Ask
  BY AsksStep DEF CloseProfile
<1> QED
  BY <1>1, <1>2, DialogStep

\* An answer comes late: it is shown to who it is about, or not at all.
LEMMA ProfileAnsweredStep ==
    ASSUME WorldInv, NEW a \in asks, ProfileAnswered(a)
    PROVE  WorldInv'
<1> DEFINE shown(said) == [thread EXCEPT !.dialog.says[a.about] = said]
<1>1. PICK said \in {a.who, "error"} :
        Threads(IF Applies(a) THEN shown(said) ELSE thread)
  BY DEF ProfileAnswered
<1>2. asks' \subseteq Ask /\ a \in Ask
  BY DEF ProfileAnswered, WorldInv, AskedInv
<1>3. CASE Applies(a)
  <2> DEFINE old == thread.dialog
             says == [old.says EXCEPT ![a.about] = said]
             dlg == [who |-> old.who, says |-> says]
  <2>1. old \in Dialog /\ \A q \in Questions : old.says[q] \in {None, "error", old.who}
    BY DEF WorldInv, PanelInv, PanelOK, SaysOfWho, Panel, Dialog
  <2>2. a.who \in People /\ a.about \in Questions /\ old.who = a.who
    BY <1>2, <1>3 DEF Ask, Applies
  <2>3. /\ says \in [Questions -> People \cup {None, "error"}]
        /\ \A q \in Questions : says[q] \in {None, "error", a.who}
    BY <2>1, <2>2 DEF Dialog
  <2>4. shown(said) = [thread EXCEPT !.dialog = dlg]
    <3>1. thread \in Panel
      BY DEF WorldInv, PanelInv, PanelOK
    <3> QED
      BY <2>2, <3>1 DEF Panel
  <2> HIDE DEF old, says, shown
  <2>5. dlg \in Dialog /\ \A q \in Questions : dlg.says[q] \in {None, "error", dlg.who}
    BY <2>1, <2>2, <2>3 DEF Dialog
  <2> HIDE DEF dlg
  <2> QED
    BY <1>1, <1>2, <1>3, <2>4, <2>5, DialogStep
<1>4. CASE ~Applies(a)
  BY <1>1, <1>2, <1>4, ThreadsStep DEF WorldInv, PanelInv
<1> QED
  BY <1>3, <1>4

-----------------------------------------------------------------------------
(* The invariant holds, and what follows from it. *)

LEMMA WorldInitInv == WorldInit => WorldInv
<1> SUFFICES ASSUME WorldInit PROVE WorldInv
  OBVIOUS
<1>1. PICK r \in Pages, s \in Spots \cup {None}, w \in BOOLEAN :
        at = [route |-> r, beacons |-> {}, selected |-> s, focused |-> FALSE, narrow |-> w,
              covered |-> r = "world" /\ w /\ s # None, chosen |-> None, open |-> FALSE]
  BY DEF WorldInit
<1>2. PlaceInv
  BY <1>1 DEF WorldInit, PlaceInv, PlaceOK, Place
<1>3. PanelInv
  BY NoThreadOK DEF WorldInit, PanelInv
<1> QED
  BY <1>2, <1>3, NoDraftOK DEF WorldInit, WorldInv, AskedInv

LEMMA InWorldStep ==
    ASSUME WorldInv, InWorld
    PROVE  WorldInv'
<1>1. CASE \E s \in Spots : PressMap(s)
  BY <1>1, PressMapStep
<1>2. CASE PressAvatar \/ Resize
  BY <1>2, PressAvatarStep, ResizeStep
<1>3. CASE \E s \in Spots : ChooseThread(s)
  BY <1>3, ChooseThreadStep
<1>4. CASE \E bs \in SUBSET Spots : PlacesChange(bs)
  BY <1>4, PlacesChangeStep
<1>5. CASE CloseDraft \/ OpenForm \/ ChoosePicture \/ RemovePicture \/ Light
  BY <1>5, CloseDraftStep, OpenFormStep, ChoosePictureStep, RemovePictureStep, LightStep
<1>6. CASE \E t \in uploads : Uploaded(t)
  BY <1>6, UploadedStep
<1>7. CASE \E l \in lights : Lit(l) \/ LightFails(l)
  BY <1>7, LitStep, LightFailsStep
<1>8. CASE \E n \in Note : ReplyTo(n) \/ ToggleReactions(n) \/ Press(n)
  BY <1>8, ReplyToStep, ToggleReactionsStep, PressStep
<1>9. CASE CancelReply \/ React \/ Lift \/ LongPress \/ Post
  BY <1>9, CancelReplyStep, ReactStep, LiftStep, LongPressStep, PostStep
<1>10. CASE (\E p \in People : OpenProfile(p)) \/ CloseProfile
  BY <1>10, OpenProfileStep, CloseProfileStep
<1>11. CASE \E a \in asks : ProfileAnswered(a)
  BY <1>11, ProfileAnsweredStep
<1> QED
  BY <1>1, <1>2, <1>3, <1>4, <1>5, <1>6, <1>7, <1>8, <1>9, <1>10, <1>11 DEF InWorld

LEMMA WorldStays ==
    ASSUME WorldInv, UNCHANGED world
    PROVE  WorldInv'
<1>1. /\ at' = at /\ remembered' = remembered /\ draft' = draft /\ uploads' = uploads
      /\ lights' = lights /\ thread' = thread /\ asks' = asks
  BY DEF world
<1>2. PlaceInv'
  BY <1>1 DEF WorldInv, PlaceInv, PlaceOK, Place
<1>3. SheetOK(draft)' /\ PanelInv'
  BY <1>1 DEF WorldInv, PanelInv, SheetOK, Sheet
<1> QED
  BY <1>1, <1>2, <1>3 DEF WorldInv, AskedInv

LEMMA WorldInvariant == Spec => []WorldInv
<1>1. Init => WorldInv
  BY WorldInitInv DEF Init
<1>2. WorldInv /\ [Next]_vars => WorldInv'
  <2> SUFFICES ASSUME WorldInv, [Next]_vars PROVE WorldInv'
    OBVIOUS
  <2>1. CASE InWorld
    BY <2>1, InWorldStep
  <2>2. CASE UNCHANGED world
    BY <2>2, WorldStays
  <2>3. CASE Goes
    BY <2>3, NavigateStep, FollowLinkStep, HereIsSane DEF Goes
  <2>4. CASE UNCHANGED vars
    <3>1. UNCHANGED world
      BY <2>4 DEF vars
    <3> QED
      BY <3>1, WorldStays
  <2> QED
    BY <2>1, <2>2, <2>3, <2>4 DEF Next, RelayListChanges
<1> QED
  BY <1>1, <1>2, PTL DEF Spec

\* For every number of spots, people and late answers: the picture on the sheet
\* was chosen for its spot, and the dialog says of its author only what was
\* answered about that author (createBeacon, handleUpload, the profile queries).
THEOREM LateAnswersLand == Spec => []AnswersLandWhereAsked
<1>1. WorldInv => AnswersLandWhereAsked
  BY DEF WorldInv, SheetOK, PanelInv, PanelOK, SaysOfWho, AnswersLandWhereAsked
<1> QED
  BY <1>1, WorldInvariant, PTL

\* For every number of spots: nothing is open on a note of a beacon other than
\* the one whose thread is shown, on whichever page and however the address, the
\* width and the known beacons change (the effects of BeaconThreadPanel).
THEOREM ThreadsKeepTheirBeacon == Spec => []ThreadIsOfBeacon
<1>1. WorldInv => ThreadIsOfBeacon
  BY DEF WorldInv, PanelInv, PanelOK, OnNotesOf, ThreadIsOfBeacon
<1> QED
  BY <1>1, WorldInvariant, PTL

\* For every number of spots: the map page shows the map or a thread unless its
\* beacon is unknown, and the chats page its list or a thread (the effects on
\* isNarrowBeaconOpen, selectedThreadId and isNarrowThreadOpen).
THEOREM PagesAreNeverBlank == Spec => []NeverBlank
<1>1. ASSUME WorldInv PROVE NeverBlank
  <2>1. at \in Place /\ PlaceOK(at)
    BY <1>1 DEF WorldInv, PlaceInv
  <2>2. at.route = "world" /\ ~MapShown /\ ~ThreadShown => at.selected \notin at.beacons \cup {None}
    BY <2>1 DEF MapShown, ThreadShown, Mounted, ThreadOf, PlaceOK, Place
  <2>3. at.route = "chats" /\ ~ListShown => ThreadShown
    BY <2>1 DEF ListShown, ThreadShown, Mounted, ThreadOf, PlaceOK, Place
  <2> QED
    BY <2>2, <2>3 DEF NeverBlank
<1> QED
  BY <1>1, WorldInvariant, PTL

-----------------------------------------------------------------------------
(* Numbers, finite sets, and what can be chosen of them. *)

\* A set of naturals has a least one.
LEMMA LeastNumber ==
    ASSUME NEW T \in SUBSET Nat, T # {}
    PROVE  \E m \in T : \A k \in T : m <= k
<1>1. PICK m \in T : \A k \in T : ~(<<k, m>> \in OpToRel(<, Nat))
  BY NatLessThanWellFounded, WFMin
<1>2. ASSUME NEW k \in T PROVE m <= k
  <2>1. <<k, m>> \in Nat \X Nat
    OBVIOUS
  <2>2. k < m => <<k, m>> \in OpToRel(<, Nat)
    BY <2>1 DEF OpToRel
  <2>3. ~(k < m)
    BY <1>1, <2>2
  <2> QED
    BY <2>1, <2>3
<1> QED
  BY <1>2

\* Min of a set of naturals.
LEMMA MinIsLeast ==
    ASSUME NEW T \in SUBSET Nat, T # {}
    PROVE  Min(T) \in T /\ \A k \in T : Min(T) <= k
BY LeastNumber DEF Min

\* A part of a finite set has no more elements than the set.
LEMMA SmallerSubset ==
    ASSUME NEW S, IsFiniteSet(S), NEW T \in SUBSET S
    PROVE  /\ Cardinality(T) \in Nat /\ Cardinality(S) \in Nat /\ Cardinality(T) <= Cardinality(S)
           /\ T # S => Cardinality(T) < Cardinality(S)
           /\ S # {} => Cardinality(S) > 0
<1>1. IsFiniteSet(T) /\ Cardinality(T) <= Cardinality(S) /\ (Cardinality(T) = Cardinality(S) => T = S)
  BY FS_Subset
<1>2. Cardinality(T) \in Nat /\ Cardinality(S) \in Nat
  BY <1>1, FS_CardinalityType
<1>3. S # {} => Cardinality(S) # 0
  BY FS_EmptySet
<1> QED
  BY <1>1, <1>2, <1>3

\* R orders the elements of S strictly.
StrictOn(S, R) ==
    /\ \A x, y, z \in S : <<x, y>> \in R /\ <<y, z>> \in R => <<x, z>> \in R
    /\ \A x \in S : <<x, x>> \notin R

\* A nonempty finite set has an element none comes before, in any order.
LEMMA FirstOfSet ==
    ASSUME NEW S, IsFiniteSet(S), NEW R, StrictOn(S, R), NEW T \in SUBSET S, T # {}
    PROVE  \E x \in T : \A y \in T : <<y, x>> \notin R
<1> DEFINE down(x) == {y \in T : <<y, x>> \in R}
           sizes == {Cardinality(down(x)) : x \in T}
<1>0. IsFiniteSet(T)
  BY FS_Subset
<1>1. ASSUME NEW x \in T PROVE IsFiniteSet(down(x)) /\ Cardinality(down(x)) \in Nat
  <2>1. down(x) \in SUBSET T
    OBVIOUS
  <2>2. IsFiniteSet(down(x))
    BY <1>0, <2>1, FS_Subset
  <2> QED
    BY <2>2, FS_CardinalityType
<1>2. sizes \in SUBSET Nat /\ sizes # {}
  <2>1. PICK x \in T : TRUE
    OBVIOUS
  <2>2. Cardinality(down(x)) \in sizes
    BY <2>1
  <2>3. \A y \in T : Cardinality(down(y)) \in Nat
    BY <1>1
  <2> HIDE DEF down
  <2> QED
    BY <2>2, <2>3
<1>3. PICK m \in sizes : \A k \in sizes : m <= k
  BY <1>2, LeastNumber
<1>4. PICK x \in T : m = Cardinality(down(x))
  OBVIOUS
<1>5. ASSUME NEW y \in T, <<y, x>> \in R PROVE FALSE
  <2>1. down(y) \in SUBSET down(x)
    <3> SUFFICES ASSUME NEW z \in T, <<z, y>> \in R PROVE <<z, x>> \in R
      OBVIOUS
    <3> QED
      BY <1>5 DEF StrictOn
  <2>2. y \in down(x) /\ y \notin down(y)
    BY <1>5 DEF StrictOn
  <2>3. Cardinality(down(y)) < Cardinality(down(x))
    BY <1>1, <2>1, <2>2, SmallerSubset
  <2>4. Cardinality(down(y)) \in sizes
    OBVIOUS
  <2>5. Cardinality(down(x)) <= Cardinality(down(y))
    BY <1>3, <1>4, <2>4
  <2> HIDE DEF down, sizes
  <2> QED
    BY <1>1, <2>3, <2>5
<1> QED
  BY <1>5

\* Those of H that come before x.
Earlier(H, R, x) == {y \in H : <<y, x>> \in R}

\* H are those of S that are chosen when every element is asked after those before
\* it in R: ok holds the pairs of an element and the chosen ones before it with
\* which it is chosen too.
ChosenBy(H, S, R, ok) == \A x \in S : x \in H <=> <<x, Earlier(H, R, x)>> \in ok

\* There is such a choice.
LEMMA GreedyChoice ==
    ASSUME NEW S, IsFiniteSet(S), NEW R, StrictOn(S, R), NEW ok
    PROVE  \E H \in SUBSET S : ChosenBy(H, S, R, ok)
<1> USE DEF Earlier, ChosenBy
<1>0. /\ \A x, y, z \in S : <<x, y>> \in R /\ <<y, z>> \in R => <<x, z>> \in R
      /\ \A x \in S : <<x, x>> \notin R
  BY DEF StrictOn
<1> DEFINE Right(H, D) == \A x \in D : x \in H <=> <<x, {y \in H : <<y, x>> \in R}>> \in ok
           Closed(D) == \A x \in D, y \in S : <<y, x>> \in R => y \in D
           Begun == {D \in SUBSET S : Closed(D) /\ \E H \in SUBSET D : Right(H, D)}
           lefts == {Cardinality(S \ D) : D \in Begun}
<1>1. ASSUME NEW D \in SUBSET S PROVE IsFiniteSet(S \ D) /\ Cardinality(S \ D) \in Nat
  <2>1. IsFiniteSet(S \ D)
    BY FS_Subset, S \ D \in SUBSET S
  <2> QED
    BY <2>1, FS_CardinalityType
<1>2. lefts \in SUBSET Nat
  <2>1. \A D \in Begun : Cardinality(S \ D) \in Nat
    BY <1>1
  <2> HIDE DEF Begun
  <2> QED
    BY <2>1
<1>3. {} \in Begun
  OBVIOUS
<1>4. PICK m \in lefts : \A k \in lefts : m <= k
  <2>1. Cardinality(S \ {}) \in lefts
    <3> HIDE DEF Begun
    <3> QED
      BY <1>3
  <2> HIDE DEF lefts
  <2> QED
    BY <1>2, <2>1, LeastNumber
<1>5. PICK D \in Begun : m = Cardinality(S \ D)
  OBVIOUS
<1>6. PICK H \in SUBSET D : Right(H, D)
  OBVIOUS
<1>7. CASE S \ D = {}
  <2>1. D = S
    BY <1>7
  <2> QED
    BY <1>6, <2>1
<1>8. CASE S \ D # {}
  <2>1. PICK x \in S \ D : \A y \in S \ D : <<y, x>> \notin R
    <3> DEFINE rest == S \ D
    <3>1. rest \in SUBSET S /\ rest # {}
      BY <1>8
    <3> HIDE DEF rest
    <3>2. \E x \in rest : \A y \in rest : <<y, x>> \notin R
      BY <3>1, FirstOfSet
    <3> QED
      BY <3>2 DEF rest
  <2> DEFINE before == {y \in H : <<y, x>> \in R}
             H1 == IF <<x, before>> \in ok THEN H \cup {x} ELSE H
             D1 == D \cup {x}
  <2>2. Closed(D1)
    BY <2>1
  <2>3. ASSUME NEW z \in D PROVE <<x, z>> \notin R
    BY <2>1, <2>3
  <2>4. ASSUME NEW z \in D1 PROVE {y \in H1 : <<y, z>> \in R} = {y \in H : <<y, z>> \in R}
    BY <1>0, <2>3, <2>4
  <2>5. Right(H1, D1)
    <3> SUFFICES ASSUME NEW z \in D1
                 PROVE  z \in H1 <=> <<z, {y \in H1 : <<y, z>> \in R}>> \in ok
      OBVIOUS
    <3>1. CASE z = x
      <4>1. x \notin H
        BY <2>1
      <4>2. x \in H1 <=> <<x, before>> \in ok
        BY <4>1
      <4>3. {y \in H1 : <<y, x>> \in R} = before
        BY <2>4
      <4> HIDE DEF H1, before
      <4> QED
        BY <3>1, <4>2, <4>3
    <3>2. CASE z # x
      <4>1. z \in D /\ (z \in H1 <=> z \in H)
        BY <3>2
      <4>2. z \in H <=> <<z, {y \in H : <<y, z>> \in R}>> \in ok
        BY <1>6, <4>1
      <4> QED
        BY <2>4, <4>1, <4>2
    <3> QED
      BY <3>1, <3>2
  <2>6. H1 \in SUBSET D1 /\ D1 \in SUBSET S
    BY <2>1
  <2>7. D1 \in Begun
    BY <2>2, <2>5, <2>6
  <2>8. Cardinality(S \ D1) < Cardinality(S \ D)
    <3>1. S \ D1 \in SUBSET (S \ D) /\ S \ D1 # S \ D
      BY <2>1
    <3> QED
      BY <1>1, <3>1, SmallerSubset
  <2>9. Cardinality(S \ D) <= Cardinality(S \ D1)
    <3>1. Cardinality(S \ D1) \in lefts
      BY <2>7
    <3> HIDE DEF lefts, Begun, D1
    <3> QED
      BY <1>4, <1>5, <3>1
  <2>10. Cardinality(S \ D1) \in Nat /\ Cardinality(S \ D) \in Nat
    BY <1>1, <2>6
  <2> HIDE DEF D1
  <2> QED
    BY <2>8, <2>9, <2>10
<1> QED
  BY <1>7, <1>8

\* There is only one.
LEMMA OnlyChoice ==
    ASSUME NEW S, IsFiniteSet(S), NEW R, StrictOn(S, R), NEW ok,
           NEW G \in SUBSET S, ChosenBy(G, S, R, ok), NEW H \in SUBSET S, ChosenBy(H, S, R, ok)
    PROVE  G = H
<1> DEFINE differ == (G \ H) \cup (H \ G)
<1> SUFFICES ASSUME differ # {} PROVE FALSE
  OBVIOUS
<1>1. differ \in SUBSET S /\ \A x \in S : x \in differ <=> ~(x \in G <=> x \in H)
  OBVIOUS
<1> HIDE DEF differ
<1>2. PICK x \in differ : \A y \in differ : <<y, x>> \notin R
  BY <1>1, FirstOfSet
<1>3. Earlier(G, R, x) = Earlier(H, R, x)
  BY <1>1, <1>2 DEF Earlier
<1> QED
  BY <1>1, <1>2, <1>3 DEF ChosenBy

-----------------------------------------------------------------------------
(* The feed. *)

\* What the rollups brought is of relays there are.
FetchedInv ==
    /\ readable \subseteq Relays /\ DOMAIN fetched \subseteq Relays
    /\ \A r \in DOMAIN fetched : fetched[r] \in Seq(Notes)

LEMMA FetchedInit == PulseInit => FetchedInv
BY DEF PulseInit, FetchedInv, Empty

\* A new rollup keeps answers of its relays only.
LEMMA StartsFetched ==
    ASSUME FetchedInv, NEW rs \in SUBSET Relays, Starts(rs)
    PROVE  FetchedInv'
BY DEF FetchedInv, Starts, Empty

\* An answer is of a relay that was asked.
LEMMA InPulseFetched ==
    ASSUME FetchedInv, queries \subseteq Query, InPulse
    PROVE  FetchedInv'
<1>1. CASE UNCHANGED <<readable, fetched>>
  BY <1>1 DEF FetchedInv
<1>2. ASSUME NEW q \in queries, Answered(q) PROVE FetchedInv'
  <2>1. q.relay \in Relays
    BY DEF Query
  <2>2. CASE Stopped(q)
    BY <1>1, <1>2, <2>2 DEF Answered
  <2>3. CASE ~Stopped(q)
    <3>1. PICK ns \in Answers :
            fetched' = [r \in DOMAIN fetched \cup {q.relay} |->
                           IF r = q.relay THEN ns ELSE fetched[r]]
      BY <1>2, <2>3 DEF Answered
    <3>2. ns \in Seq(Notes) /\ readable' = readable
      BY <1>2, PulseAssumption DEF Answered
    <3> QED
      BY <2>1, <3>1, <3>2 DEF FetchedInv
  <2> QED
    BY <2>2, <2>3
<1> QED
  BY <1>1, <1>2 DEF InPulse, TimePasses, TimerFires, Failed

LEMMA RelaysFinite == IsFiniteSet(Relays)
<1>1. RelayList \in Surjection(1..Len(RelayList), Relays)
  <2>1. RelayList \in [1..Len(RelayList) -> Relays] /\ DOMAIN RelayList = 1..Len(RelayList)
    BY PulseAssumption
  <2> QED
    BY <2>1 DEF Surjection, Relays, ToSet
<1>2. IsFiniteSet(1..Len(RelayList))
  BY PulseAssumption, FS_Interval
<1> QED
  BY <1>1, <1>2, FS_Surjection

\* What the order and the groups of the feed need of a set of items.
OfFeed(items) ==
    /\ IsFiniteSet(items)
    /\ \A x \in items : x.relay \in DOMAIN fetched /\ x.nth \in Nat /\ x.note.at \in Nat
    /\ \A x, y \in items : x.relay = y.relay /\ x.nth = y.nth => x = y

\* What holds of a set of items holds of every part of it.
LEMMA PartOfFeed ==
    ASSUME NEW items, OfFeed(items), NEW T \in SUBSET items
    PROVE  OfFeed(T)
<1>1. IsFiniteSet(T)
  BY FS_Subset DEF OfFeed
<1> QED
  BY <1>1 DEF OfFeed

\* The orders the relays may have answered in first, as in FeedListsEachOnce.
Rankings == {f \in [DOMAIN fetched -> 1..Cardinality(DOMAIN fetched)] : IsInjective(f)}

LEMMA RankingFacts ==
    ASSUME FetchedInv, NEW ranks \in Rankings
    PROVE  /\ \A r \in DOMAIN fetched : ranks[r] \in Nat
           /\ \A r, s \in DOMAIN fetched : ranks[r] = ranks[s] => r = s
<1>1. Cardinality(DOMAIN fetched) \in Nat
  BY RelaysFinite, FS_Subset, FS_CardinalityType DEF FetchedInv
<1> QED
  BY <1>1 DEF Rankings, IsInjective

\* The items are finitely many, and the place of one in an answer tells which it is.
LEMMA ItemsOfFeed ==
    ASSUME FetchedInv, NEW beacons
    PROVE  OfFeed(Items(beacons))
<1> DEFINE of(r) == {[relay |-> r, nth |-> i, note |-> fetched[r][i]] : i \in DOMAIN fetched[r]}
           D == DOMAIN fetched \cap readable
           each == {of(r) : r \in D}
<1>1. IsFiniteSet(D)
  <2>1. D \in SUBSET Relays
    BY DEF FetchedInv
  <2> QED
    BY <2>1, RelaysFinite, FS_Subset
<1>2. ASSUME NEW r \in D PROVE IsFiniteSet(of(r))
  <2>1. fetched[r] \in Seq(Notes)
    BY DEF FetchedInv
  <2> DEFINE f == [i \in DOMAIN fetched[r] |-> [relay |-> r, nth |-> i, note |-> fetched[r][i]]]
  <2>2. IsFiniteSet(DOMAIN fetched[r])
    BY <2>1, FS_Interval
  <2>3. f \in Surjection(DOMAIN fetched[r], of(r))
    BY DEF Surjection
  <2> HIDE DEF f
  <2> QED
    BY <2>2, <2>3, FS_Surjection
<1>3. IsFiniteSet(each)
  <2> DEFINE f == [r \in D |-> of(r)]
  <2>1. f \in Surjection(D, each)
    <3> HIDE DEF of
    <3> QED
      BY DEF Surjection
  <2> HIDE DEF f, each
  <2> QED
    BY <1>1, <2>1, FS_Surjection
<1>4. IsFiniteSet(UNION each)
  <2>1. \A s \in each : IsFiniteSet(s)
    <3> HIDE DEF of
    <3> QED
      BY <1>2
  <2> HIDE DEF each
  <2> QED
    BY <1>3, <2>1, FS_UNION
<1>5. Items(beacons) = {x \in UNION each : x.relay = Here => x.note.spot \notin beacons}
  BY DEF Items
<1>6. IsFiniteSet(Items(beacons))
  <2> HIDE DEF each
  <2> QED
    BY <1>4, <1>5, FS_Subset
<1>7. ASSUME NEW x \in Items(beacons)
      PROVE  /\ x.relay \in DOMAIN fetched /\ x.nth \in Nat /\ x.note.at \in Nat
             /\ x = [relay |-> x.relay, nth |-> x.nth, note |-> fetched[x.relay][x.nth]]
  <2>1. PICK r \in D : x \in of(r)
    BY <1>5
  <2>2. PICK i \in DOMAIN fetched[r] : x = [relay |-> r, nth |-> i, note |-> fetched[r][i]]
    BY <2>1
  <2>3. fetched[r] \in Seq(Notes)
    BY DEF FetchedInv
  <2>4. i \in Nat /\ fetched[r][i] \in Notes
    BY <2>2, <2>3
  <2> QED
    BY <2>2, <2>4, PulseAssumption
<1> QED
  BY <1>6, <1>7 DEF OfFeed

\* Both orders of the feed are strict and total.
LEMMA BeforeOrder ==
    ASSUME FetchedInv, NEW ranks \in Rankings, NEW items, OfFeed(items)
    PROVE  /\ \A x, y, z \in items : Before(ranks, x, y) /\ Before(ranks, y, z) => Before(ranks, x, z)
           /\ \A x \in items : ~Before(ranks, x, x)
           /\ \A x, y \in items : x = y \/ Before(ranks, x, y) \/ Before(ranks, y, x)
<1>1. \A x \in items : ranks[x.relay] \in Nat /\ x.nth \in Nat /\ x.note.at \in Nat
  BY RankingFacts DEF OfFeed
<1>2. \A x, y \in items : ranks[x.relay] = ranks[y.relay] => x.relay = y.relay
  BY RankingFacts DEF OfFeed
<1>3. \A x, y \in items : x.relay = y.relay /\ x.nth = y.nth => x = y
  BY DEF OfFeed
<1> QED
  BY <1>1, <1>2, <1>3 DEF Before

LEMMA AboveOrder ==
    ASSUME FetchedInv, NEW ranks \in Rankings, NEW items, OfFeed(items)
    PROVE  /\ \A x, y, z \in items : Above(ranks, x, y) /\ Above(ranks, y, z) => Above(ranks, x, z)
           /\ \A x \in items : ~Above(ranks, x, x)
           /\ \A x, y \in items : x = y \/ Above(ranks, x, y) \/ Above(ranks, y, x)
<1>1. \A x \in items : x.note.at \in Nat
  BY DEF OfFeed
<1>2. /\ \A x, y, z \in items : Before(ranks, x, y) /\ Before(ranks, y, z) => Before(ranks, x, z)
      /\ \A x \in items : ~Before(ranks, x, x)
      /\ \A x, y \in items : x = y \/ Before(ranks, x, y) \/ Before(ranks, y, x)
  BY BeforeOrder
<1> QED
  BY <1>1, <1>2 DEF Above

\* There is one merged list, with just the items that have no twin in it before them.
LEMMA MergedIs ==
    ASSUME FetchedInv, NEW ranks \in Rankings, NEW items, OfFeed(items)
    PROVE  /\ Merged(items, ranks) \in SUBSET items
           /\ \A x \in items :
                x \in Merged(items, ranks)
                  <=> NotSeen({y \in Merged(items, ranks) : Before(ranks, y, x)}, x)
           /\ \A G \in SUBSET items :
                (\A x \in items : x \in G <=> NotSeen({y \in G : Before(ranks, y, x)}, x))
                  => G = Merged(items, ranks)
<1> DEFINE R == {p \in items \X items : Before(ranks, p[1], p[2])}
           ok == {p \in items \X SUBSET items : NotSeen(p[2], p[1])}
           Right(H) == \A x \in items : x \in H <=> NotSeen({y \in H : Before(ranks, y, x)}, x)
<1>1. \A x, y \in items : <<x, y>> \in R <=> Before(ranks, x, y)
  OBVIOUS
<1>2. StrictOn(items, R)
  <2> HIDE DEF R
  <2> QED
    BY <1>1, BeforeOrder DEF StrictOn
<1>3. \A x \in items, H \in SUBSET items : <<x, H>> \in ok <=> NotSeen(H, x)
  OBVIOUS
<1>4. IsFiniteSet(items)
  BY DEF OfFeed
<1>5. ASSUME NEW H \in SUBSET items PROVE Right(H) <=> ChosenBy(H, items, R, ok)
  <2>1. ASSUME NEW x \in items PROVE Earlier(H, R, x) = {y \in H : Before(ranks, y, x)}
    <3> HIDE DEF R
    <3> QED
      BY <1>1 DEF Earlier
  <2>2. \A x \in items : {y \in H : Before(ranks, y, x)} \in SUBSET items
    OBVIOUS
  <2> HIDE DEF R, ok
  <2> QED
    BY <1>3, <2>1, <2>2 DEF ChosenBy
<1>6. Merged(items, ranks) = CHOOSE H \in SUBSET items : Right(H)
  BY DEF Merged
<1> HIDE DEF Right, ok, R
<1>7. \E H \in SUBSET items : Right(H)
  BY <1>2, <1>4, <1>5, GreedyChoice
<1>8. Merged(items, ranks) \in SUBSET items /\ Right(Merged(items, ranks))
  BY <1>6, <1>7
<1>9. \A G \in SUBSET items : Right(G) => G = Merged(items, ranks)
  BY <1>2, <1>4, <1>5, <1>8, OnlyChoice
<1> QED
  BY <1>8, <1>9 DEF Right

\* The firsts are the one set of just the items that are of no burst with the lowest
\* of it above them.
LEMMA FirstsIs ==
    ASSUME FetchedInv, NEW ranks \in Rankings, NEW items, OfFeed(items)
    PROVE  /\ Firsts(items, ranks) \in SUBSET items
           /\ \A x \in items :
                x \in Firsts(items, ranks)
                  <=> \A f \in Lowest({y \in Firsts(items, ranks) : Above(ranks, y, x)}, ranks) :
                        ~OneBurst(f, x)
           /\ \A G \in SUBSET items :
                (\A x \in items :
                   x \in G <=> \A f \in Lowest({y \in G : Above(ranks, y, x)}, ranks) : ~OneBurst(f, x))
                  => G = Firsts(items, ranks)
<1> DEFINE R == {p \in items \X items : Above(ranks, p[1], p[2])}
           Opens(T, x) == \A f \in Lowest(T, ranks) : ~OneBurst(f, x)
           ok == {p \in items \X SUBSET items : Opens(p[2], p[1])}
           Right(H) == \A x \in items : x \in H <=> Opens({y \in H : Above(ranks, y, x)}, x)
<1>1. \A x, y \in items : <<x, y>> \in R <=> Above(ranks, x, y)
  OBVIOUS
<1>2. StrictOn(items, R)
  <2> HIDE DEF R
  <2> QED
    BY <1>1, AboveOrder DEF StrictOn
<1>3. \A x \in items, H \in SUBSET items : <<x, H>> \in ok <=> Opens(H, x)
  <2> HIDE DEF Opens
  <2> QED
    OBVIOUS
<1>4. IsFiniteSet(items)
  BY DEF OfFeed
<1>5. ASSUME NEW H \in SUBSET items PROVE Right(H) <=> ChosenBy(H, items, R, ok)
  <2>1. ASSUME NEW x \in items PROVE Earlier(H, R, x) = {y \in H : Above(ranks, y, x)}
    <3> HIDE DEF R
    <3> QED
      BY <1>1 DEF Earlier
  <2>2. \A x \in items : {y \in H : Above(ranks, y, x)} \in SUBSET items
    OBVIOUS
  <2> HIDE DEF R, ok, Opens
  <2> QED
    BY <1>3, <2>1, <2>2 DEF ChosenBy
<1>6. Firsts(items, ranks) = CHOOSE H \in SUBSET items : Right(H)
  BY DEF Firsts
<1> HIDE DEF Right, ok, R
<1>7. \E H \in SUBSET items : Right(H)
  BY <1>2, <1>4, <1>5, GreedyChoice
<1>8. Firsts(items, ranks) \in SUBSET items /\ Right(Firsts(items, ranks))
  BY <1>6, <1>7
<1>9. \A G \in SUBSET items : Right(G) => G = Firsts(items, ranks)
  BY <1>2, <1>4, <1>5, <1>8, OnlyChoice
<1> QED
  BY <1>8, <1>9 DEF Right

\* Of the items above another one, just one is the lowest.
LEMMA LowestIs ==
    ASSUME FetchedInv, NEW ranks \in Rankings, NEW T, OfFeed(T)
    PROVE  /\ Lowest(T, ranks) \in SUBSET T
           /\ T # {} => Lowest(T, ranks) # {}
           /\ \A f, g \in Lowest(T, ranks) : f = g
           /\ \A f \in Lowest(T, ranks), y \in T : ~Above(ranks, f, y)
<1>1. /\ \A x, y, z \in T : Above(ranks, x, y) /\ Above(ranks, y, z) => Above(ranks, x, z)
      /\ \A x \in T : ~Above(ranks, x, x)
      /\ \A x, y \in T : x = y \/ Above(ranks, x, y) \/ Above(ranks, y, x)
  BY AboveOrder
<1>2. ASSUME T # {} PROVE Lowest(T, ranks) # {}
  <2> DEFINE R == {p \in T \X T : Above(ranks, p[2], p[1])}
  <2>1. \A x, y \in T : <<x, y>> \in R <=> Above(ranks, y, x)
    OBVIOUS
  <2> HIDE DEF R
  <2>2. StrictOn(T, R)
    BY <1>1, <2>1 DEF StrictOn
  <2>3. PICK x \in T : \A y \in T : <<y, x>> \notin R
    <3>1. IsFiniteSet(T)
      BY DEF OfFeed
    <3> QED
      BY <1>2, <2>2, <3>1, FirstOfSet
  <2>4. x \in Lowest(T, ranks)
    BY <2>1, <2>3 DEF Lowest
  <2> QED
    BY <2>4
<1>3. \A f \in Lowest(T, ranks) : f \in T /\ \A y \in T : ~Above(ranks, f, y)
  BY DEF Lowest
<1> QED
  BY <1>1, <1>2, <1>3

\* The firsts that are not below x.
Over(x, firsts, ranks) == {y \in firsts : y = x \/ Above(ranks, y, x)}

\* An item is in the group of the lowest first that is not below it, which is of
\* one burst with it.
LEMMA GroupOfItem ==
    ASSUME FetchedInv, NEW ranks \in Rankings, NEW items, OfFeed(items), NEW x \in items,
           NEW over, over = Over(x, Firsts(items, ranks), ranks)
    PROVE  /\ Lowest(over, ranks) # {}
           /\ \A f, g \in Lowest(over, ranks) : f = g
           /\ \A f \in Lowest(over, ranks) : OneBurst(f, x) /\ ~Above(ranks, x, f)
<1> DEFINE firsts == Firsts(items, ranks)
<1>0. over = {y \in firsts : y = x \/ Above(ranks, y, x)}
  BY DEF Over
<1>1. firsts \in SUBSET items
  BY FirstsIs
<1> HIDE DEF firsts
<1>2. over \in SUBSET items /\ OfFeed(over)
  BY <1>0, <1>1, PartOfFeed
<1>3. /\ Lowest(over, ranks) \in SUBSET over
      /\ over # {} => Lowest(over, ranks) # {}
      /\ \A f, g \in Lowest(over, ranks) : f = g
      /\ \A f \in Lowest(over, ranks), y \in over : ~Above(ranks, f, y)
  BY <1>2, LowestIs
<1>4. /\ \A f, y, z \in items : Above(ranks, f, y) /\ Above(ranks, y, z) => Above(ranks, f, z)
      /\ \A y \in items : ~Above(ranks, y, y)
  BY AboveOrder
<1>5. \A f \in over : ~Above(ranks, x, f)
  BY <1>0, <1>2, <1>4
<1>6. CASE x \in firsts
  <2>1. x \in over
    BY <1>0, <1>6
  <2>2. \A f \in Lowest(over, ranks) : f = x
    BY <1>0, <1>3, <2>1
  <2>3. OneBurst(x, x)
    BY PulseAssumption DEF OneBurst, OfFeed
  <2> QED
    BY <1>3, <1>5, <2>1, <2>2, <2>3
<1>7. CASE x \notin firsts
  <2>1. over = {y \in firsts : Above(ranks, y, x)}
    BY <1>0, <1>7
  <2>2. PICK f \in Lowest(over, ranks) : OneBurst(f, x)
    BY <1>7, <2>1, FirstsIs DEF firsts
  <2> QED
    BY <1>3, <1>5, <2>2
<1> QED
  BY <1>6, <1>7

\* Merging and grouping lose nothing and repeat nothing, whatever was fetched.
LEMMA FeedOfFetched == FetchedInv => FeedListsEachOnce
<1> SUFFICES ASSUME FetchedInv, NEW ranks \in Rankings
             PROVE  LET items  == Items(at.beacons)
                        groups == Feed(ranks, at.beacons)
                        listed == UNION {g.posts : g \in groups}
                    IN  /\ listed \subseteq items
                        /\ \A x \in items : \E y \in listed : Twins(y, x)
                        /\ \A x, y \in listed : x # y => ~Twins(x, y)
                        /\ \A x \in listed : \A g, h \in groups :
                             x \in g.posts \cap h.posts => g = h
                        /\ \A g \in groups : \A x \in g.posts :
                             Lane(x) = g.lane /\ OneBurst(g.first, x) /\ ~Above(ranks, x, g.first)
  BY DEF FeedListsEachOnce, Rankings
<1> DEFINE items == Items(at.beacons)
           merged == Merged(items, ranks)
           firsts == Firsts(merged, ranks)
           over(x) == Over(x, firsts, ranks)
           Group(f) == [first |-> f, lane |-> Lane(f),
                        posts |-> {x \in merged : f \in Lowest(over(x), ranks)}]
           groups == Feed(ranks, at.beacons)
           listed == UNION {g.posts : g \in groups}
<1>1. OfFeed(items)
  BY ItemsOfFeed
<1>2. /\ merged \in SUBSET items
      /\ \A x \in items : x \in merged <=> NotSeen({y \in merged : Before(ranks, y, x)}, x)
  <2> HIDE DEF items
  <2> QED
    BY <1>1, MergedIs
<1>3. OfFeed(merged)
  <2> HIDE DEF merged, items
  <2> QED
    BY <1>1, <1>2, PartOfFeed
<1>4. groups = {Group(f) : f \in firsts}
  BY DEF Feed, Over
<1>5. firsts \in SUBSET merged
  <2> HIDE DEF merged
  <2> QED
    BY <1>3, FirstsIs
<1>6. ASSUME NEW x \in merged
      PROVE  /\ Lowest(over(x), ranks) # {} /\ Lowest(over(x), ranks) \in SUBSET firsts
             /\ \A f, g \in Lowest(over(x), ranks) : f = g
             /\ \A f \in Lowest(over(x), ranks) : OneBurst(f, x) /\ ~Above(ranks, x, f)
  <2>1. Lowest(over(x), ranks) \in SUBSET firsts
    BY DEF Lowest, Over
  <2> HIDE DEF merged
  <2> QED
    BY <1>3, <2>1, GroupOfItem
<1>7. \A g \in groups : \A x \in g.posts :
        x \in merged /\ g = Group(g.first) /\ g.first \in Lowest(over(x), ranks)
  <2> HIDE DEF groups, merged, firsts, over
  <2> QED
    BY <1>4
<1>8. listed = merged
  <2>1. ASSUME NEW x \in merged PROVE x \in listed
    <3>1. PICK f \in firsts : f \in Lowest(over(x), ranks)
      <4> HIDE DEF firsts, over, merged
      <4> QED
        BY <1>6
    <3>2. Group(f) \in groups /\ x \in Group(f).posts
      <4> HIDE DEF groups, merged, firsts, over
      <4> QED
        BY <1>4, <3>1
    <3> HIDE DEF groups, Group
    <3> QED
      BY <3>2
  <2> HIDE DEF groups, merged, firsts, over
  <2> QED
    BY <1>7, <2>1
<1> HIDE DEF groups, merged, firsts, over, items
<1>9. \A x \in items : \E y \in merged : Twins(y, x)
  <2> SUFFICES ASSUME NEW x \in items PROVE \E y \in merged : Twins(y, x)
    OBVIOUS
  <2>1. Twins(x, x)
    BY DEF Twins
  <2> QED
    BY <1>2, <2>1 DEF NotSeen
<1>10. \A x, y \in merged : x # y => ~Twins(x, y)
  <2>1. \A x, y \in merged : Before(ranks, x, y) => ~Twins(x, y)
    BY <1>2 DEF NotSeen
  <2>2. \A x, y \in merged : x = y \/ Before(ranks, x, y) \/ Before(ranks, y, x)
    BY <1>3, BeforeOrder
  <2>3. \A x, y \in merged : Twins(x, y) => Twins(y, x)
    BY DEF Twins
  <2> QED
    BY <2>1, <2>2, <2>3
<1>11. ASSUME NEW x \in merged, NEW g \in groups, NEW h \in groups, x \in g.posts \cap h.posts
       PROVE  g = h
  <2>1. g.first = h.first
    BY <1>6, <1>7, <1>11
  <2> HIDE DEF Group
  <2> QED
    BY <1>7, <1>11, <2>1
<1>12. ASSUME NEW g \in groups, NEW x \in g.posts
       PROVE  Lane(x) = g.lane /\ OneBurst(g.first, x) /\ ~Above(ranks, x, g.first)
  <2>1. x \in merged /\ g = Group(g.first) /\ g.first \in Lowest(over(x), ranks)
    BY <1>7
  <2>2. OneBurst(g.first, x) /\ ~Above(ranks, x, g.first)
    BY <1>6, <2>1
  <2>3. g.lane = Lane(g.first)
    BY <2>1
  <2> QED
    BY <2>2, <2>3 DEF OneBurst
<1> HIDE DEF listed
<1>13. /\ listed \subseteq items
       /\ \A x \in items : \E y \in listed : Twins(y, x)
       /\ \A x, y \in listed : x # y => ~Twins(x, y)
       /\ \A x \in listed : \A g, h \in groups : x \in g.posts \cap h.posts => g = h
       /\ \A g \in groups : \A x \in g.posts :
            Lane(x) = g.lane /\ OneBurst(g.first, x) /\ ~Above(ranks, x, g.first)
  BY <1>2, <1>8, <1>9, <1>10, <1>11, <1>12
<1> QED
  BY <1>13 DEF items, groups, listed

-----------------------------------------------------------------------------
(* The rollup. *)

\* The relays that wait, are they in the list or not.
Resting(ru) == {r \in Relays : ru.wait[r] > 0}

\* The state of a rollup.
Rollup == [on: BOOLEAN, line: [Relays -> Nat], wait: [Relays -> Nat],
           backoff: [Relays -> Nat], timer: Nat \cup {Off}]

\* No two relays have one place in the line.
InOrder(rs, number) == \A r, s \in rs : number[r] = number[s] => r = s

\* Every relay of rs is in one place: due, waiting or asked.
Seated(ru, qs, rs) ==
    /\ Due(ru) \cup Resting(ru) \cup InFlight(qs) = IF ru.on THEN rs ELSE {}
    /\ Due(ru) \cap Resting(ru) = {} /\ Due(ru) \cap InFlight(qs) = {}
    /\ Resting(ru) \cap InFlight(qs) = {}
    /\ Cardinality(InFlight(qs)) <= MaxConcurrent

\* The timer fires before the first that waits is due.
Timed(ru) ==
    /\ ru.timer = Off <=> Due(ru) \cup Resting(ru) = {}
    /\ \A r \in Due(ru) \cup Resting(ru) : ru.timer <= ru.wait[r]

\* What the pump needs, and what it leaves.
RollupOK(ru, qs, rs) ==
    /\ ru \in Rollup /\ qs \subseteq Query /\ rs \subseteq Relays
    /\ InOrder(Due(ru), ru.line) /\ \A r \in Relays : ru.line[r] <= Cardinality(Relays)
    /\ Seated(ru, qs, rs)

\* The inductive invariant: what the pump leaves, and a rollup just while the feed is
\* shown and a relay is read.
RollupInv ==
    /\ RollupOK(rollup, queries, readable) /\ Timed(rollup)
    /\ rollup.on <=> at.route = "pulse" /\ readable # {}

LEMMA RollupInvIsMore == RollupInv => EveryRelayHasAPlace
BY DEF RollupInv, RollupOK, Seated, Timed, Resting, EveryRelayHasAPlace

\* There are finitely many relays.
LEMMA RelayCounts ==
    ASSUME NEW rs \in SUBSET Relays
    PROVE  /\ IsFiniteSet(rs) /\ Cardinality(rs) \in Nat
           /\ Cardinality(Relays) \in Nat /\ Cardinality(rs) <= Cardinality(Relays)
BY RelaysFinite, FS_Subset, FS_CardinalityType

\* Every relay has an index of its own.
LEMMA IndexOfRelay ==
    /\ Index \in [Relays -> Nat] /\ \A r \in Relays : Index[r] > 0
    /\ InOrder(Relays, Index)
<1>1. ASSUME NEW r \in Relays
      PROVE  Index[r] \in DOMAIN RelayList /\ RelayList[Index[r]] = r
  BY DEF Index, Relays, ToSet
<1>2. DOMAIN RelayList = 1..Len(RelayList) /\ Len(RelayList) \in Nat
  BY PulseAssumption
<1>3. Index = [r \in Relays |-> Index[r]]
  BY DEF Index
<1>4. \A r \in Relays : Index[r] \in Nat /\ Index[r] > 0
  BY <1>1, <1>2
<1> QED
  BY <1>1, <1>3, <1>4 DEF InOrder

\* A line has just the relays it is made of, each in a place of its own.
LEMMA LineOfRelays ==
    ASSUME NEW rs \in SUBSET Relays, NEW number \in [Relays -> Nat], InOrder(rs, number)
    PROVE  /\ InLine(rs, number) \in [Relays -> Nat]
           /\ \A r \in Relays : InLine(rs, number)[r] <= Cardinality(Relays)
           /\ \A r \in Relays : InLine(rs, number)[r] > 0 <=> r \in rs
           /\ InOrder(rs, InLine(rs, number))
<1> DEFINE upto(r) == {s \in rs : number[s] <= number[r]}
           line == InLine(rs, number)
<1>1. ASSUME NEW r \in rs
      PROVE  /\ Cardinality(upto(r)) \in Nat /\ Cardinality(upto(r)) > 0
             /\ Cardinality(upto(r)) <= Cardinality(Relays)
  <2>1. upto(r) \in SUBSET rs /\ r \in upto(r)
    OBVIOUS
  <2> HIDE DEF upto
  <2>2. upto(r) \in SUBSET Relays
    BY <2>1
  <2>3. IsFiniteSet(upto(r)) /\ upto(r) \in SUBSET upto(r) /\ upto(r) # {}
    BY <2>1, <2>2, RelayCounts
  <2>4. Cardinality(upto(r)) > 0
    BY <2>3, SmallerSubset
  <2> QED
    BY <2>2, <2>4, RelayCounts
<1>2. Cardinality(Relays) \in Nat
  BY RelayCounts
<1>3. \A r \in Relays : line[r] = IF r \in rs THEN Cardinality(upto(r)) ELSE 0
  BY DEF InLine
<1>4. line \in [Relays -> Nat]
  <2>1. line = [r \in Relays |-> IF r \in rs THEN Cardinality(upto(r)) ELSE 0]
    BY DEF InLine
  <2> HIDE DEF upto, line
  <2> QED
    BY <1>1, <2>1
<1>5. ASSUME NEW r \in rs, NEW s \in rs, number[r] < number[s]
      PROVE  Cardinality(upto(r)) < Cardinality(upto(s))
  <2>1. upto(r) \in SUBSET upto(s) /\ s \in upto(s) /\ s \notin upto(r)
    BY <1>5
  <2>2. upto(s) \in SUBSET Relays
    OBVIOUS
  <2> HIDE DEF upto
  <2>3. IsFiniteSet(upto(s)) /\ upto(r) # upto(s)
    BY <2>1, <2>2, RelayCounts
  <2> QED
    BY <2>1, <2>3, SmallerSubset
<1>6. ASSUME NEW r \in rs, NEW s \in rs, line[r] = line[s] PROVE r = s
  <2>1. number[r] \in Nat /\ number[s] \in Nat
    OBVIOUS
  <2>2. Cardinality(upto(r)) = Cardinality(upto(s))
    <3> HIDE DEF upto, line
    <3> QED
      BY <1>3, <1>6
  <2>3. ~(number[r] < number[s]) /\ ~(number[s] < number[r])
    <3> HIDE DEF upto
    <3> QED
      BY <1>1, <1>5, <2>2
  <2>4. number[r] = number[s]
    BY <2>1, <2>3
  <2> QED
    BY <2>4 DEF InOrder
<1> HIDE DEF upto, line
<1>7. \A r \in Relays : line[r] <= Cardinality(Relays) /\ (line[r] > 0 <=> r \in rs)
  BY <1>1, <1>2, <1>3
<1> QED
  BY <1>4, <1>6, <1>7 DEF line, InOrder

\* Of those that are due, the first few are few.
LEMMA FirstFew ==
    ASSUME NEW due \in SUBSET Relays, NEW line \in [Relays -> Nat], InOrder(due, line),
           NEW few \in Nat, NEW asked,
           asked = {r \in due : Cardinality({s \in due : Sooner(line, s, r)}) < few}
    PROVE  Cardinality(asked) <= few
<1> DEFINE before(r) == {s \in due : Sooner(line, s, r)}
           f == [r \in asked |-> Cardinality(before(r))]
<1>1. ASSUME NEW r \in due PROVE Cardinality(before(r)) \in Nat
  BY RelayCounts
<1>2. ASSUME NEW r \in due, NEW s \in due, Sooner(line, r, s)
      PROVE  Cardinality(before(r)) < Cardinality(before(s))
  <2>1. \A t \in due : Sooner(line, t, r) => Sooner(line, t, s)
    BY <1>2 DEF Sooner
  <2>2. ~Sooner(line, r, r)
    BY DEF Sooner
  <2>3. before(r) \in SUBSET before(s) /\ r \in before(s) /\ r \notin before(r)
    BY <1>2, <2>1, <2>2
  <2>4. before(s) \in SUBSET Relays
    OBVIOUS
  <2> HIDE DEF before
  <2>5. IsFiniteSet(before(s)) /\ before(r) # before(s)
    BY <2>3, <2>4, RelayCounts
  <2> QED
    BY <2>3, <2>5, SmallerSubset
<1>3. \A r, s \in due : r = s \/ Sooner(line, r, s) \/ Sooner(line, s, r)
  BY DEF Sooner, InOrder
<1>4. f \in [asked -> 0..(few - 1)]
  <2>1. \A r \in asked : r \in due /\ Cardinality(before(r)) < few
    OBVIOUS
  <2> HIDE DEF before
  <2> QED
    BY <1>1, <2>1
<1>5. ASSUME NEW r \in asked, NEW s \in asked, f[r] = f[s] PROVE r = s
  <2>1. r \in due /\ s \in due
    OBVIOUS
  <2>2. Cardinality(before(r)) = Cardinality(before(s))
    BY <1>5
  <2> HIDE DEF before
  <2>3. ~Sooner(line, r, s) /\ ~Sooner(line, s, r)
    BY <1>1, <1>2, <2>1, <2>2
  <2> QED
    BY <1>3, <2>1, <2>3
<1>6. f \in Injection(asked, 0..(few - 1))
  <2>1. DOMAIN f = asked
    OBVIOUS
  <2> HIDE DEF f
  <2> QED
    BY <1>4, <1>5, <2>1 DEF Injection, IsInjective
<1>7. IsFiniteSet(0..(few - 1)) /\ Cardinality(0..(few - 1)) = few
  <2>1. 0 \in Int /\ few - 1 \in Int
    OBVIOUS
  <2>2. Cardinality(0..(few - 1)) = IF 0 > few - 1 THEN 0 ELSE few - 1 - 0 + 1
    BY <2>1, FS_Interval
  <2> QED
    BY <2>1, <2>2, FS_Interval
<1> HIDE DEF f
<1> QED
  BY <1>6, <1>7, FS_Injection

\* A relay is asked if there is a query of it that was not stopped.
LEMMA AskedRelays ==
    ASSUME NEW qs, qs \subseteq Query
    PROVE  /\ InFlight(qs) \in SUBSET Relays
           /\ \A r \in Relays : r \in InFlight(qs) <=> [relay |-> r, asked |-> "running"] \in qs
<1>1. \A q \in Query : q.relay \in Relays /\ q = [relay |-> q.relay, asked |-> q.asked]
  BY DEF Query
<1>2. \A q \in qs : q.relay \in Relays /\ q = [relay |-> q.relay, asked |-> q.asked]
  BY <1>1
<1>3. InFlight(qs) = {q.relay : q \in {x \in qs : x.asked = "running"}}
  BY DEF InFlight
<1> QED
  BY <1>2, <1>3

\* schedulePump: the timer fires before the first relay that waits is due.
LEMMA TimerStep ==
    ASSUME NEW ru \in Rollup, Resting(ru) \subseteq readable, readable \subseteq Relays,
           Due(ru) \cap Resting(ru) = {}
    PROVE  /\ NextTimer(ru) \in Nat \cup {Off}
           /\ NextTimer(ru) = Off <=> Due(ru) \cup Resting(ru) = {}
           /\ \A r \in Due(ru) \cup Resting(ru) : NextTimer(ru) <= ru.wait[r]
<1> DEFINE waits == {ru.wait[r] : r \in Waiting(ru)}
<1>1. Waiting(ru) = Resting(ru)
  BY DEF Waiting, Resting
<1>2. \A r \in Relays : ru.wait[r] \in Nat
  BY DEF Rollup
<1>3. Due(ru) \subseteq Relays /\ Resting(ru) \subseteq Relays
  BY DEF Due, Resting
<1>4. CASE Due(ru) # {}
  BY <1>2, <1>3, <1>4 DEF NextTimer, Off
<1>5. CASE Due(ru) = {} /\ Resting(ru) # {}
  <2>1. waits \in SUBSET Nat /\ waits # {}
    BY <1>1, <1>2, <1>3, <1>5
  <2>2. NextTimer(ru) = Min(waits)
    BY <1>1, <1>5 DEF NextTimer
  <2>3. \A r \in Resting(ru) : ru.wait[r] \in waits
    BY <1>1
  <2> HIDE DEF waits
  <2>4. Min(waits) \in Nat /\ \A k \in waits : Min(waits) <= k
    BY <2>1, MinIsLeast
  <2> QED
    BY <1>5, <2>2, <2>3, <2>4 DEF Off
<1>6. CASE Due(ru) = {} /\ Resting(ru) = {}
  BY <1>1, <1>6 DEF NextTimer
<1> QED
  BY <1>4, <1>5, <1>6

\* pump keeps every relay in its place, and sets the timer.
LEMMA PumpStep ==
    ASSUME NEW ru, NEW qs, RollupOK(ru, qs, readable), Pump(ru, qs), readable' = readable
    PROVE  RollupOK(rollup, queries, readable)' /\ Timed(rollup)' /\ rollup'.on = ru.on
<1> DEFINE due   == Due(ru)
           slots == MaxConcurrent - Cardinality(InFlight(qs))
           asked == {r \in due : Cardinality({s \in due : Sooner(ru.line, s, r)}) < slots}
           line1 == InLine(due \ asked, ru.line)
           ru1   == [ru EXCEPT !.line = line1]
           new   == [relay: asked, asked: {"running"}]
<1>1. /\ ru \in Rollup /\ qs \subseteq Query /\ readable \subseteq Relays
      /\ InOrder(due, ru.line) /\ Seated(ru, qs, readable)
  BY DEF RollupOK
<1>2. ru.line \in [Relays -> Nat] /\ due \in SUBSET Relays /\ asked \in SUBSET due
  BY <1>1 DEF Rollup, Due
<1>3. InFlight(qs) \in SUBSET Relays
  BY <1>1, AskedRelays
<1>4. slots \in Nat /\ MaxConcurrent \in Nat /\ Cardinality(InFlight(qs)) \in Nat
  <2>1. Cardinality(InFlight(qs)) \in Nat
    BY <1>3, RelayCounts
  <2>2. Cardinality(InFlight(qs)) <= MaxConcurrent
    BY <1>1 DEF Seated
  <2> QED
    BY <2>1, <2>2, PulseAssumption
<1>5. Cardinality(asked) <= slots
  <2> HIDE DEF due, slots
  <2> QED
    BY <1>1, <1>2, <1>4, FirstFew
<1>6. rollup' = [ru1 EXCEPT !.timer = NextTimer(ru1)] /\ queries' = qs \cup new
  BY DEF Pump
<1> HIDE DEF due, slots, asked
<1>7. /\ line1 \in [Relays -> Nat] /\ \A r \in Relays : line1[r] <= Cardinality(Relays)
      /\ \A r \in Relays : line1[r] > 0 <=> r \in due \ asked
      /\ InOrder(due \ asked, line1)
  <2>1. due \ asked \in SUBSET Relays /\ InOrder(due \ asked, ru.line)
    BY <1>1, <1>2 DEF InOrder
  <2> QED
    BY <1>2, <2>1, LineOfRelays
<1> HIDE DEF line1
<1>8. ru1 \in Rollup /\ ru1.line = line1 /\ ru1.wait = ru.wait /\ ru1.on = ru.on
  BY <1>1, <1>7 DEF Rollup
<1> HIDE DEF ru1
<1>9. Due(ru1) = due \ asked /\ Resting(ru1) = Resting(ru)
  BY <1>2, <1>7, <1>8 DEF Due, Resting
<1>10. /\ due \cup Resting(ru) \cup InFlight(qs) = IF ru.on THEN readable ELSE {}
       /\ due \cap Resting(ru) = {} /\ due \cap InFlight(qs) = {} /\ Resting(ru) \cap InFlight(qs) = {}
  BY <1>1 DEF Seated, due
<1>11. /\ NextTimer(ru1) \in Nat \cup {Off}
       /\ NextTimer(ru1) = Off <=> Due(ru1) \cup Resting(ru1) = {}
       /\ \A r \in Due(ru1) \cup Resting(ru1) : NextTimer(ru1) <= ru1.wait[r]
  <2>1. Resting(ru1) \subseteq readable /\ Due(ru1) \cap Resting(ru1) = {}
    BY <1>2, <1>9, <1>10
  <2> QED
    BY <1>1, <1>8, <2>1, TimerStep
<1> DEFINE timer == NextTimer(ru1)
<1> HIDE DEF timer
<1>12. /\ rollup' \in Rollup /\ rollup'.line = line1 /\ rollup'.wait = ru1.wait
       /\ rollup'.on = ru.on /\ rollup'.timer = timer
  <2>1. timer \in Nat \cup {Off} /\ rollup' = [ru1 EXCEPT !.timer = timer]
    BY <1>6, <1>11 DEF timer
  <2> QED
    BY <1>8, <2>1 DEF Rollup
<1>13. Due(rollup') = Due(ru1) /\ Resting(rollup') = Resting(ru1)
  BY <1>8, <1>12 DEF Due, Resting
<1>14. new \subseteq Query
  BY <1>2 DEF Query
<1>15. queries' \subseteq Query
  BY <1>1, <1>6, <1>14
<1>16. InFlight(queries') = InFlight(qs) \cup asked
  <2>1. \A r \in Relays : [relay |-> r, asked |-> "running"] \in new <=> r \in asked
    OBVIOUS
  <2> HIDE DEF new
  <2>2. \A r \in Relays : r \in InFlight(queries') <=> r \in InFlight(qs) \/ r \in asked
    BY <1>1, <1>6, <1>15, <2>1, AskedRelays
  <2>3. InFlight(queries') \in SUBSET Relays
    BY <1>15, AskedRelays
  <2> QED
    BY <1>2, <1>3, <2>2, <2>3
<1>17. Cardinality(InFlight(queries')) <= MaxConcurrent
  <2>1. InFlight(qs) \cap asked = {}
    BY <1>2, <1>10
  <2>2. IsFiniteSet(asked) /\ IsFiniteSet(InFlight(qs)) /\ Cardinality(asked) \in Nat
    BY <1>2, <1>3, RelayCounts
  <2>3. Cardinality(InFlight(qs) \cup asked)
          = Cardinality(InFlight(qs)) + Cardinality(asked) - Cardinality(InFlight(qs) \cap asked)
    BY <2>2, FS_Union
  <2>4. Cardinality(InFlight(qs) \cap asked) = 0
    BY <2>1, FS_EmptySet
  <2> QED
    BY <1>4, <1>5, <1>16, <2>2, <2>3, <2>4 DEF slots
<1>18. Seated(rollup', queries', readable)
  BY <1>2, <1>9, <1>10, <1>12, <1>13, <1>16, <1>17 DEF Seated
<1>19. Timed(rollup')
  BY <1>8, <1>11, <1>12, <1>13 DEF Timed, timer
<1>20. RollupOK(rollup', queries', readable)
  BY <1>1, <1>7, <1>9, <1>12, <1>13, <1>15, <1>18 DEF RollupOK
<1> QED
  BY <1>12, <1>19, <1>20

LEMMA TimerFiresStep ==
    ASSUME RollupInv, TimerFires, at' = at
    PROVE  RollupInv'
<1>1. RollupOK(rollup, queries, readable)' /\ Timed(rollup)' /\ rollup'.on = rollup.on
  BY PumpStep DEF TimerFires, RollupInv
<1> QED
  BY <1>1 DEF TimerFires, RollupInv

\* After a failure a relay waits: it is not due at once.
LEMMA BackoffIs ==
    ASSUME NEW last \in Nat
    PROVE  Backoff(last) \in Nat /\ Backoff(last) > 0
<1>1. BackoffBase \in Nat \ {0} /\ BackoffMax \in Nat \ {0}
  BY PulseAssumption
<1>2. CASE last = 0
  BY <1>1, <1>2 DEF Backoff
<1>3. CASE last # 0
  <2> DEFINE both == {BackoffMax, 2 * last}
  <2>1. both \in SUBSET Nat /\ both # {} /\ \A k \in both : k > 0
    BY <1>1, <1>3
  <2>2. Backoff(last) = Min(both)
    BY <1>3 DEF Backoff
  <2> HIDE DEF both
  <2>3. Min(both) \in both
    BY <2>1, MinIsLeast
  <2> QED
    BY <2>1, <2>2, <2>3
<1> QED
  BY <1>2, <1>3

\* A query that ends makes its relay wait, unless the rollup was stopped.
LEMMA SettlesStep ==
    ASSUME RollupInv, NEW q \in queries, NEW wait \in Nat, wait > 0, NEW backoff \in Nat,
           Settles(q, wait, backoff), at' = at, readable' = readable
    PROVE  RollupInv'
<1> DEFINE r == q.relay
           rest == queries \ {q}
           ru == [rollup EXCEPT !.wait[r] = wait, !.backoff[r] = backoff]
<1>1. /\ rollup \in Rollup /\ queries \subseteq Query /\ readable \subseteq Relays
      /\ InOrder(Due(rollup), rollup.line)
      /\ \A s \in Relays : rollup.line[s] <= Cardinality(Relays)
      /\ Seated(rollup, queries, readable)
  BY DEF RollupInv, RollupOK
<1>2. q \in Query /\ r \in Relays /\ rest \subseteq Query
  BY <1>1 DEF Query
<1>3. /\ InFlight(queries) \in SUBSET Relays /\ InFlight(rest) \in SUBSET Relays
      /\ \A s \in Relays : s \in InFlight(queries) <=> [relay |-> s, asked |-> "running"] \in queries
      /\ \A s \in Relays : s \in InFlight(rest) <=> [relay |-> s, asked |-> "running"] \in rest
  BY <1>1, <1>2, AskedRelays
<1>4. CASE Stopped(q)
  <2>1. queries' = rest /\ rollup' = rollup
    BY <1>4 DEF Settles
  <2>2. \A s \in Relays : [relay |-> s, asked |-> "running"] # q
    BY <1>4 DEF Stopped
  <2>3. InFlight(rest) = InFlight(queries)
    BY <1>3, <2>2
  <2>4. RollupOK(rollup, queries, readable)'
    BY <1>1, <1>2, <2>1, <2>3 DEF RollupOK, Seated
  <2> QED
    BY <2>1, <2>4 DEF RollupInv
<1>5. CASE ~Stopped(q)
  <2>1. q = [relay |-> r, asked |-> "running"]
    BY <1>2, <1>5 DEF Stopped, Query
  <2>2. Pump(ru, rest)
    BY <1>5 DEF Settles
  <2>3. /\ ru \in Rollup /\ ru.line = rollup.line /\ ru.on = rollup.on
        /\ ru.wait = [rollup.wait EXCEPT ![r] = wait]
    BY <1>1, <1>2 DEF Rollup
  <2> HIDE DEF ru, rest, r
  <2>4. Due(ru) = Due(rollup) /\ Resting(ru) = Resting(rollup) \cup {r}
    <3>1. rollup.wait \in [Relays -> Nat]
      BY <1>1 DEF Rollup
    <3>2. \A s \in Relays : ru.wait[s] = IF s = r THEN wait ELSE rollup.wait[s]
      BY <2>3, <3>1
    <3> QED
      BY <1>2, <2>3, <3>2 DEF Due, Resting
  <2>5. r \in InFlight(queries) /\ InFlight(rest) = InFlight(queries) \ {r}
    BY <1>2, <1>3, <2>1 DEF rest
  <2>6. Cardinality(InFlight(rest)) <= MaxConcurrent
    <3>1. Cardinality(InFlight(rest)) <= Cardinality(InFlight(queries))
      <4>1. InFlight(rest) \in SUBSET InFlight(queries) /\ IsFiniteSet(InFlight(queries))
        BY <1>3, <2>5, RelayCounts
      <4> QED
        BY <4>1, FS_Subset
    <3>2. Cardinality(InFlight(queries)) <= MaxConcurrent
      BY <1>1 DEF Seated
    <3>3. Cardinality(InFlight(rest)) \in Nat /\ Cardinality(InFlight(queries)) \in Nat
      BY <1>3, RelayCounts
    <3> QED
      BY <3>1, <3>2, <3>3, PulseAssumption
  <2>7. Seated(ru, rest, readable)
    BY <1>1, <2>3, <2>4, <2>5, <2>6 DEF Seated
  <2>8. RollupOK(ru, rest, readable)
    BY <1>1, <1>2, <2>3, <2>4, <2>7 DEF RollupOK
  <2>9. RollupOK(rollup, queries, readable)' /\ Timed(rollup)' /\ rollup'.on = ru.on
    BY <2>2, <2>8, PumpStep
  <2> QED
    BY <2>3, <2>9 DEF RollupInv
<1> QED
  BY <1>4, <1>5

LEMMA LessOneIs ==
    ASSUME NEW n \in Nat
    PROVE  Max({n - 1, 0}) = IF n > 0 THEN n - 1 ELSE 0
<1> DEFINE m == IF n > 0 THEN n - 1 ELSE 0
           two == {n - 1, 0}
<1>1. m \in two /\ \A k \in two : m >= k
  OBVIOUS
<1>2. \A x \in two : (\A k \in two : x >= k) => x = m
  OBVIOUS
<1> HIDE DEF m, two
<1>3. Max(two) = m
  BY <1>1, <1>2 DEF Max
<1> QED
  BY <1>3 DEF m, two

\* Those that have waited get in line behind those that are due.
LEMMA TimePassesStep ==
    ASSUME RollupInv, TimePasses, at' = at
    PROVE  RollupInv'
<1> DEFINE new    == {r \in readable : rollup.wait[r] = 1}
           number == [r \in Relays |-> IF r \in new THEN Cardinality(Relays) + Index[r]
                                       ELSE rollup.line[r]]
           line1  == InLine(Due(rollup) \cup new, number)
           wait1  == [r \in Relays |-> Max({rollup.wait[r] - 1, 0})]
           timer1 == IF rollup.timer > 0 THEN rollup.timer - 1 ELSE rollup.timer
<1>1. /\ rollup \in Rollup /\ queries \subseteq Query /\ readable \subseteq Relays
      /\ InOrder(Due(rollup), rollup.line)
      /\ \A s \in Relays : rollup.line[s] <= Cardinality(Relays)
      /\ Seated(rollup, queries, readable) /\ Timed(rollup)
  BY DEF RollupInv, RollupOK
<1>2. /\ rollup.line \in [Relays -> Nat] /\ rollup.wait \in [Relays -> Nat]
      /\ rollup.timer \in Nat \cup {Off}
  BY <1>1 DEF Rollup
<1>3. /\ rollup' = [rollup EXCEPT !.wait = wait1, !.line = line1, !.timer = timer1]
      /\ readable' = readable /\ queries' = queries
  BY DEF TimePasses
<1>4. \A r \in Relays : wait1[r] = IF rollup.wait[r] > 0 THEN rollup.wait[r] - 1 ELSE 0
  BY <1>2, LessOneIs
<1>5. wait1 \in [Relays -> Nat]
  <2>1. \A r \in Relays : Max({rollup.wait[r] - 1, 0}) \in Nat
    BY <1>2, <1>4
  <2> QED
    BY <2>1
<1> HIDE DEF wait1
<1>6. timer1 \in Nat \cup {Off} /\ (timer1 = Off <=> rollup.timer = Off)
  BY <1>2 DEF Off
<1>7. new \in SUBSET Relays /\ new \cap Due(rollup) = {} /\ new \subseteq Resting(rollup)
  <2>1. new \subseteq Resting(rollup)
    BY <1>1 DEF Resting
  <2> QED
    BY <1>1, <2>1 DEF Seated
<1>8. number \in [Relays -> Nat] /\ InOrder(Due(rollup) \cup new, number)
  <2>1. Cardinality(Relays) \in Nat
    BY RelayCounts
  <2>2. /\ Index \in [Relays -> Nat] /\ \A r \in Relays : Index[r] > 0
        /\ InOrder(Relays, Index)
    BY IndexOfRelay
  <2>3. \A r \in Relays : number[r] = IF r \in new THEN Cardinality(Relays) + Index[r]
                                      ELSE rollup.line[r]
    OBVIOUS
  <2>4. number \in [Relays -> Nat]
    <3> HIDE DEF new
    <3> QED
      BY <1>2, <2>1, <2>2
  <2> HIDE DEF number, new
  <2>5. ASSUME NEW r \in Due(rollup) \cup new, NEW s \in Due(rollup) \cup new,
               number[r] = number[s]
        PROVE  r = s
    <3>1. r \in Relays /\ s \in Relays
      BY <1>7 DEF Due
    <3>2. CASE r \in new /\ s \in new
      <4>1. Index[r] \in Nat /\ Index[s] \in Nat
        BY <2>2, <3>1
      <4>2. Index[r] = Index[s]
        BY <2>1, <2>3, <2>5, <3>1, <3>2, <4>1
      <4> QED
        BY <2>2, <3>1, <4>2 DEF InOrder
    <3>3. CASE r \notin new /\ s \notin new
      BY <1>1, <2>3, <2>5, <3>1, <3>3 DEF InOrder
    <3>4. CASE (r \in new) # (s \in new)
      BY <1>1, <1>2, <2>1, <2>2, <2>3, <2>5, <3>1, <3>4
    <3> QED
      BY <3>2, <3>3, <3>4
  <2> QED
    BY <2>4, <2>5 DEF InOrder
<1>9. /\ line1 \in [Relays -> Nat] /\ \A r \in Relays : line1[r] <= Cardinality(Relays)
      /\ \A r \in Relays : line1[r] > 0 <=> r \in Due(rollup) \cup new
      /\ InOrder(Due(rollup) \cup new, line1)
  <2>1. Due(rollup) \cup new \in SUBSET Relays
    BY <1>7 DEF Due
  <2> HIDE DEF number, new
  <2> QED
    BY <1>8, <2>1, LineOfRelays
<1> HIDE DEF line1, timer1
<1>10. /\ rollup' \in Rollup /\ rollup'.line = line1 /\ rollup'.wait = wait1
       /\ rollup'.timer = timer1 /\ rollup'.on = rollup.on
  BY <1>1, <1>3, <1>5, <1>6, <1>9 DEF Rollup
<1>11. Due(rollup') = Due(rollup) \cup new /\ Resting(rollup') = Resting(rollup) \ new
  <2>1. Due(rollup') = Due(rollup) \cup new
    BY <1>7, <1>9, <1>10 DEF Due
  <2>2. \A r \in Relays : wait1[r] > 0 <=> rollup.wait[r] > 0 /\ rollup.wait[r] # 1
    BY <1>2, <1>4
  <2>3. \A r \in Relays : r \in Resting(rollup) => r \in readable
    BY <1>1 DEF Seated
  <2>4. \A r \in Resting(rollup) : r \in new <=> rollup.wait[r] = 1
    BY <2>3 DEF Resting
  <2> HIDE DEF new
  <2>5. Resting(rollup') = Resting(rollup) \ new
    BY <1>10, <2>2, <2>4 DEF Resting
  <2> QED
    BY <2>1, <2>5
<1> HIDE DEF new
<1>12. Seated(rollup', queries', readable')
  BY <1>1, <1>3, <1>7, <1>10, <1>11 DEF Seated
<1>13. Timed(rollup')
  <2>1. rollup'.timer = Off <=> Due(rollup') \cup Resting(rollup') = {}
    BY <1>1, <1>6, <1>7, <1>10, <1>11 DEF Timed
  <2>2. ASSUME NEW r \in Due(rollup) \cup Resting(rollup) PROVE timer1 <= wait1[r]
    <3>1. r \in Relays
      BY DEF Due, Resting
    <3>2. rollup.timer <= rollup.wait[r]
      BY <1>1 DEF Timed
    <3> QED
      BY <1>2, <1>4, <3>1, <3>2 DEF Off, timer1
  <2> QED
    BY <1>7, <1>10, <1>11, <2>1, <2>2 DEF Timed
<1> QED
  BY <1>1, <1>3, <1>9, <1>10, <1>11, <1>12, <1>13 DEF RollupInv, RollupOK

LEMMA InPulseStep ==
    ASSUME RollupInv, InPulse, at' = at
    PROVE  RollupInv'
<1>1. CASE TimePasses
  BY <1>1, TimePassesStep
<1>2. CASE TimerFires
  BY <1>2, TimerFiresStep
<1>3. ASSUME NEW q \in queries, Answered(q) PROVE RollupInv'
  <2>1. Cooldown \in Nat /\ Cooldown > 0
    BY PulseAssumption
  <2>2. Settles(q, Cooldown, 0) /\ readable' = readable
    BY <1>3 DEF Answered
  <2> QED
    BY <2>1, <2>2, SettlesStep
<1>4. ASSUME NEW q \in queries, Failed(q) PROVE RollupInv'
  <2> DEFINE wait == Backoff(rollup.backoff[q.relay])
  <2>1. q.relay \in Relays /\ rollup.backoff \in [Relays -> Nat]
    BY DEF RollupInv, RollupOK, Rollup, Query
  <2>2. wait \in Nat /\ wait > 0
    BY <2>1, BackoffIs
  <2>3. Settles(q, wait, wait) /\ readable' = readable
    BY <1>4 DEF Failed
  <2> HIDE DEF wait
  <2> QED
    BY <2>2, <2>3, SettlesStep
<1> QED
  BY <1>1, <1>2, <1>3, <1>4 DEF InPulse

\* stop()
LEMMA StopsAskingStep ==
    ASSUME queries \subseteq Query, StopsAsking
    PROVE  queries' \subseteq Query /\ InFlight(queries') = {}
<1>1. \A q \in Query : /\ [q EXCEPT !.asked = "stopped"] \in Query
                       /\ [q EXCEPT !.asked = "stopped"].asked = "stopped"
  BY DEF Query
<1>2. \A q \in queries' : q \in Query /\ q.asked = "stopped"
  BY <1>1 DEF StopsAsking
<1> QED
  BY <1>2 DEF InFlight

\* Without a rollup nothing is due and nothing waits.
LEMMA NoRollupIs ==
    /\ NoRollup \in Rollup /\ ~NoRollup.on /\ NoRollup.timer = Off
    /\ Due(NoRollup) = {} /\ Resting(NoRollup) = {}
    /\ \A r \in Relays : NoRollup.line[r] = 0
BY DEF NoRollup, Rollup, Due, Resting

\* Without a rollup no relay is in any place.
LEMMA NothingSeated ==
    ASSUME NEW qs, qs \subseteq Query, InFlight(qs) = {}, NEW rs \in SUBSET Relays
    PROVE  RollupOK(NoRollup, qs, rs) /\ Timed(NoRollup)
<1>1. Cardinality(InFlight(qs)) = 0 /\ MaxConcurrent \in Nat
  BY FS_EmptySet, PulseAssumption
<1>2. Cardinality(Relays) \in Nat
  BY RelayCounts
<1>3. Seated(NoRollup, qs, rs)
  BY <1>1, NoRollupIs DEF Seated
<1> QED
  BY <1>2, <1>3, NoRollupIs DEF RollupOK, InOrder, Timed

\* A new rollup has all its relays in line, whatever queries of old ones are left.
LEMMA StartsStep ==
    ASSUME RollupInv, NEW rs \in SUBSET Relays, Starts(rs)
    PROVE  /\ RollupOK(rollup, queries, readable)' /\ Timed(rollup)'
           /\ rollup'.on <=> rs # {}
           /\ readable' = rs
<1>1. queries' \subseteq Query /\ InFlight(queries') = {} /\ readable' = rs
  BY StopsAskingStep DEF Starts, RollupInv, RollupOK
<1>2. CASE rs = {}
  <2>1. rollup' = NoRollup
    BY <1>2 DEF Starts
  <2> QED
    BY <1>1, <1>2, <2>1, NothingSeated, NoRollupIs
<1>3. CASE rs # {}
  <2> DEFINE line1 == InLine(rs, Index)
  <2>1. rollup' = [NoRollup EXCEPT !.on = TRUE, !.timer = 0, !.line = line1]
    BY <1>3 DEF Starts
  <2>2. InOrder(rs, Index) /\ Index \in [Relays -> Nat]
    BY IndexOfRelay DEF InOrder
  <2>3. /\ line1 \in [Relays -> Nat] /\ \A r \in Relays : line1[r] <= Cardinality(Relays)
        /\ \A r \in Relays : line1[r] > 0 <=> r \in rs
        /\ InOrder(rs, line1)
    BY <2>2, LineOfRelays
  <2> HIDE DEF line1
  <2>4. /\ rollup' \in Rollup /\ rollup'.line = line1 /\ rollup'.wait = [r \in Relays |-> 0]
        /\ rollup'.on /\ rollup'.timer = 0
    BY <2>1, <2>3 DEF NoRollup, Rollup
  <2>5. Due(rollup') = rs /\ Resting(rollup') = {}
    BY <2>3, <2>4 DEF Due, Resting
  <2>6. Cardinality(InFlight(queries')) = 0 /\ MaxConcurrent \in Nat
    BY <1>1, FS_EmptySet, PulseAssumption
  <2>7. Seated(rollup', queries', rs)
    BY <1>1, <2>4, <2>5, <2>6 DEF Seated
  <2>8. Timed(rollup')
    BY <1>3, <2>4, <2>5 DEF Timed, Off
  <2> QED
    BY <1>1, <1>3, <2>3, <2>4, <2>5, <2>7, <2>8 DEF RollupOK
<1> QED
  BY <1>2, <1>3

\* If the feed is not shown, no rollup is running: it is of no consequence which
\* relays are read.
LEMMA OtherRelaysStep ==
    ASSUME RollupInv, at.route # "pulse", at'.route # "pulse",
           NEW rs \in SUBSET Relays, readable' = rs, UNCHANGED <<rollup, queries>>
    PROVE  RollupInv'
<1>1. ~rollup.on
  BY DEF RollupInv
<1> QED
  BY <1>1 DEF RollupInv, RollupOK, Seated, Timed

\* No effect leaves the page the handler went to.
LEMMA AfterStaysOn ==
    ASSUME NEW p \in Place, NEW token \in BOOLEAN, NEW q \in After(p, token)
    PROVE  q.route = p.route
<1>1. CASE p.route = "world"
  BY <1>1, UnchosenStep DEF After, Place
<1>2. CASE p.route = "chats"
  <2> DEFINE b == [p EXCEPT !.covered = FALSE]
  <2>1. b \in Place /\ b.route = p.route
    BY DEF Place
  <2>2. q \in ChatsAfter(b, token)
    BY <1>2 DEF After
  <2> HIDE DEF b
  <2>3. \A c \in Place : \A d \in Chosen(c) : d \in Place /\ d.route = c.route
    <3> SUFFICES ASSUME NEW c \in Place, NEW d \in Chosen(c) PROVE d \in Place /\ d.route = c.route
      OBVIOUS
    <3>1. Inbox(c) \subseteq Spots
      BY InboxKnown
    <3>2. \/ d = c \/ d = [c EXCEPT !.chosen = None, !.open = FALSE]
          \/ d = [c EXCEPT !.chosen = c.selected] \/ \E s \in Inbox(c) : d = [c EXCEPT !.chosen = s]
      BY DEF Chosen
    <3> QED
      BY <3>1, <3>2 DEF Place
  <2> DEFINE new   == b.route # at.route
             blank == [Unchosen(b) EXCEPT !.narrow = FALSE]
             kept  == [b EXCEPT !.open = @ /\ b.narrow]
             first == IF new THEN Chosen(blank) ELSE {kept}
  <2>4. PICK f \in first : q \in Chosen(Unchosen(b)) \/ q \in Chosen([f EXCEPT !.narrow = b.narrow])
    BY <2>2 DEF ChatsAfter
  <2>5. /\ blank \in Place /\ blank.route = b.route /\ kept \in Place /\ kept.route = b.route
        /\ Unchosen(b) \in Place /\ Unchosen(b).route = b.route
    BY <2>1, UnchosenStep DEF Place
  <2> HIDE DEF blank, kept
  <2>6. f \in Place /\ f.route = b.route
    BY <2>3, <2>5
  <2> DEFINE g == [f EXCEPT !.narrow = b.narrow]
  <2>7. g \in Place /\ g.route = b.route
    BY <2>1, <2>6 DEF Place
  <2>8. q \in Chosen(Unchosen(b)) \/ q \in Chosen(g)
    BY <2>4
  <2> HIDE DEF g, first
  <2> QED
    BY <2>1, <2>3, <2>5, <2>7, <2>8
<1>3. CASE p.route \notin {"world", "chats"}
  BY <1>3, UnchosenStep DEF After, Place
<1> QED
  BY <1>1, <1>2, <1>3

LEMMA ShowsStaysOn ==
    ASSUME NEW p \in Place, NEW d, Shows(p, d)
    PROVE  at'.route = p.route
BY AfterStaysOn DEF Shows, ShowsWith

\* On the map and in the chats nobody comes to the feed, or leaves it, but by the
\* links of the shell.
LEMMA FeedComesAndGoes ==
    ASSUME WorldInv, InWorld
    PROVE  at'.route = "pulse" <=> at.route = "pulse"
<1>1. at \in Place
  BY DEF WorldInv, PlaceInv
<1>2. CASE UNCHANGED place
  BY <1>2 DEF place
<1>3. ASSUME NEW p \in Place, NEW d, Shows(p, d), p.route = "pulse" <=> at.route = "pulse"
      PROVE  at'.route = "pulse" <=> at.route = "pulse"
  BY <1>3, ShowsStaysOn
<1>4. ASSUME NEW s \in Spots, NEW narrow \in BOOLEAN
      PROVE  Opened(s, narrow) \in Place /\ Opened(s, narrow).route = at.route
  BY <1>1 DEF Opened, Place
<1>5. ASSUME NEW s \in Spots, PressMap(s) PROVE at'.route = "pulse" <=> at.route = "pulse"
  <2>1. CASE OpenBeacon(s)
    <3>1. at.narrow \in BOOLEAN
      BY <1>1 DEF Place
    <3> QED
      BY <1>3, <1>4, <2>1, <3>1 DEF OpenBeacon
  <2> DEFINE p == [at EXCEPT !.selected = None, !.focused = FALSE, !.covered = FALSE]
  <2>2. CASE Shows(p, NewDraft(s))
    <3>1. p \in Place /\ p.route = at.route
      BY <1>1 DEF Place
    <3> HIDE DEF p
    <3> QED
      BY <1>3, <2>2, <3>1
  <2> QED
    BY <1>5, <2>1, <2>2 DEF PressMap
<1>6. CASE PressAvatar
  <2> DEFINE p1 == [Unchosen(at) EXCEPT !.selected = None, !.focused = FALSE, !.covered = FALSE]
             p2 == [at EXCEPT !.route = "world", !.selected = ThreadOf(at),
                              !.focused = (at.route = "world")]
             p  == IF at.narrow THEN p1 ELSE p2
  <2>1. Shows(p, NoDraft) /\ ThreadShown
    BY <1>6 DEF PressAvatar
  <2>2. at.route \in {"world", "chats"} /\ ThreadOf(at) \in Spots
    BY <1>1, <2>1 DEF ThreadShown, Mounted, Place
  <2>3. p1 \in Place /\ p1.route = at.route
    BY <1>1, UnchosenStep DEF Place
  <2>4. p2 \in Place /\ p2.route = "world"
    BY <1>1, <2>2, WorldAssumption DEF Place
  <2> HIDE DEF p1, p2
  <2>5. p \in Place /\ (p.route = "pulse" <=> at.route = "pulse")
    BY <2>2, <2>3, <2>4
  <2> HIDE DEF p
  <2> QED
    BY <1>3, <2>1, <2>5
<1>7. CASE Resize
  <2> DEFINE p == [at EXCEPT !.narrow = ~@]
  <2>1. p \in Place /\ p.route = at.route
    BY <1>1 DEF Place
  <2>2. Shows(p, draft)
    BY <1>7 DEF Resize
  <2> HIDE DEF p
  <2> QED
    BY <1>3, <2>1, <2>2
<1>8. ASSUME NEW s \in Spots, ChooseThread(s) PROVE at'.route = "pulse" <=> at.route = "pulse"
  <2> DEFINE p == [at EXCEPT !.chosen = s, !.selected = s, !.focused = FALSE,
                             !.open = @ \/ at.narrow]
  <2>1. p \in Place /\ p.route = at.route
    BY <1>1 DEF Place
  <2>2. Shows(p, NoDraft)
    BY <1>8 DEF ChooseThread
  <2> HIDE DEF p
  <2> QED
    BY <1>3, <2>1, <2>2
<1>9. ASSUME NEW bs \in SUBSET Spots, PlacesChange(bs) PROVE at'.route = "pulse" <=> at.route = "pulse"
  <2> DEFINE p == [at EXCEPT !.beacons = bs]
  <2>1. p \in Place /\ p.route = at.route
    BY <1>1 DEF Place
  <2>2. Shows(p, draft)
    BY <1>9 DEF PlacesChange
  <2> HIDE DEF p
  <2> QED
    BY <1>3, <2>1, <2>2
<1>10. CASE CloseDraft
  BY <1>1, <1>3, <1>10 DEF CloseDraft
<1>11. ASSUME NEW l \in lights, Lit(l) PROVE at'.route = "pulse" <=> at.route = "pulse"
  BY <1>3, <1>11, LandsStep DEF Lit
<1>12. \/ UNCHANGED place \/ PressAvatar \/ Resize \/ CloseDraft
       \/ \E s \in Spots : PressMap(s) \/ ChooseThread(s)
       \/ \E bs \in SUBSET Spots : PlacesChange(bs)
       \/ \E l \in lights : Lit(l)
  BY DEF InWorld, OpenForm, ChoosePicture, RemovePicture, Light, Uploaded, LightFails, Drafts,
         ReplyTo, ToggleReactions, Press, CancelReply, React, Lift, LongPress, Post,
         OpenProfile, CloseProfile, ProfileAnswered, Threads
<1> QED
  BY <1>2, <1>5, <1>6, <1>7, <1>8, <1>9, <1>10, <1>11, <1>12

\* The feed page is mounted, or left.
LEMMA GoesStep ==
    ASSUME RollupInv, Goes
    PROVE  RollupInv'
<1>1. readable \in SUBSET Relays
  BY DEF RollupInv, RollupOK
<1>2. CASE at'.route = at.route /\ UNCHANGED pulse
  BY <1>2 DEF pulse, RollupInv, RollupOK, Seated, Timed
<1>3. CASE at'.route = "pulse" /\ Starts(readable)
  BY <1>1, <1>3, StartsStep DEF RollupInv
<1>4. CASE at'.route # "pulse" /\ Stops
  <2>1. rollup' = NoRollup /\ readable' = readable
    BY <1>4 DEF Stops
  <2>2. queries' \subseteq Query /\ InFlight(queries') = {}
    BY <1>4, StopsAskingStep DEF Stops, RollupInv, RollupOK
  <2> QED
    BY <1>1, <1>4, <2>1, <2>2, NothingSeated, NoRollupIs DEF RollupInv
<1>5. CASE at'.route # "pulse" /\ at.route # "pulse" /\ UNCHANGED pulse
  BY <1>1, <1>5, OtherRelaysStep DEF pulse
<1> QED
  BY <1>2, <1>3, <1>4, <1>5 DEF Goes

LEMMA RelayListStep ==
    ASSUME RollupInv, NEW rs \in Lists, RelayListChanges(rs)
    PROVE  RollupInv'
<1>1. rs \in SUBSET Relays
  BY PulseAssumption
<1>2. at' = at
  BY DEF RelayListChanges, world
<1>3. CASE at.route = "pulse"
  BY <1>1, <1>2, <1>3, StartsStep DEF RelayListChanges, RollupInv
<1>4. CASE at.route # "pulse"
  BY <1>1, <1>2, <1>4, OtherRelaysStep DEF RelayListChanges
<1> QED
  BY <1>3, <1>4

\* The invariant of the rollup needs that of the map: a handler that does not go to
\* another page may not leave the feed or come to it.
LEMMA PulseInvariant == Spec => [](RollupInv /\ FetchedInv)
<1>1. Init => RollupInv /\ FetchedInv
  <2> SUFFICES ASSUME Init PROVE RollupInv /\ FetchedInv
    OBVIOUS
  <2>1. queries = {} /\ rollup = NoRollup /\ readable = {}
    BY DEF Init, PulseInit
  <2>2. InFlight(queries) = {} /\ queries \subseteq Query
    BY <2>1 DEF InFlight
  <2> QED
    BY <2>1, <2>2, NothingSeated, NoRollupIs, FetchedInit DEF Init, RollupInv
<1>2. WorldInv /\ RollupInv /\ FetchedInv /\ [Next]_vars => (RollupInv /\ FetchedInv)'
  <2> SUFFICES ASSUME WorldInv, RollupInv, FetchedInv, [Next]_vars
               PROVE  RollupInv' /\ FetchedInv'
    OBVIOUS
  <2>1. CASE InWorld /\ UNCHANGED pulse
    BY <2>1, FeedComesAndGoes DEF pulse, RollupInv, RollupOK, Seated, Timed, FetchedInv
  <2>2. CASE InPulse /\ UNCHANGED world
    <3>1. at' = at /\ queries \subseteq Query
      BY <2>2 DEF world, RollupInv, RollupOK
    <3> QED
      BY <2>2, <3>1, InPulseStep, InPulseFetched
  <2>3. CASE Goes
    <3>1. readable \in SUBSET Relays
      BY DEF FetchedInv
    <3>2. UNCHANGED pulse \/ Starts(readable) \/ Stops
      BY <2>3 DEF Goes
    <3>3. FetchedInv'
      BY <3>1, <3>2, StartsFetched DEF pulse, Stops, Empty, FetchedInv
    <3> QED
      BY <2>3, <3>3, GoesStep
  <2>4. CASE \E rs \in Lists : RelayListChanges(rs)
    <3>1. PICK rs \in Lists : RelayListChanges(rs)
      BY <2>4
    <3>2. rs \in SUBSET Relays
      BY PulseAssumption
    <3>3. FetchedInv'
      BY <3>1, <3>2, StartsFetched DEF RelayListChanges, FetchedInv
    <3> QED
      BY <3>1, <3>3, RelayListStep
  <2>5. CASE UNCHANGED vars
    BY <2>5 DEF vars, world, pulse, RollupInv, RollupOK, Seated, Timed, FetchedInv
  <2> QED
    BY <2>1, <2>2, <2>3, <2>4, <2>5 DEF Next
<1> QED
  BY <1>1, <1>2, WorldInvariant, PTL DEF Spec

\* For every relay list, answer and order of the answers: the feed lists what was
\* fetched of the relays that are read, each note or a twin of it once, in one group of
\* one lane, and nothing else (mergeCrossRelayFeedItems, buildPulseFeedGroups).
THEOREM FeedListsOnce == Spec => []FeedListsEachOnce
<1> QED
  BY FeedOfFetched, PulseInvariant, PTL

\* For every relay list, number of queries, cooldown and backoff: while the feed is
\* shown every relay that is read is due, waits or is asked, never two of them, no more
\* are asked than may be, and the timer runs for those that are not asked
\* (startPulseRelayRollup, and the effect that starts and stops it).
THEOREM RelaysKeepTheirPlace == Spec => []EveryRelayHasAPlace
<1> QED
  BY RollupInvIsMore, PulseInvariant, PTL
=============================================================================
