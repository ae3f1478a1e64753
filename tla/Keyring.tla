------------------------------ MODULE Keyring ------------------------------
(***************************************************************************)
(* The local keys of a browser: one ring in local storage                  *)
(* (key-manager.ts), read and written whole by every tab.  The settings    *)
(* page works on a copy it read when it was opened                         *)
(* (routes/settings-route.tsx); the rest of the client reads the storage   *)
(* whenever it signs, and shows the user it knew last (app-state.tsx).     *)
(* Nothing tells a tab that another one has written.                       *)
(*                                                                         *)
(* A tab is in step if it was opened after the last write of the ring, or  *)
(* wrote it: then it knows the active key.  Opening the settings page does *)
(* not put a tab in step: the page reads the ring, and the tab shows the   *)
(* user it showed.  A write is a stray if the copy it was made from is not *)
(* what is stored.  A page that is left while a proof check is under way   *)
(* may still write its copy when the check ends: whether React runs the    *)
(* state update of a page that is gone is open here.                       *)
(***************************************************************************)
EXTENDS Naturals, SequencesExt

CONSTANTS
    Tabs,       \* browser tabs
    Keys,       \* keys that may be generated or imported
    Extension   \* whether the browser has a NIP-07 extension

Nobody == "none"

ASSUME KeyringAssumption == Extension \in BOOLEAN /\ Nobody \notin Keys

VARIABLES
    stored,   \* the ring in local storage
    page,     \* of each tab, what it shows
    ring,     \* of each tab, localKeyring of its settings page
    user,     \* of each tab, currentUserPubkeyOverride; "none" for null
    asking,   \* the tabs waiting for the extension's getPublicKey
    check,    \* of each tab, the proof check under way, and the copy it will
              \* write: the page's, or that of a page that was left
    made,     \* history: the keys generated or imported
    removed,  \* history: the keys the user removed
    inStep,   \* history: the tabs in step
    strays    \* history: whether a copy that was not the ring was written over it

keyringVars == <<stored, page, ring, user, asking, check, made, removed, inStep, strays>>
history == <<made, removed, strays>>

EmptyRing == [keys |-> << >>, active |-> Nobody]
NoCheck == [pc |-> "none", ring |-> EmptyRing]

KeysOf(r) == ToSet(r.keys)

\* A key is in the ring once, and one of them is active.  What is known of a
\* key's proofs is left out.
Ring == {r \in [keys: Seq(Keys), active: Keys \cup {Nobody}] :
           /\ IsInjective(r.keys)
           /\ IF r.keys = << >> THEN r.active = Nobody ELSE r.active \in KeysOf(r)}

TypeOK ==
    /\ stored \in Ring
    /\ page \in [Tabs -> {"closed", "app", "settings"}]
    /\ ring \in [Tabs -> Ring]
    /\ user \in [Tabs -> Keys \cup {Nobody, "extension"}]
    /\ asking \subseteq Tabs /\ inStep \subseteq Tabs
    /\ check \in [Tabs -> [pc: {"none", "page", "left"}, ring: Ring]]
    /\ made \subseteq Keys /\ removed \subseteq Keys /\ strays \in BOOLEAN

KeyringInit ==
    /\ stored = EmptyRing
    /\ page = [t \in Tabs |-> "closed"]
    /\ ring = [t \in Tabs |-> EmptyRing]
    /\ user = [t \in Tabs |-> Nobody]
    /\ asking = {}
    /\ check = [t \in Tabs |-> NoCheck]
    /\ made = {} /\ removed = {} /\ inStep = {} /\ strays = FALSE

-----------------------------------------------------------------------------
(* The functions of key-manager.ts. *)

AddKeyToKeyring(r, k) ==
    [keys |-> IF k \in KeysOf(r) THEN r.keys ELSE <<k>> \o r.keys,
     active |-> k]

\* The filter takes out one key: a key is in the ring once.
Without(keys, k) == RemoveAt(keys, CHOOSE i \in DOMAIN keys : keys[i] = k)

\* The first key that is left becomes active, whichever was removed.
RemoveKeyKeepingActive(r, k) == [r EXCEPT !.keys = Without(@, k)]
RemoveKeyFromKeyring(r, k) ==
    LET left == Without(r.keys, k)
    IN  [keys |-> left, active |-> IF left = << >> THEN Nobody ELSE left[1]]

SetActiveKeyInKeyring(r, k) == IF k \in KeysOf(r) THEN [r EXCEPT !.active = k] ELSE r

\* The ring is written whole, whatever it holds by then, as what was made of a
\* copy; known are the tabs that know of it.
Writes(r, copy, known) ==
    /\ stored' = r
    /\ inStep' = known \cup IF r = stored THEN inStep ELSE {}
    /\ strays' = (strays \/ (copy # stored /\ r # stored))

-----------------------------------------------------------------------------
\* currentUserPubkeyOverride is null: the effect asks the extension, and its
\* cleanup takes the question back when the override is set.
ShowsUserLate(t, k) ==
    /\ user' = [user EXCEPT ![t] = k]
    /\ asking' = IF k = Nobody /\ Extension THEN asking \cup {t} ELSE asking
ShowsUser(t, k) ==
    /\ user' = [user EXCEPT ![t] = k]
    /\ asking' = IF k = Nobody /\ Extension THEN asking \cup {t} ELSE asking \ {t}

\* The splash page's button makes a first key; any other way in does not.
EnterAfresh(t, k) ==
    LET r == IF k # Nobody THEN AddKeyToKeyring(EmptyRing, k) ELSE stored
    IN  /\ page[t] = "closed"
        /\ k # Nobody => k \notin made
        /\ stored' = r
        /\ made' = made \cup (KeysOf(r) \ KeysOf(stored))
        /\ page' = [page EXCEPT ![t] = "app"]
        /\ ShowsUser(t, r.active)
        /\ inStep' = {t}
        /\ UNCHANGED <<ring, check, removed, strays>>
Enter(t, k) ==
    LET r == IF stored = EmptyRing /\ k # Nobody THEN AddKeyToKeyring(stored, k) ELSE stored
    IN  /\ page[t] = "closed"
        /\ k # Nobody => k \notin made
        /\ stored' = r
        /\ made' = made \cup (KeysOf(r) \ KeysOf(stored))
        /\ page' = [page EXCEPT ![t] = "app"]
        /\ ShowsUser(t, r.active)
        /\ inStep' = IF r = stored THEN inStep \cup {t} ELSE {t}
        /\ UNCHANGED <<ring, check, removed, strays>>

ExtensionAnswers(t) ==
    /\ t \in asking
    /\ asking' = asking \ {t}
    /\ user' = [user EXCEPT ![t] = "extension"]
    /\ UNCHANGED <<stored, page, ring, check, inStep, history>>

OpenSettings(t) ==
    /\ page[t] = "app"
    /\ page' = [page EXCEPT ![t] = "settings"]
    /\ ring' = [ring EXCEPT ![t] = stored]
    /\ UNCHANGED <<stored, user, asking, check, inStep, history>>

LeaveSettings(t) ==
    /\ page[t] = "settings"
    /\ page' = [page EXCEPT ![t] = "app"]
    /\ ring' = [ring EXCEPT ![t] = EmptyRing]
    /\ check' = IF check[t].pc = "page"
                  THEN [check EXCEPT ![t].pc = "left", ![t].ring = ring[t]] ELSE check
    /\ UNCHANGED <<stored, user, asking, inStep, history>>

CloseTab(t) ==
    /\ page[t] # "closed"
    /\ page' = [page EXCEPT ![t] = "closed"]
    /\ ring' = [ring EXCEPT ![t] = EmptyRing]
    /\ check' = [check EXCEPT ![t] = NoCheck]
    /\ user' = [user EXCEPT ![t] = Nobody]
    /\ asking' = asking \ {t}
    /\ inStep' = inStep \ {t}
    /\ UNCHANGED <<stored, history>>

-----------------------------------------------------------------------------
\* commitLocalKeyring
Commits(t, r) ==
    /\ page[t] = "settings"
    /\ ring' = [ring EXCEPT ![t] = r]
    /\ Writes(r, ring[t], {t})
    /\ ShowsUser(t, r.active)
    /\ UNCHANGED <<page, check>>

\* handleGenerateKeys, handleImportKeys
AddKey(t, k) ==
    /\ Commits(t, AddKeyToKeyring(ring[t], k))
    /\ made' = made \cup {k}
    /\ removed' = removed \ {k}

ActivateKey(t, k) ==
    /\ k \in KeysOf(ring[t])
    /\ Commits(t, SetActiveKeyInKeyring(ring[t], k))
    /\ UNCHANGED <<made, removed>>

RemoveKey(t, k) ==
    /\ k \in KeysOf(ring[t])
    /\ Commits(t, RemoveKeyFromKeyring(ring[t], k))
    /\ removed' = removed \cup {k}
    /\ UNCHANGED made

-----------------------------------------------------------------------------
\* refreshSelectedKeyOAuthStatus, for the key that is selected.
CheckProof(t) ==
    /\ page[t] = "settings" /\ ring[t] # EmptyRing
    /\ check[t] = NoCheck
    /\ check' = [check EXCEPT ![t].pc = "page"]
    /\ UNCHANGED <<stored, page, ring, user, asking, inStep, history>>

\* persistLocalKeyVerification
ProofChecked(t) ==
    /\ check[t].pc = "page"
    /\ Writes(ring[t], ring[t], {t} \cap inStep)
    /\ check' = [check EXCEPT ![t] = NoCheck]
    /\ UNCHANGED <<page, ring, user, asking, made, removed>>

\* The page that asked is gone, perhaps another one is open in its tab.
LeftPageWrites(t) ==
    /\ check[t].pc = "left"
    /\ Writes(check[t].ring, check[t].ring, {})
    /\ check' = [check EXCEPT ![t] = NoCheck]
    /\ UNCHANGED <<page, ring, user, asking, made, removed>>

\* The request failed, or React dropped the update.
CheckEnds(t) ==
    /\ check[t] # NoCheck
    /\ check' = [check EXCEPT ![t] = NoCheck]
    /\ UNCHANGED <<stored, page, ring, user, asking, inStep, history>>

KeyringNext ==
    \E t \in Tabs :
        \/ \E k \in Keys \cup {Nobody} : Enter(t, k)
        \/ ExtensionAnswers(t)
        \/ OpenSettings(t) \/ LeaveSettings(t) \/ CloseTab(t)
        \/ \E k \in Keys :
             \/ AddKey(t, k) \/ ActivateKey(t, k) \/ RemoveKey(t, k)
        \/ CheckProof(t) \/ ProofChecked(t) \/ LeftPageWrites(t) \/ CheckEnds(t)

KeyringSpec == KeyringInit /\ [][KeyringNext]_keyringVars

-----------------------------------------------------------------------------
\* A tab that has seen the last write of the ring signs with the key of the
\* user it shows, whatever the extension answers and when.  (The others do
\* not: they sign with the key another tab made active.)
SignsAsShown ==
    \A t \in inStep :
        IF stored.active # Nobody THEN user[t] = stored.active
        ELSE user[t] \in {Nobody, "extension"}

\* As long as every write was made from the ring that was stored, it holds just
\* the keys that were made and not removed (commitLocalKeyring, the proof checks,
\* the first key of a tab).
KeysStay == ~strays => KeysOf(stored) = made \ removed
=============================================================================
