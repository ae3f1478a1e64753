# Synchrono City: a verification development

Synchrono City is a relay-first social application. People sign Nostr events
with keys of their own, meet at *beacons* (places named by a geohash), post
notes there and join a beacon's call. The repository holds a Go service (the
**Concierge**: policy, tokens, admin API, a small social store), a **relay
shim** that lets the strfry relay ask the Concierge before it stores an event,
and a browser **client** (React). LiveKit, strfry, Postgres and Blossom are
services the deployment brings along.

This directory holds TLA+ modules of the parts that keep state and take
decisions, TLC configurations that check them on small instances, and proofs
TLAPS checks for all instances. Everything is translated from the code under
`src/`; what the code does and a document says otherwise is listed under
[Where documents and code disagree](#where-documents-and-code-disagree).

Contents: [inventory](#inventory) · [plan](#plan) ·
[modules and the code](#modules-and-the-code) · [runs](#runs) ·
[fairness](#fairness) · [proofs](#proofs) ·
[only model-checked](#what-is-only-model-checked) ·
[disagreements](#where-documents-and-code-disagree) ·
[not modelled](#what-is-not-modelled)

## Inventory

Paths of the Concierge are below `src/apps/concierge/`, paths of the client
below `src/apps/web/src/`.

### The Concierge (Go)

`net/http` runs every request on a goroutine of its own. State is shared
through Postgres (no transaction spans two queries), one mutex in the social
service, one in the rate limiter, one in the circuit breaker.

| Component | State | Operations | What is hard | Correct when |
|---|---|---|---|---|
| Policy store (`internal/store/postgres.go`) | append-only tables of standings, policy assignments, room permissions, proofs, gate policies; audit entries; editorial pins | one INSERT per write; "latest row" and "active rows" lookups by subject, scope, capability, room | rows are never updated, so taking back is a matter of what a lookup prefers: age, scope or the `revoked` column | a lookup finds the row the documents say is in force |
| Pubkey aliases (`internal/pubkeys`) | none | the spellings (hex, npub) a key is looked up under | rows under two spellings of one person | what was written under one spelling binds under the other |
| Policy engine (`internal/policy/service.go`) | none | `Evaluate` (up to eight lookups), `CheckAdminAccess` | other requests write between two lookups; each lookup may fail | a decision was right at some version the request could see; an error lets nobody through |
| Token service (`internal/livekit/tokens.go`) | none | `Issue`: `roomGrants` looks the store up a second time | decision and grants come from different versions | a token carries only rights the policy gave |
| Participants (`internal/livekit/participants.go`) | LiveKit's own room state | `UpdateParticipantPermission`, five-second timeout | updates land late, out of order, or find nobody | live rights are rights the policy gave; an update that was answered does not land again over newer rights |
| HTTP handlers (`internal/httpapi/server.go`) | none | relay authorization, token, admin writes, audit, OAuth callback, social endpoints | check-then-write, a write and its audit entry are two statements | authority comes from the operator; what was audited was done (an entry can be missing, see below) |
| Admin rate limiter (`internal/httpapi/admin_rate_limit.go`) | per pubkey, times of admitted requests | `Allow` | boundary of the window, rounding of Retry-After | no window holds more than 30; a refusal is fair; Retry-After suffices |
| Relay authorization (`internal/relayauth`) | none | maps an event to a `relay.publish` decision and a decision to a reason | none of its own | the decision is the policy engine's |
| OAuth flow (`internal/oauthflow/service.go`) | a signed state cookie | `Begin`, `Complete` | two tabs share one cookie; a callback repeated or expired | a proof is recorded for the key that began the flow |
| NIP-98 verifier (`internal/nip98/verifier.go`) | none | `Verify`, 60 s skew | a clock off by the skew; the same event twice | only the signer's own, recent requests pass |
| Social service (`internal/social/service.go`) | beacons and notes in memory; pins in the database | `Bootstrap`, `CreateOrReturnBeacon`, `CreateNote`, `ResolveCallIntent`, pins | memory is lost in a restart, permission rows and pins are not | one beacon per geohash; ids name one note |
| Circuit breaker (`internal/circuitbreaker`) | state, three counters, time of the last failure | `Allow`, `RecordSuccess`, `RecordFailure` | counters that outlive a state change; a half-open breaker nobody can leave | opens after the threshold, probes, recovers |
| Relay shim (`internal/relayshim`, `cmd/relay-shim`) | its breaker; a pipe from strfry | `ProcessLine` per event | timeouts, a line above 64 KiB ends the process | every outcome counts; recovers when the Concierge does |
| Listings (`internal/store/cursor.go`) | none | pages after a cursor | rows appended between two pages | every row once |
| Memory store (`internal/store/memory.go`) | maps | as the policy store | tests only | agrees with Postgres |
| Configuration, start-up, migrations (`internal/config`, `cmd/*`, `src/db/migrations`) | `schema_migrations` | read the environment; apply files in order | a process that stops between a migration and its row | each migration is applied once |

### The client (TypeScript)

One thread; every `await` is a point where other handlers run. State lives in
React state and refs (`app-state.tsx`) and in local storage.

| Component | State | Operations | What is hard | Correct when |
|---|---|---|---|---|
| Call session (`app-state.tsx`, `livekit-session.ts`, `media-client.ts`) | the shown call, the held LiveKit session, a request counter, the profile's microphone | join, leave, toggle; LiveKit's room events | chains of awaits overtake one another; device answers come late | one room open, the shown call is the newest join's and says the truth |
| Place notes (`app-state.tsx`, `nostr.ts`) | the list of shown notes | post, relay and Concierge answers, two kinds of refresh | four answers, each rewriting the list by a rule of its own | each note once, none lost, event ids kept |
| Beacon creation (`app-state.tsx`, `nostr.ts`) | the list of places; replaceable events on the relay | look for a beacon, publish one | check-then-act across clients | one beacon per geohash |
| Relay queries and pool (`nostr.ts`, `relay-pool.ts`) | sockets, one promise each | query, publish, get and release a connection | answer, error, close and time-out race for one promise; connections that fail to open | each promise settles once, the pool keeps its bound |
| Keyring (`key-manager.ts`, `crypto.ts`, `routes/settings-route.tsx`) | keys in local storage, a copy per settings page, unlocked keys in memory | add, activate, remove, check a proof | two holders of a copy write it back; late answers of the extension and of proof checks | no key is lost; the user signs as shown |
| Relay lists, follows, profile | local storage and replaceable events | merge, publish | whichever write is last wins | a merge loses no entry |
| Projections (`beacon-projection.ts`, `social-payload.ts`) | none | notes and places to what a route shows | boundaries, ties | agree with a plain definition |
| Admin client and settings (`admin-client.ts`, `proof-client.ts`, `routes/settings-route.tsx`, `routes/cohort-panels.tsx`) | forms, loaded lists, a generation of refreshes, pages of the audit log | save, refresh, load one list, load more of the log | overlapping loads; pages fetched across a refresh | what was saved stays shown; the log is in order |
| World, chats and threads (`routes/world-route.tsx`, `routes/chats-route.tsx`, `routes/beacon-thread-panel.tsx`, `routes/app-shell.tsx`) | the address, the sheet or thread that is open, dialogs | select, light a beacon, upload a picture, open a profile, reply | answers that come when another sheet or thread is open; effects that repair the state | an answer lands where it was asked for; something is shown |
| Feed (`routes/pulse-route.tsx`, `pulse-relay-rollup.ts`, `data.ts`) | per relay when it is asked next, its failures; what was fetched | ask relays in turn, merge what they answer | bound on queries, back-off, stopped rollups | every relay gets its turn; each note once |
| Map, layout | view state | rendering | little | – |

### How they interact

    browser --NIP-98 signed HTTP--> handlers --> policy engine --> policy store
       |                               |  \--> token service -----^
       |                               |  \--> participants --> LiveKit
       |                               \--> social service --> policy store
       |--- WebSocket (token) --> LiveKit
       |--- WebSocket ----------> strfry --pipe--> relay shim --HTTP--> handlers

- The handlers *call* the policy engine and the token service; both *share* the
  policy store with every other request.
- An admin's change of a room permission is stored first and sent to LiveKit
  second; a person's token is read from the store first and used at LiveKit
  later. The two paths meet only in LiveKit.
- The shim is one process per relay writer plug-in; it handles one line at a
  time, and its breaker is all it remembers.
- A post of the client goes to the relay and to the Concierge at the same time;
  each answers, or not, on its own.

## Plan

Modules in order of importance.

| | Module(s) | Composes | State |
|---|---|---|---|
| A | `PolicyStore` | – | done |
| B | `PolicyEngine` | A | done |
| C | `Concierge`, `ConciergeProperties`, `MCConcierge` | A, B | done; eight theorems |
| D | `LiveRoom`, `MCLiveRoom` | A, B | done; three theorems |
| E | `CircuitBreaker`, `RelayShim`, abstract `BreakerPromise` | breaker in shim; refinement | done; three theorems |
| F | `RateLimiter` | – | done; three theorems |
| G | `CallSession` | – | done; five theorems |
| H | `NoteSync` | – | done for root notes; two theorems |
| I | `Beacons`: several browsers, the relay's addressable events, queries and publications that time out | – | done; three theorems |
| J | `AdminConsole`: forms, overlapping refreshes, pages of the audit log | its rows are A's | done; three theorems |
| K | `Keyring`: the ring of several tabs, the extension, proof checks | – | done; three theorems |
| L | `World`, `Pulse`, `ClientView`, `MCClientView`: the pages of the client | map, chats and feed in one shell | done; five theorems |
| M | `EditorialPins` in `NoteSync`: pins in the database that outlive the notes they name | H | next |
| N | `RelayPool`: the pool's bound, eviction and failed connections | – | next |
| O | a decision as one atomic read of the store, which `Concierge` with a still store implements: `Allowed` and `RoomGrants` at one version, `AnsweredAsAtOnce` | C | done; its theorem is among C's |
| P | `RelayList`: the relays a user added and removed, written whole to local storage by two tabs | K's tabs | later |
| Q | `OAuthFlow` with NIP-98: one cookie, two tabs, expiry, repeats | its write is C's | later |
| R | `AuditLog`: pages of a listing while rows are appended | A | later |
| S | `Migrations` | – | later |

Within the modules that exist, the plan has: camera and screen share in
`CallSession`, replies and reactions in `NoteSync`, the dialogs of a beacon's
people and settings in `World`.

Abstract specifications worth stating: `BreakerPromise` (done); `Allowed` and
`RoomGrants`, the rules looked at once (done, as `AnsweredAsAtOnce`).

Theorems worth proving next: the invariants the modules M to P bring. Every safety
property a run of today checks is proved.

Runs are kept at one per question. The pins join `note_sync` (one pin, its
revocation); the pool's run has two relays and
a bound of two connections.

## Modules and the code

**PolicyStore** is the five policy tables as one sequence `rows`, in the order
of the INSERTs. A row is `[kind, key, form, scope, says, by, revoked]`: the
table, the subject, the spelling of the subject, the scope (or room, capability,
proof type), the flags it sets, who sent it, and the `revoked` column. A *version* is a prefix of the
log; every lookup is an operator on a log and a version (`StandingRow`,
`ActivePolicyAssignments`, `PermissionRow`, `EffectiveGates`, `HasProof`), so
a property can speak of what a lookup would have found earlier.

**PolicyEngine** has the judgements: `Standing`, `DeniedByStanding`,
`IsPrivileged`, `RoomAllows`, `GuestGateSatisfied`, `RoomGrants`, `IsAdmin`,
and `Allowed`, which is `Evaluate` at one version.

**Concierge** makes those lookups one at a time. A request goes through
`pc` = standing, privRelay, privAdmin, assignments, permission, gate, proofs,
then the token service's issueMedia, issueRelay, issueAdmin, issuePermission. It
keeps what the code keeps in local variables between two lookups (`standing`, `assigned`,
`needed`). Handlers check authority, write, and write the audit entry in three
steps. The OAuth callback and `CreateBeacon` write too. `StoreFails` lets each store call return an
error, `Crashes` lets the process restart: beacons and requests are lost, rows
stay. **ConciergeProperties** states the promises over the *window* of a
request, the versions from its arrival to now, and for a request without writes beside it
that it is answered as if at once, in both directions: the other properties
would let a service pass that refuses everybody. **MCConcierge** has the rows and
queries of the instances.

**LiveRoom** is a room at LiveKit, tokens and the updates of their holders'
rights. A person may ask for tokens from any tab, in the room or not, and hold
several; each is good, as often as it is used, until it expires, and who joins
with one while in the room takes her own place with the rights of that token.
The decision and the grants are one read each here (their lookups one
by one are Concierge's). `asOf` remembers which version of the store a right
came from; the code has no such field, the properties need it. LiveKit is external: an update lands, lands late, finds
nobody, or is lost; a join is admitted on the token alone.

**CircuitBreaker** has the breaker's methods as functions of its fields (`elapsed`
stands for the time since the last failure, which matters up to the recovery
time). **RelayShim** is the process around it: a pipe of lines, a request under
way, a Concierge that is well or not. **BreakerPromise** is what a breaker
promises with one counter in place of three.

**RateLimiter** is the sliding window. `served` is a history of what was let
through; `entries` are those the limiter still keeps.

**CallSession** has one *chain* per call of `joinBeaconCall`, numbered as
`activeCallRequestRef` numbers them, with its program counter between awaits
and its LiveKit link; `ops` are the calls of `setMicrophoneEnabled`. One
action is the code between two awaits, or the listener of a room event:
`Unpublished` is the end of a microphone whose rights were taken back, which
redraws the media streams only, `ParticipantsChange` any event that shows the
participants. `ended` marks the interval between the two; the code has no such
field, `ShownMicIsMic` needs it.

**Beacons** has one record per call of `createBeacon`: where it is between its
awaits, the answer of its query, its event, and whether that event is still on
the wire, which it may be after the call has failed. The relay is the log of
what it stored; strfry's rule for addressable events (one per author and place,
the newest) is external. `Newest` is what a query makes of EVENTs and EOSE. One
place is modelled: the lists are keyed by geohash, and places do not meet.

**NoteSync** has the shown list and, per post, the two calls under way. The
rules that rewrite the list are operators named after the functions they
translate. The list is a bag of notes: a refresh sorts it by time, so its order
only decides which of several equivalent notes, or of several with one id, a rule
takes, and a rule gives the set of lists it may come to. (A bag can be reasoned
about; a filtered or sorted sequence needs induction.)

**AdminConsole** is the governance page. Rows are only added, so a list is
described by how many rows there were when the server read it, and the audit
log by the numbers of its entries. `handler` is where the submit handler of each
form is between its awaits, `reads` has one refresh per value of
`refreshGenerationRef`, `views` the lists that are loaded alone, `more` the
cursor of the page of the log being fetched. `saved` and `torn` are histories.
`Needs` has, per form, the fields `admin-client.ts` refuses to leave empty.

**Keyring** is the ring in local storage, and per tab the copy its settings
page works on, the user it shows, the question to the extension and the proof
check under way. A tab is *in step* if it was opened after the last write of the
ring, or wrote it; opening the settings page reads the ring but leaves the user
the tab shows as it was, so it puts no tab in step. A write is a *stray* if the
copy it was made from is not what is stored, whichever tab holds the copy. The
code has neither, the properties need them.

**World** is the map page, the chats page and the thread of a beacon both of
them show. `at` is the address and what of the page is open, as the effects
leave it; `draft` is the sheet of a beacon to be lit, `thread` the state of the
panel. `uploads`, `lights` and `asks` are what is asked for and may be
answered when the user is elsewhere. A light that outlives its page (`mounted`)
can still write the address; the sheet and the cover it sets are those of the
page that is gone. **Pulse** is the feed page: the rollup of
the relays with its timer, its bound on queries and its back-off, and the
feed's merging, bursts and lanes as operators on what was fetched. `line` stands for
`nextRunAt` of the relays that are due, of which only the order matters, and
`backoff`, the last wait, for `failureCount`, which decides nothing else. A list of
the feed is the set of its items with the order they are in (`Before` as merged,
`Above` as shown), and a loop that decides item by item, given those it took
before, is the set it takes: `Merged` for `mergeCrossRelayFeedItems`, `Firsts` for
`buildPulseFeedGroups`. Its loops become equations that way, which can be reasoned
about without induction over the list.
**ClientView** composes them: the shell shows one page at a time, and going to
another one unmounts the first and stops its rollup.

The mutated forms that stand beside some definitions (`AdoptAny` beside
`Adopts`) are plausible slips in that code. They are used by no
specification; replacing the definition by its mutated form makes the property
named in PROJECT.json fail, which shows that the property depends on the code.

## Runs

| Run | Instance | Distinct states | Shows |
|---|---|---|---|
| `decisions` | 1 request (publish or token), 1 handler, 3 rows out of 9 kinds | 1.3 M | decision and grants were right at some version (`AllowedHadStanding`, `AllowedPassedGates`, `IssuedGrantsBacked`), both are what a single look gives if nothing was written meanwhile (`AnsweredAsAtOnce`) |
| `degraded` | 1 token request, 2 handlers, failing store, restarts | 3.0 M | a blocked person or one without a right to the room is never let through, no admin out of nothing |
| `live_room` | 2 handlers, 1 person with any number of tokens, 3 rows | 695 K | rights in the room were granted at some version; newer rights give way only to a join with an older token or to an update whose admin has no answer yet or was warned |
| `relay_shim` | the code's thresholds (5, 3, 1), recovery 3 ticks, 2 pending lines | 1 378 | the three counters act as one, never stuck half-open, recovers |
| `rate_limiter` | limit 3, window 4 ticks of which 2 are a second, 12 ticks | 134 K | the window holds at its boundary, refusals are fair, Retry-After suffices |
| `call_session` | 2 beacons, 3 joins or leaves, 2 toggles, every failure | 4.1 M | one room open, the newest join shown, what is shown is so |
| `beacons` | 2 browsers, 2 calls, 2 seconds | 138 K | only calls that overlap add a definition, what is shown was stored, no call waits for ever |
| `note_sync` | 2 posts, 2 refreshes, 1 restart | 666 K | each post once, no post lost |
| `admin_console` | 2 forms, 3 rows, 2 refreshes, 1 list loaded alone, audit pages of 1 | 5.7 M | a saved row stays shown, the spinner tells the truth, the log is in order |
| `keyring` | 2 tabs, 2 keys, an extension | 1.5 M | the ring is well formed, a tab in step shows the key it signs with, keys are lost only to copies that are not what is stored |
| `client_view` | 3 pages, 2 spots, 2 people, 2 relays, 4 notes, 1 late answer | 153 K | answers land where they were asked for, no page goes blank, the feed has each note once, every relay that is read has its place and is asked again |
| `stale_join` | as small as the case needs | – | a document's claim the code does not keep (below) |

Bounds and why they are enough:

- *Rows.* `MaxRows` = 3 in `decisions` lets a person be promoted, demoted and
  have a right or gate changed during one request; no property relates more
  than three rows of one person. `degraded` uses 2 with two handlers: a
  promotion of alice and what alice then writes.
- *People.* An operator and one other person, alice: properties are about one
  subject, and alice is at once subject, admin and sender of her own promotion.
- *Requests.* Two decisions do not read each other's state; one is enough.
- *Tokens.* One token request is under way at a time; the tokens it leaves, one per
  version and set of grants, are all kept and used again. The two handlers are
  alike, so TLC takes them as symmetric; no liveness is checked there.
- *Joins.* With three joins, a chain can be overtaken twice and a leave can
  come between; two toggles make a queue of device calls.
- *Posts.* Two posts are enough for a rule to hit the wrong note; two
  refreshes, of one kind or of both, are enough for an older answer to come after a newer state.
- *Beacons.* Two calls can overlap, follow one another or be a call and its
  retry, of one browser or two; two seconds make definitions older, equal and
  newer.
- *Refreshes.* Two overlap, end in either order and fail; `pin` is a form whose
  save also reloads the application, `standing` one whose list is also loaded
  alone; the rows of another admin need no form. With one entry per
  page, three rows make three pages of the log.
- *Tabs.* One tab writes, another holds the older copy; a third would be a
  second holder of an older copy. Two keys let one be active and another be
  removed.
- *Pages of the client.* Two spots: one that has a beacon in the user's inbox
  and one that has not; two people, so that a profile can be answered after
  another one was opened. `MaxLate` = 1 keeps one answer that is late, which
  is enough for it to come to the wrong place; more multiply the states and
  meet the same handlers.
- *Feed.* Two relays with one query at a time and a back-off that doubles once
  make relays wait for one another. The list has both of them or none, so that a
  query outlives the rollup that asked it and both are read again later. Both
  relays answer the same four notes, so that every note of the one has a twin on
  the other: two of the four make a burst, one is of somebody else before them
  and one is a twin under another id. Three relays, lists of just one of the two
  and a second answer take TLC too long; `FeedListsOnce` and
  `RelaysKeepTheirPlace` are proved for any lists, answers and number of relays.
- *Time.* 12 ticks are three windows of the limiter; `Second` = 2 makes
  rounding matter. The shim's clock saturates at the recovery time.

`MCBeacons`, `MCCallSession`, `MCLiveRoom`, `MCNoteSync` and `MCStaleJoin` do not
check deadlock: they stop where their bounds are used up. The others never stop.

Every passing property has a mutant in PROJECT.json that TLC refutes.

## Fairness

Three modules have a liveness property. `Beacons` (`CallsEnd`: a query or
publication ends) assumes WF of `Fail` for each call, because each sets a timer
of ten seconds when it opens its socket and nothing but its end clears it.
Nothing is assumed about the relay, the network or the signer, who may keep
`createBeacon` waiting for ever. `RelayShim` (`Recovers`: once the Concierge is
back for good, the breaker closes and stays closed) assumes

- WF of `Read` and `Exit`: the loop in `cmd/relay-shim/main.go` reads on as
  long as it has input, and leaves on a scanner error;
- WF of an answer (`Verdict` or `Failure`): the HTTP client has a timeout of
  five seconds, so a request always ends;
- WF of `Tick`: time passes;
- SF of `Arrive("new")`: the relay keeps receiving events. Without events a
  breaker stays open and nothing notices. Strong, because the pipe may be full
  again and again.

Nothing is assumed about the Concierge's health.

`ClientView` (`EveryRelayIsAskedAgain`: while the feed is shown, every relay that
is read is asked again and again, or the relay list changes for ever) assumes WF
of the passing of time, of the timer of the rollup, and, per relay, of the end
of its query: the browser runs a timer that is due, and a query gives up after
ten seconds. Nothing is assumed about what the relays answer, nor about the
user.

The other modules state safety only: an HTTP request may wait for ever, and no
scheduler in the code says otherwise.

## Proofs

TLAPS checks these for every value of the constants.

| Theorem | States | Argument |
|---|---|---|
| `TypesAreKept` | `Concierge`'s `TypeOK` | with `AuditPending`: the row a handler is to audit exists |
| `AuthorityIsRooted` | `AuthorityRooted` | `WritersAuthorised`: a handler that is past its check had an authorised sender at some version. Lookups at an old version do not change when a row is appended (`PolicyLemmas`) |
| `BlockedAreRefused` | `AllowedWasNotBlocked` | `AssignmentsJudged`: a request past the assignments lookup saw no block at a version of its window. Assignments only grow, so there was none when it came in. Store failures are allowed |
| `DeniedAreRefused` | `AllowedHadStanding` | `StandingJudged`, under the hypothesis that store calls do not fail. It needs it: a failed standing lookup makes a guest |
| `RoomIsRespected` | `AllowedHadRoom` | `RoomJudged`: a standing that counts as an owner's was found at a version of the window, and who is past the room permission had one or the room let them in. Beacons that come into memory close no room (`RoomAllowsAnywhere`) |
| `GatesAreRespected` | `AllowedPassedGates` | `GateJudged`: a rank or a guest assignment was found at a version of the window, so at the version the gates were read the guest list was met before; proofs that are crossed off were found and stay found (`ProofKept`). `GateRowsSay`: gates ask for the guest list and proofs only, which the handler validates |
| `TokensAreBacked` | `IssuedGrantsBacked` | inductive with `BeganBefore`: the step that issues a token gives rights `RoomGrants` has right then, and the grants of a version never change |
| `DecisionsAreAsAtOnce` | `AnsweredAsAtOnce` | `AsAtOnce`, per place of the request: what it holds is what the lookups would find now, and what it passed is met. `RulesOf` takes `Allowed` apart into those; an INSERT ends the quiet of whoever is under way. Under the hypothesis that store calls do not fail: a failed lookup refuses or makes a guest |
| `RoomTypesAreKept`, `LiveRightsAreGranted` | `LiveRoom`'s `TypeOK` (no run lists it, the proof needs it), `LiveRightsWereGranted` | `HeldWasGranted` (so was what a token holds) and `UpdatesArePermissions`; the rights of a row that reaches somebody are those a token would carry at the version the row makes |
| `AnsweredDoesNotReturn` | `AnsweredIsOver` | `Unanswered`: the admin of a row whose update is under way or late was told nothing yet, or warned. Every other step that changes rights is a join, which the property excepts: with a token that was read earlier it does bring older rights back (see the disagreements) |
| `EveryOutcomeCounts`, `NeverStuckHalfOpen`, `ShimKeepsPromise` | `OutcomeCounts`, `HalfOpenNotStuck`, `KeepsPromise` | `CountersBelow`: in each state the counter that matters is below its threshold. Every step is a step of `BreakerPromise` or a stutter |
| `LimiterRespectsWindow` | `WindowRespected` | `KeepsRecent`: what is still in the window is kept. If the request `Limit` places before is in the window then so are all since, and the limiter is full |
| `RefusalsAreFair`, `WaitingSuffices` | `RefusalsFair`, `RetryAfterSuffices` | `RefusalSpan`: behind a refusal are `Limit` admitted requests in a row, all in its window, and its Retry-After, rounded up, reaches past the first of them; whatever is pruned or admitted since, they stay where they are |
| `CallTypesAreKept`, `OnlyTheHeldRoomStaysOpen`, `TheNewestJoinIsShown` | `CallSession`'s `TypeOK`, `OnlyHeldRoomIsOpen`, `ShowsNewestJoin` | `ConnectingIsShown`: a newest chain that waits for its room is shown, so what it does to the shown call it does to its own; a session is a join's |
| `WhatIsShownIsLive` | `ShownIsLiveUnlessJoinFailed` | `ScreenInv`: as long as no overtaken join failed, a call shown connected has the session of the newest join and its room is open, and the rights shown are the chain's; a chain still on its way is in no room |
| `TheShownMicIsTheMic` | `ShownMicIsMic` | `MicInv`: while no device call has failed and those of the newest join are in, the shown microphone is that of its open room, whatever calls of older joins are still out, or `ended` is set; a link that was never connected has no microphone on |
| `PostsAreShownOnce` | `ShownOnce` | `NoteInv`: before the first restart every note in a list or an answer is the local, the relay's or the service's note of a post, the service gave each post one id, so an id is that of one note (`KnownById`), and every post is shown once, a late copy aside. Each of the rules keeps this whichever of its results is taken (`InPlaceStep`, `ReconcileStep`, `MergeStep`, each from `ReplaceStep` or `InFrontStep`) |
| `PostsAreNotLost` | `PostsStay` | the same lemmas say of each rule that a note it takes out is followed by one of the same post, with an event id if it had one; only `Fetched` is left, which the property exempts |
| `RingsAreKept`, `TabsSignAsShown`, `KeysAreNotLost` | `Keyring`'s `TypeOK`, `SignsAsShown`, `KeysStay` | `KeyringInv`: a tab in step shows the active key and asks the extension only if there is none, its settings page holds the ring that is stored, no ring or copy has a key that was never made, and while no write was a stray the ring has the keys that were made and not removed. What adding, removing and activating make of a ring is stated once (`AddedRing`, `RemovedRing`, `ActivatedRing`) |
| `LateAnswersLand`, `ThreadsKeepTheirBeacon`, `PagesAreNeverBlank` | `ClientView`'s `AnswersLandWhereAsked`, `ThreadIsOfBeacon`, `NeverBlank` | `WorldInv`: a narrow map is covered only for a beacon of the address, a narrow list only for a thread that is known; what is open in a thread is on the beacon shown, a picture is the sheet's, a dialog says what was asked of its person. `ShowsWithStep`: wherever a handler leaves the user, the effects that run after it restore this. The steps of the feed touch none of it |
| `FeedListsOnce` | `ClientView`'s `FeedListsEachOnce` | `FetchedInv`: what is kept is of relays there are. Its items are finitely many (`ItemsOfFeed`) and both orders are strict and total (`BeforeOrder`, `AboveOrder`), so a loop that decides item by item has a result (`GreedyChoice`) and only one (`OnlyChoice`), which `Merged` and `Firsts` are (`MergedIs`, `FirstsIs`); of the firsts above an item one is the lowest (`LowestIs`), which is its group (`GroupOfItem`) |
| `RelaysKeepTheirPlace` | `ClientView`'s `EveryRelayHasAPlace` | `RollupInv`: besides, no two relays that are due have one place in the line (`LineOfRelays`), so the first few of it are few (`FirstFew`), and the pump fills just the slots that are free (`PumpStep`). A query of a stopped rollup is in nobody's place. It needs `WorldInv`: no handler of the map or the chats comes to the feed or leaves it (`FeedComesAndGoes`) |
| `BeaconTypesAreKept`, `LatecomersAddNothing` | `Beacons`' `TypeOK` (no run lists it, the proof needs it), `LaterCallsAddNothing` | `Latecomer`: a call that began when the log was not empty is told of a definition and never signs one; what is on the wire belongs to a call that began when it was |
| `OnlyStoredIsShown` | `ShownWasStored` | `AnswersWereStored`: so was every answer that is still to be shown |
| `SavedRowsAreShown`, `SpinnerIsTrue` | `AdminConsole`'s `SavedIsShown`, `SpinnerTells` | `ReadsReach`: a refresh that is still the newest was begun after every save that was answered, and reads at least those rows; `NewestIsShown` for one that ended |
| `AuditStaysInOrder` | `AuditInOrder` | `AuditChain`: the cursor of the page is its last entry, and a page fetched at a cursor continues below it, so that joining two pages keeps the order whatever was refreshed between |

Hardly any of these formulas is inductive alone; the strengthening named in the
last column is. Assumptions are only the named ones on constants
(`OperatorAssumption`, `EngineAssumption` and `InputAssumption`,
`LiveRoomAssumption`, `BreakerAssumption` and `PendingAssumption`,
`LimiterAssumption`, `CallAssumption`, `NoteAssumption`, `BeaconAssumption`,
`ConsoleAssumption`, `KeyringAssumption`, `WorldAssumption`,
`PulseAssumption`), which TLC evaluates
in the runs. `PolicyLemmas` states once what a lookup
returns and that an INSERT changes no lookup at an older version; every theorem
about a decision rests on it.

## What is only model-checked

- `Recovers`, `CallsEnd`, `EveryRelayIsAskedAgain`: liveness under fairness is
  out of the prover's reach. What `EveryRelayIsAskedAgain` rests on is proved:
  no relay is ever without a place, and a timer runs for each that is not asked.

## Modules of proofs

`ConciergeProofs`, `LiveRoomProofs`, `BeaconsProofs` and `AdminConsoleProofs` are
about the module they are named after, `PolicyLemmas` about the lookups and
judgements. Three modules hold the proofs of two small components each, which
share no state: `AdmissionProofs` (the rate limiter and the shim's breaker),
`AppStateProofs` (the call session and the notes, both in `app-state.tsx`) and
`ClientProofs` (the keyring and the pages of the client). That is why one module of each pair
calls its specification by a longer name (`LimiterSpec`, `NoteSpec`,
`KeyringSpec`).

## Where documents and code disagree

Checked by a violation run, with its finding in PROJECT.json:

- *Stale join.* The failure of an overtaken join ends the session of the newer
  one, which stays shown as connected (`stale_join`; ARCHITECTURE.md:70).

Met while modelling, not run:

- A row with `revoked` = true is skipped by the lookup, so the grant before it
  stays in force (PROTOCOL.md:292; `postgres.go:621`).
- A failed standing lookup makes a guest, who may publish (OPERATIONS.md:398;
  `service.go:238`).
- A token read before a change and used after it brings the old rights into the
  room, though the comment at `server.go:675` says the change applies on the
  next join (`server.go:674`). It is good for ten minutes (`tokens.go:15`) and
  any number of joins, so a second tab brings them back in place of a change
  that reached the room and was answered.
- A relay-wide ban does not reach a person who has a row in the media scope:
  the lookup prefers the narrower row whatever its age (PROTOCOL.md:290;
  `postgres.go:623`).
- A guest approval or a block cannot be withdrawn: assignments have no
  operation that ends them (ARCHITECTURE.md:295).
- `media.publish` gates do not bind a token's publish right (PROTOCOL.md:256;
  `internal/livekit/tokens.go:100`).
- A failed audit write is logged and the client told of success
  (PROTOCOL.md:222; `server.go:1147`).
- Only admin endpoints are rate limited (OPERATIONS.md:118).
- The breaker counts any answer but 200 as a failure (OPERATIONS.md:272).
- An update under an npub subject reaches nobody in the room; the next token
  obeys the row.
- A revoked row that lists rights empties a participant's live rights, while the
  next token passes the row over. `can_join` = false does not remove anybody.
- A note whose Concierge answer comes first never becomes relay-backed
  (`app-state.tsx:1243`).
- Note ids begin at note-1 again after a restart, and a pin in the database then
  names another note.
- Who loses the right to publish loses the microphone, but it stays shown as on
  until the participants are shown anew (`livekit-session.ts:151`).
- A late device error changes the shown microphone of a call that was joined
  again meanwhile.
- Of two browsers that light one beacon at once both are told they created it,
  and queries prefer the newest definition, not the first (PROTOCOL.md:104,
  ARCHITECTURE.md:86).

What the pages of the client do and no property asks for: a list loaded alone
may end after the refresh of a save and hide the row (`settings-route.tsx:604`);
a page of the audit log asked for before a refresh leaves a gap
(`settings-route.tsx:629`); of two tabs with settings pages the later writer
takes away the keys the other one made (`settings-route.tsx:341`); text typed in
one thread is kept in the next. The hazards in PROJECT.json say at which
properties these were left out.

## What is not modelled

PROJECT.json lists every component with its status.

- Planned, as above: the OAuth flow, the NIP-98 verifier, the cursors of
  listings, migrations, editorial pins, the relay connection pool, relay-list
  editing in two tabs.
- The memory store serves the tests only. The deployment configures external
  services. The map and the layout draw what the modelled pages hold; neither
  keeps state a property would be about.
- Cryptography (signatures, JWT, the encryption of secrets in `crypto.ts`) is
  taken as given: a token is a set of rights, a signed request has a sender.
- Of the settings page: the lookup filters and limits of its lists, the
  operator's profile, follows, cohort panels. A tab has one proof check at a
  time.
- Of the map, the chats and the threads: direct messages (the client lists none
  yet), the dialogs of a beacon's people and settings, typed text. Of the feed:
  its paging and the scores of notes that come with the bootstrap.

Abstractions inside the modules: a lookup over a key's aliases is one step (it is a query per alias: what the newest
of the rows they find is, it was at some version between the first query and the
last; assignments, of which all are taken, only grow);
time is ticks; messages, texts and rooms are model values; the reason strings
and status codes of refusals are left out; a join's call intent only decides
when the preview is redrawn.
