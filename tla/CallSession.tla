---------------------------- MODULE CallSession ----------------------------
(***************************************************************************)
(* A beacon's LiveKit call in the web client (app-state.tsx,               *)
(* livekit-session.ts).  joinBeaconCall is a chain of promises: the call   *)
(* intent, the token, the LiveKit connection, the media devices.  Nothing  *)
(* stops the user from joining another beacon while a chain is under way;  *)
(* each chain compares its request number with the newest one when it      *)
(* comes back.  Camera and screen share follow the microphone's code and   *)
(* are left out; no control of the client toggles deafen.                  *)
(***************************************************************************)
EXTENDS Naturals, Sequences

CONSTANTS
    Places,     \* beacons, each with a room of its own
    MicOnJoin,  \* currentUser.mic
    MayFail,    \* which of "token", "connect", "drop" and "device" may fail
    MaxJoins,   \* bound on activeCallRequestRef
    MaxToggles  \* bound on the microphone operations

ASSUME CallAssumption ==
    /\ MicOnJoin \in BOOLEAN
    /\ MayFail \subseteq {"token", "connect", "drop", "device"}
    /\ MaxJoins \in Nat /\ MaxToggles \in Nat

VARIABLES
    call,     \* activeCall, what the user is shown; NoCall for null
    latest,   \* activeCallRequestRef.current
    session,  \* liveKitSessionRef.current: the join it came from; 0 for null
    join,     \* the chain of each request number
    ops       \* calls of setMicrophoneEnabled and what came of them

vars == <<call, latest, session, join, ops>>

Requests == 1..MaxJoins
NoCall == [state |-> "none"]
Call == [place: Places, state: {"local_preview", "connecting", "connected", "failed"},
         canPublish: BOOLEAN, mic: BOOLEAN]
\* link is the LiveKit room: "live" and "reconnecting" have a connection to
\* the server; "lost" was ended by the server, "closed" by the client.  ended:
\* the server ended the microphone, and the participants were not shown since.
Link == {"none", "live", "reconnecting", "lost", "closed"}
Chain == [pc: {"intent", "token", "connect", "done", "failed"}, place: Places,
          signer: BOOLEAN, link: Link, canPublish: BOOLEAN, mic: BOOLEAN, ended: BOOLEAN]
Op == [join: Requests, value: BOOLEAN, setup: BOOLEAN, pc: {"pending", "done", "failed"}]

TypeOK ==
    /\ call \in Call \cup {NoCall}
    /\ latest \in 0..MaxJoins
    /\ session \in 0..MaxJoins
    /\ DOMAIN join \subseteq 1..latest /\ \A j \in DOMAIN join : join[j] \in Chain
    /\ ops \in Seq(Op)

Init ==
    /\ call = NoCall
    /\ latest = 0
    /\ session = 0
    /\ join = << >>
    /\ ops = << >>

Outcomes(what) == IF what \in MayFail THEN BOOLEAN ELSE {TRUE}
Extend(chains, j, chain) == [i \in DOMAIN chains \cup {j} |-> IF i = j THEN chain ELSE chains[i]]

\* disconnectLiveKitSession: the held session leaves its room.
Disconnected ==
    IF session = 0 \/ join[session].link \notin {"live", "reconnecting"} THEN join
    ELSE [join EXCEPT ![session].link = "closed", ![session].mic = FALSE]

Always(j, shown) == shown
\* requestID !== activeCallRequestRef.current: a stale chain shows nothing.
IfCurrent(j, shown) == IF j = latest THEN shown ELSE call

-----------------------------------------------------------------------------
\* Without a signer the call is only previewed, from a guess at once and
\* from the intent later.
Join(place, signer) ==
    /\ latest < MaxJoins
    /\ latest' = latest + 1
    /\ session' = 0
    /\ join' = Extend(Disconnected, latest + 1,
                 [pc |-> "intent", place |-> place, signer |-> signer, link |-> "none",
                  canPublish |-> FALSE, mic |-> FALSE, ended |-> FALSE])
    /\ call' = IF signer THEN NoCall
               ELSE [place |-> place, state |-> "local_preview", canPublish |-> FALSE,
                     mic |-> MicOnJoin]
    /\ UNCHANGED ops

\* The leave button is there while the call is shown connected.
Leave ==
    /\ call.state = "connected"
    /\ latest < MaxJoins
    /\ latest' = latest + 1
    /\ session' = 0
    /\ join' = Disconnected
    /\ call' = NoCall
    /\ UNCHANGED ops

\* An intent that fails is replaced by the client's own guess at the room.
Intent(j) ==
    /\ join[j].pc = "intent"
    /\ join' = [join EXCEPT ![j].pc = IF join[j].signer THEN "token" ELSE "done"]
    /\ call' = IF join[j].signer THEN call
               ELSE IfCurrent(j, [place |-> join[j].place, state |-> "local_preview",
                                  canPublish |-> FALSE, mic |-> MicOnJoin])
    /\ UNCHANGED <<latest, session, ops>>

\* The catch block: it disconnects whatever session is held, and only then
\* asks whether it is stale.
Fail(j) ==
    /\ session' = 0
    /\ join' = [Disconnected EXCEPT ![j].pc = "failed"]
    /\ call' = IfCurrent(j, NoCall)
    /\ UNCHANGED <<latest, ops>>

Token(j) ==
    /\ join[j].pc = "token"
    /\ \/ /\ "token" \in MayFail
          /\ Fail(j)
       \/ \E canPublish \in BOOLEAN :
            /\ join' = [join EXCEPT ![j].pc = "connect", ![j].canPublish = canPublish]
            /\ call' = IfCurrent(j, [place |-> join[j].place, state |-> "connecting",
                                     canPublish |-> canPublish, mic |-> MicOnJoin])
            /\ UNCHANGED <<latest, session, ops>>

AdoptAny(j) == TRUE
Adopts(j) == j = latest

\* The room connects, its events and the rest of the chain run before any
\* other event: a current chain keeps the session and turns the microphone
\* on if the profile says so, a stale one disconnects at once.
Connect(j) ==
    /\ join[j].pc = "connect"
    /\ \/ /\ "connect" \in MayFail
          /\ Fail(j)
       \/ LET adopts == Adopts(j)
          IN  /\ join' = [join EXCEPT ![j].pc = "done",
                                      ![j].link = IF adopts THEN "live" ELSE "closed"]
              /\ session' = IF adopts THEN j ELSE session
              /\ call' = IfCurrent(j, [call EXCEPT !.state = "connected", !.mic = FALSE])
              /\ ops' = IF adopts /\ join[j].canPublish /\ MicOnJoin
                          THEN Append(ops, [join |-> j, value |-> TRUE, setup |-> TRUE,
                                            pc |-> "pending"])
                          ELSE ops
              /\ UNCHANGED latest

-----------------------------------------------------------------------------
\* toggleCallControl shows the new value before the device has answered.
Toggle ==
    /\ call.state = "connected" /\ call.canPublish
    /\ session # 0
    /\ Len(ops) < MaxToggles
    /\ call' = [call EXCEPT !.mic = ~@]
    /\ ops' = Append(ops, [join |-> session, value |-> ~call.mic, setup |-> FALSE,
                           pc |-> "pending"])
    /\ UNCHANGED <<latest, session, join>>

IsNext(i) ==
    /\ ops[i].pc = "pending"
    /\ \A k \in 1..(i - 1) : ops[k].join = ops[i].join => ops[k].pc # "pending"

Reverted(i) ==
    IF call # NoCall /\ ~ops[i].setup /\ call.place = join[ops[i].join].place
        THEN [call EXCEPT !.mic = ~ops[i].value] ELSE call
SyncedAlways(j, mic) ==
    IF call # NoCall THEN [call EXCEPT !.mic = mic] ELSE call
\* The participants of the room are shown, the local one's microphone too.
Synced(j, mic) ==
    IF call # NoCall THEN IfCurrent(j, [call EXCEPT !.mic = mic]) ELSE call

\* LiveKit takes the calls of one session in order.
Device(i) ==
    /\ IsNext(i)
    /\ \/ LET j == ops[i].join
              mic == ops[i].value /\ join[j].link \in {"live", "reconnecting"}
          IN  /\ ops' = [ops EXCEPT ![i].pc = "done"]
              /\ join' = [join EXCEPT ![j].mic = mic, ![j].ended = FALSE]
              /\ call' = Synced(j, mic)
       \/ /\ "device" \in MayFail
          /\ ops' = [ops EXCEPT ![i].pc = "failed"]
          /\ call' = Reverted(i)
          /\ UNCHANGED join
    /\ UNCHANGED <<latest, session>>

-----------------------------------------------------------------------------
\* What LiveKit tells a client, in rooms whose listeners are still there:
\* ConnectionStateChanged, ParticipantPermissionsChanged, LocalTrackUnpublished,
\* and the events that show the participants anew.
ShownStateOptimistic ==
    [live |-> "connected", reconnecting |-> "connected", lost |-> "failed"]
ShownState == [live |-> "connected", reconnecting |-> "connecting", lost |-> "failed"]

LinkChanges(j, link) ==
    /\ join[j].link \in {"live", "reconnecting"} \ {link}
    /\ join' = [join EXCEPT ![j].link = link, ![j].mic = @ /\ link # "lost"]
    /\ call' = IF call # NoCall THEN IfCurrent(j, [call EXCEPT !.state = ShownState[link]])
               ELSE call
    /\ UNCHANGED <<latest, session, ops>>

Permission(j, canPublish) ==
    /\ join[j].link \in {"live", "reconnecting"}
    /\ join[j].canPublish # canPublish
    /\ join' = [join EXCEPT ![j].canPublish = canPublish]
    /\ call' = IF call # NoCall THEN IfCurrent(j, [call EXCEPT !.canPublish = canPublish])
               ELSE call
    /\ UNCHANGED <<latest, session, ops>>

\* Who may not publish any more loses the microphone; only the streams are
\* collected anew.
Unpublished(j) ==
    /\ join[j].link \in {"live", "reconnecting"}
    /\ join[j].mic /\ ~join[j].canPublish
    /\ join' = [join EXCEPT ![j].mic = FALSE, ![j].ended = TRUE]
    /\ UNCHANGED <<call, latest, session, ops>>

\* Somebody speaks, comes or leaves.
ParticipantsChange(j) ==
    /\ join[j].link \in {"live", "reconnecting"}
    /\ join' = [join EXCEPT ![j].ended = FALSE]
    /\ call' = Synced(j, join[j].mic)
    /\ UNCHANGED <<latest, session, ops>>

Next ==
    \/ \E place \in Places, signer \in BOOLEAN : Join(place, signer)
    \/ Leave
    \/ Toggle
    \/ \E j \in DOMAIN join :
         \/ Intent(j)
         \/ Token(j)
         \/ Connect(j)
         \/ "drop" \in MayFail /\ \E link \in DOMAIN ShownState : LinkChanges(j, link)
         \/ \E canPublish \in BOOLEAN : Permission(j, canPublish)
         \/ Unpublished(j) \/ ParticipantsChange(j)
    \/ \E i \in DOMAIN ops : Device(i)

Spec == Init /\ [][Next]_vars

-----------------------------------------------------------------------------
\* The user is in no LiveKit room but the one whose session the client holds
\* and can disconnect, and that one is the newest join's: a chain that was
\* overtaken leaves nobody connected behind the user's back.
OnlyHeldRoomIsOpen ==
    \A j \in DOMAIN join :
        join[j].link \in {"live", "reconnecting"} => j = session /\ j = latest

\* What is shown belongs to the newest join, and after a leave nothing is
\* shown until the next join, whatever an older chain brings back.
ShowsNewestJoin ==
    call # NoCall => latest \in DOMAIN join /\ call.place = join[latest].place

IsLive ==
    /\ session # 0 /\ join[session].link = "live"
    /\ call.canPublish = join[session].canPublish

\* A call that is shown connected is connected, with the rights the server
\* last told of; all of this as long as no overtaken chain has failed.
ShownIsLiveUnlessJoinFailed ==
    (\A j \in DOMAIN join : j # latest => join[j].pc # "failed")
        => (call.state = "connected" => IsLive)

\* Once every answer about the microphone is in, and none was a failure, what
\* is shown of it is so, however the user toggled, left and came back, unless
\* the server has just ended it: that is shown with the participants, later.
ShownMicIsMic ==
    (\A i \in DOMAIN ops : ops[i].pc = "done") /\ call.state = "connected" /\ IsLive
        => call.mic = join[session].mic \/ join[session].ended

\* "The client should treat active LiveKit participation inside a beacon as
\* the authoritative rendered live place surface": shown connected, in a room.
ShownIsLive == call.state = "connected" => IsLive
=============================================================================
