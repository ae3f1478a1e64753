--------------------------- MODULE AppStateProofs ---------------------------
(***************************************************************************)
(* Proofs about two parts of the client's state (app-state.tsx) that share *)
(* nothing: the call that is shown (CallSession) and the notes of a beacon *)
(* (NoteSync).                                                             *)
(***************************************************************************)
EXTENDS CallSession, NoteSync, TLAPS

-----------------------------------------------------------------------------
(* Overlapping joins leave one room open and show one call, for every      *)
(* number of beacons, joins and microphone operations.                     *)

\* A chain that waits for its room is shown as long as it is the newest one:
\* what it does to the shown call when it comes back is done to its own.
ConnectingIsShown ==
    latest \in DOMAIN join /\ join[latest].pc = "connect" => call # NoCall

SessionIsAJoin == session # 0 => session \in DOMAIN join

CallInv ==
    TypeOK /\ SessionIsAJoin /\ ConnectingIsShown /\ OnlyHeldRoomIsOpen /\ ShowsNewestJoin

-----------------------------------------------------------------------------
(* The helpers. *)

\* Disconnecting the held session changes no chain but that one's link and
\* microphone, and after it no room is open if only the held one was.
LEMMA DisconnectedRooms ==
    ASSUME TypeOK, SessionIsAJoin, OnlyHeldRoomIsOpen
    PROVE  /\ DOMAIN Disconnected = DOMAIN join
           /\ \A j \in DOMAIN join : /\ Disconnected[j] \in Chain
                                     /\ Disconnected[j].pc = join[j].pc
                                     /\ Disconnected[j].place = join[j].place
                                     /\ Disconnected[j].link \notin {"live", "reconnecting"}
<1>0. \A j \in DOMAIN join : join[j] \in Chain
  BY DEF TypeOK
<1>1. CASE session = 0 \/ join[session].link \notin {"live", "reconnecting"}
  <2>1. Disconnected = join
    BY <1>1 DEF Disconnected
  <2>2. \A j \in DOMAIN join : j # session \/ session # 0
    BY DEF TypeOK
  <2> QED
    BY <1>0, <1>1, <2>1, <2>2 DEF OnlyHeldRoomIsOpen, TypeOK
<1>2. CASE session # 0 /\ join[session].link \in {"live", "reconnecting"}
  <2>1. Disconnected = [join EXCEPT ![session].link = "closed", ![session].mic = FALSE]
    BY <1>2 DEF Disconnected
  <2>2. session \in DOMAIN join
    BY <1>2 DEF SessionIsAJoin
  <2>3. Disconnected[session] = [join[session] EXCEPT !.link = "closed", !.mic = FALSE]
    BY <2>1, <2>2
  <2>4. \A j \in DOMAIN join : j # session => Disconnected[j] = join[j]
    BY <2>1
  <2>5. [join[session] EXCEPT !.link = "closed", !.mic = FALSE] \in Chain
    BY <1>0, <2>2 DEF Chain, Link
  <2> QED
    BY <1>0, <2>1, <2>2, <2>3, <2>4, <2>5 DEF OnlyHeldRoomIsOpen, Chain
<1> QED
  BY <1>1, <1>2

\* A chain that fails closes the held session's room and nothing else, and is
\* shown to fail only if it is the newest.
LEMMA FailStep ==
    ASSUME CallInv, NEW j \in DOMAIN join, Fail(j)
    PROVE  CallInv'
<1> USE DEF CallInv
<1> DEFINE D == Disconnected
<1>1. /\ DOMAIN D = DOMAIN join
      /\ \A i \in DOMAIN join : /\ D[i] \in Chain /\ D[i].pc = join[i].pc
                                /\ D[i].place = join[i].place
                                /\ D[i].link \notin {"live", "reconnecting"}
  BY DisconnectedRooms
<1>2. join' = [D EXCEPT ![j].pc = "failed"] /\ session' = 0 /\ UNCHANGED <<latest, ops>>
  BY DEF Fail
<1> HIDE DEF D
<1>3. DOMAIN join' = DOMAIN join /\ join'[j] = [D[j] EXCEPT !.pc = "failed"]
      /\ \A i \in DOMAIN join : i # j => join'[i] = D[i]
  BY <1>1, <1>2
<1>4. join'[j] \in Chain /\ join'[j].pc = "failed" /\ join'[j].place = D[j].place
      /\ join'[j].link = D[j].link
  BY <1>1, <1>3 DEF Chain
<1>5. \A i \in DOMAIN join : /\ join'[i] \in Chain /\ join'[i].place = join[i].place
                             /\ join'[i].link \notin {"live", "reconnecting"}
                             /\ join'[i].pc = "connect" => i # j /\ join[i].pc = "connect"
  BY <1>1, <1>3, <1>4
<1>6. call' = IF j = latest THEN NoCall ELSE call
  BY DEF Fail, IfCurrent
<1>7. TypeOK'
  <2>1. session' \in 0..MaxJoins /\ DOMAIN join' \subseteq 1..latest'
    BY CallAssumption, <1>2, <1>3 DEF TypeOK
  <2>2. \A i \in DOMAIN join' : join'[i] \in Chain
    BY <1>3, <1>5
  <2>3. call' \in Call \cup {NoCall} /\ latest' \in 0..MaxJoins /\ ops' \in Seq(Op)
    BY <1>2, <1>6 DEF TypeOK
  <2> QED
    BY <2>1, <2>2, <2>3 DEF TypeOK
<1>8. SessionIsAJoin' /\ OnlyHeldRoomIsOpen'
  BY <1>2, <1>3, <1>5 DEF SessionIsAJoin, OnlyHeldRoomIsOpen
<1>9. ConnectingIsShown'
  BY <1>2, <1>3, <1>5, <1>6 DEF ConnectingIsShown
<1>10. ShowsNewestJoin'
  BY <1>2, <1>3, <1>5, <1>6 DEF ShowsNewestJoin
<1> QED
  BY <1>7, <1>8, <1>9, <1>10

\* A step that leaves the chains' places and open rooms as they are, and the
\* call shown or not shown where it was, keeps the invariant.
LEMMA QuietStep ==
    ASSUME CallInv, TypeOK', UNCHANGED <<latest, session>>, DOMAIN join' = DOMAIN join,
           \A j \in DOMAIN join : /\ join'[j].place = join[j].place
                                  /\ join'[j].pc = "connect" => join[j].pc = "connect"
                                  /\ join'[j].link \in {"live", "reconnecting"}
                                      => join[j].link \in {"live", "reconnecting"},
           call' = NoCall <=> call = NoCall,
           call # NoCall => call'.place = call.place
    PROVE  CallInv'
<1> USE DEF CallInv
<1>1. SessionIsAJoin' /\ OnlyHeldRoomIsOpen'
  BY DEF SessionIsAJoin, OnlyHeldRoomIsOpen
<1>2. ConnectingIsShown'
  BY DEF ConnectingIsShown
<1>3. ShowsNewestJoin'
  BY DEF ShowsNewestJoin
<1> QED
  BY <1>1, <1>2, <1>3

\* A shown call can be shown with other values.
LEMMA ShownCall ==
    ASSUME call \in Call, NEW state \in {"local_preview", "connecting", "connected", "failed"},
           NEW mic \in BOOLEAN, NEW canPublish \in BOOLEAN
    PROVE  /\ [call EXCEPT !.state = state] \in Call /\ [call EXCEPT !.mic = mic] \in Call
           /\ [call EXCEPT !.canPublish = canPublish] \in Call
           /\ [call EXCEPT !.state = state, !.mic = mic] \in Call
           /\ [call EXCEPT !.state = state].place = call.place
           /\ [call EXCEPT !.mic = mic].place = call.place
           /\ [call EXCEPT !.canPublish = canPublish].place = call.place
           /\ [call EXCEPT !.state = state, !.mic = mic].place = call.place
BY DEF Call

\* A call is not "no call".
LEMMA CallIsSome == \A c \in Call : c # NoCall
<1>1. \A c \in Call : c.state # NoCall.state
  BY DEF Call, NoCall
<1> QED
  BY <1>1

-----------------------------------------------------------------------------
(* The steps. *)

\* A join keeps the invariant: the chain it starts is the newest and no room is held.
LEMMA JoinStep ==
    ASSUME CallInv, NEW place \in Places, NEW signer \in BOOLEAN, Join(place, signer)
    PROVE  CallInv'
<1> USE CallAssumption DEF CallInv
<1> DEFINE D == Disconnected
           n == latest + 1
           chain == [pc |-> "intent", place |-> place, signer |-> signer, link |-> "none",
                     canPublish |-> FALSE, mic |-> FALSE, ended |-> FALSE]
<1>1. /\ DOMAIN D = DOMAIN join
      /\ \A i \in DOMAIN join : /\ D[i] \in Chain /\ D[i].pc = join[i].pc
                                /\ D[i].place = join[i].place
                                /\ D[i].link \notin {"live", "reconnecting"}
  BY DisconnectedRooms
<1>2. /\ join' = [i \in DOMAIN D \cup {n} |-> IF i = n THEN chain ELSE D[i]]
      /\ session' = 0 /\ latest' = n /\ latest < MaxJoins
      /\ call' = IF signer THEN NoCall
                 ELSE [place |-> place, state |-> "local_preview", canPublish |-> FALSE,
                       mic |-> MicOnJoin]
      /\ UNCHANGED ops
  BY DEF Join, Extend
<1>3. latest \in Nat /\ n \in 1..MaxJoins /\ n \notin DOMAIN join /\ DOMAIN join \subseteq 1..n
  BY <1>2 DEF TypeOK
<1>4. chain \in Chain
  BY DEF Chain, Link
<1> HIDE DEF D
<1>5. /\ DOMAIN join' = DOMAIN join \cup {n} /\ join'[n] = chain
      /\ \A i \in DOMAIN join : join'[i] = D[i]
  BY <1>1, <1>2, <1>3
<1>6. call' \in Call \cup {NoCall}
  BY <1>2 DEF Call
<1> HIDE DEF n
<1>7. \A i \in DOMAIN join' : join'[i] \in Chain
  BY <1>1, <1>4, <1>5
<1>8. TypeOK'
  <2>1. DOMAIN join' \subseteq 1..latest' /\ latest' \in 0..MaxJoins /\ session' \in 0..MaxJoins
    BY <1>2, <1>3, <1>5
  <2> QED
    BY <1>2, <1>6, <1>7, <2>1 DEF TypeOK
<1>9. OnlyHeldRoomIsOpen' /\ SessionIsAJoin'
  BY <1>1, <1>2, <1>5 DEF OnlyHeldRoomIsOpen, SessionIsAJoin
<1>10. ConnectingIsShown'
  BY <1>2, <1>5 DEF ConnectingIsShown
<1>11. ShowsNewestJoin'
  BY <1>2, <1>5 DEF ShowsNewestJoin
<1> QED
  BY <1>8, <1>9, <1>10, <1>11

\* A leave keeps the invariant: nothing is shown and no room is held.
LEMMA LeaveStep ==
    ASSUME CallInv, Leave
    PROVE  CallInv'
<1> USE CallAssumption DEF CallInv
<1>1. /\ DOMAIN Disconnected = DOMAIN join
      /\ \A i \in DOMAIN join : /\ Disconnected[i] \in Chain
                                /\ Disconnected[i].link \notin {"live", "reconnecting"}
  BY DisconnectedRooms
<1>2. join' = Disconnected /\ session' = 0 /\ latest' = latest + 1 /\ call' = NoCall
      /\ latest < MaxJoins /\ UNCHANGED ops
  BY DEF Leave
<1>3. latest' \in 0..MaxJoins /\ session' \in 0..MaxJoins /\ DOMAIN join \subseteq 1..latest'
      /\ latest' \notin DOMAIN join
  BY <1>2 DEF TypeOK
<1>4. DOMAIN join' = DOMAIN join
  BY <1>1, <1>2
<1>5. TypeOK'
  BY <1>1, <1>2, <1>3, <1>4 DEF TypeOK
<1>6. OnlyHeldRoomIsOpen' /\ SessionIsAJoin'
  BY <1>1, <1>2 DEF OnlyHeldRoomIsOpen, SessionIsAJoin
<1>7. ConnectingIsShown' /\ ShowsNewestJoin'
  BY <1>2, <1>3, <1>4 DEF ConnectingIsShown, ShowsNewestJoin
<1> QED
  BY <1>5, <1>6, <1>7

\* Intent, Token and the rest change one chain at a time.
LEMMA ChainStep ==
    ASSUME TypeOK, NEW j \in DOMAIN join, NEW chain \in Chain, join' = [join EXCEPT ![j] = chain],
           latest' = latest, session' = session, ops' \in Seq(Op), call' \in Call \cup {NoCall}
    PROVE  TypeOK' /\ DOMAIN join' = DOMAIN join /\ join'[j] = chain
           /\ \A i \in DOMAIN join : i # j => join'[i] = join[i]
<1>1. DOMAIN join' = DOMAIN join /\ join'[j] = chain /\ \A i \in DOMAIN join : i # j => join'[i] = join[i]
  OBVIOUS
<1>2. \A i \in DOMAIN join' : join'[i] \in Chain
  BY <1>1 DEF TypeOK
<1> QED
  BY <1>1, <1>2 DEF TypeOK

\* The answer to a call intent keeps the invariant.
LEMMA IntentStep ==
    ASSUME CallInv, NEW j \in DOMAIN join, Intent(j)
    PROVE  CallInv'
<1> USE CallAssumption DEF CallInv
<1> DEFINE chain == [join[j] EXCEPT !.pc = IF join[j].signer THEN "token" ELSE "done"]
<1>1. join[j] \in Chain /\ ops \in Seq(Op) /\ call \in Call \cup {NoCall}
  BY DEF TypeOK
<1>2. chain \in Chain /\ chain.place = join[j].place /\ chain.link = join[j].link /\ chain.pc # "connect"
  BY <1>1 DEF Chain
<1>3. join' = [join EXCEPT ![j] = chain] /\ UNCHANGED <<latest, session, ops>>
  BY DEF Intent
<1>4. \/ call' = call
      \/ j = latest /\ call' \in Call /\ call'.place = join[j].place
  BY <1>1 DEF Intent, IfCurrent, Call, Chain
<1> HIDE DEF chain
<1>5. TypeOK' /\ DOMAIN join' = DOMAIN join /\ join'[j] = chain
      /\ \A i \in DOMAIN join : i # j => join'[i] = join[i]
  BY <1>1, <1>2, <1>3, <1>4, ChainStep
<1>6. OnlyHeldRoomIsOpen' /\ SessionIsAJoin'
  BY <1>2, <1>3, <1>5 DEF OnlyHeldRoomIsOpen, SessionIsAJoin
<1>7. ConnectingIsShown'
  BY <1>2, <1>3, <1>4, <1>5, CallIsSome DEF ConnectingIsShown
<1>8. ShowsNewestJoin'
  BY <1>2, <1>3, <1>4, <1>5 DEF ShowsNewestJoin
<1> QED
  BY <1>5, <1>6, <1>7, <1>8

\* A token, or its failure, keeps the invariant.
LEMMA TokenStep ==
    ASSUME CallInv, NEW j \in DOMAIN join, Token(j)
    PROVE  CallInv'
<1> USE CallAssumption DEF CallInv
<1>1. CASE Fail(j)
  BY <1>1, FailStep
<1>2. ASSUME NEW canPublish \in BOOLEAN,
             join' = [join EXCEPT ![j].pc = "connect", ![j].canPublish = canPublish],
             call' = IfCurrent(j, [place |-> join[j].place, state |-> "connecting",
                                   canPublish |-> canPublish, mic |-> MicOnJoin]),
             UNCHANGED <<latest, session, ops>>
      PROVE  CallInv'
  <2> DEFINE chain == [join[j] EXCEPT !.pc = "connect", !.canPublish = canPublish]
  <2>1. join[j] \in Chain /\ ops \in Seq(Op) /\ call \in Call \cup {NoCall}
    BY DEF TypeOK
  <2>2. chain \in Chain /\ chain.place = join[j].place /\ chain.link = join[j].link
    BY <2>1 DEF Chain
  <2>3. join' = [join EXCEPT ![j] = chain]
    BY <1>2
  <2>4. \/ call' = call /\ j # latest
        \/ j = latest /\ call' \in Call /\ call'.place = join[j].place
    BY <1>2, <2>1 DEF IfCurrent, Call, Chain
  <2> HIDE DEF chain
  <2>5. TypeOK' /\ DOMAIN join' = DOMAIN join /\ join'[j] = chain
        /\ \A i \in DOMAIN join : i # j => join'[i] = join[i]
    BY <1>2, <2>1, <2>2, <2>3, <2>4, ChainStep
  <2>6. OnlyHeldRoomIsOpen' /\ SessionIsAJoin'
    BY <1>2, <2>2, <2>5 DEF OnlyHeldRoomIsOpen, SessionIsAJoin
  <2>7. ConnectingIsShown'
    BY <1>2, <2>4, <2>5, CallIsSome DEF ConnectingIsShown
  <2>8. ShowsNewestJoin'
    BY <1>2, <2>2, <2>4, <2>5 DEF ShowsNewestJoin
  <2> QED
    BY <2>5, <2>6, <2>7, <2>8
<1> QED
  BY <1>1, <1>2 DEF Token

\* A room that connects is kept only by the newest chain; no other room is
\* open then, and the shown call is that chain's.
LEMMA ConnectStep ==
    ASSUME CallInv, NEW j \in DOMAIN join, Connect(j)
    PROVE  CallInv'
<1> USE CallAssumption DEF CallInv
<1>1. CASE Fail(j)
  BY <1>1, FailStep
<1>2. CASE ~Fail(j)
  <2> DEFINE chain == [join[j] EXCEPT !.pc = "done", !.link = IF j = latest THEN "live" ELSE "closed"]
             op == [join |-> j, value |-> TRUE, setup |-> TRUE, pc |-> "pending"]
  <2>1. join[j] \in Chain /\ ops \in Seq(Op) /\ call \in Call \cup {NoCall} /\ join[j].pc = "connect"
    BY DEF TypeOK, Connect
  <2>2. chain \in Chain /\ chain.place = join[j].place /\ chain.pc # "connect"
        /\ (chain.link \in {"live", "reconnecting"} => j = latest)
    BY <2>1 DEF Chain, Link
  <2>3. /\ join' = [join EXCEPT ![j].pc = "done", ![j].link = IF Adopts(j) THEN "live" ELSE "closed"]
        /\ session' = (IF Adopts(j) THEN j ELSE session)
        /\ call' = IfCurrent(j, [call EXCEPT !.state = "connected", !.mic = FALSE])
        /\ ops' = (IF Adopts(j) /\ join[j].canPublish /\ MicOnJoin THEN Append(ops, op) ELSE ops)
        /\ latest' = latest
    BY <1>2 DEF Connect
  <2>4. join' = [join EXCEPT ![j] = chain] /\ session' = IF j = latest THEN j ELSE session
    BY <2>3 DEF Adopts
  <2>5. j \in Requests
    BY DEF TypeOK, Requests
  <2>6. op \in Op
    BY <2>5 DEF Op
  <2> HIDE DEF chain, op
  <2>7. ops' \in Seq(Op)
    BY <2>1, <2>3, <2>6
  <2>8. j = latest => call \in Call
    BY <2>1 DEF ConnectingIsShown
  <2>9. /\ j # latest => call' = call
        /\ j = latest => call' \in Call /\ call'.place = call.place
    BY <2>3, <2>8, ShownCall DEF IfCurrent
  <2>10. DOMAIN join' = DOMAIN join /\ join'[j] = chain
         /\ \A i \in DOMAIN join : i # j => join'[i] = join[i]
    BY <2>4
  <2>11. TypeOK'
    <3>1. \A i \in DOMAIN join' : join'[i] \in Chain
      BY <2>2, <2>10 DEF TypeOK
    <3>2. session' \in 0..MaxJoins
      BY <2>4, <2>5 DEF TypeOK, Requests
    <3>3. call' \in Call \cup {NoCall}
      BY <2>1, <2>9
    <3> QED
      BY <2>3, <2>7, <2>10, <3>1, <3>2, <3>3 DEF TypeOK
  <2>12. SessionIsAJoin'
    BY <2>4, <2>10 DEF SessionIsAJoin
  <2>13. OnlyHeldRoomIsOpen'
    <3>1. CASE j = latest
      BY <2>2, <2>3, <2>4, <2>10, <3>1 DEF OnlyHeldRoomIsOpen
    <3>2. CASE j # latest
      BY <2>2, <2>3, <2>4, <2>10, <3>2 DEF OnlyHeldRoomIsOpen
    <3> QED
      BY <3>1, <3>2
  <2>14. ConnectingIsShown'
    BY <2>2, <2>3, <2>9, <2>10 DEF ConnectingIsShown
  <2>15. ShowsNewestJoin'
    BY <2>2, <2>3, <2>8, <2>9, <2>10, CallIsSome DEF ShowsNewestJoin
  <2> QED
    BY <2>11, <2>12, <2>13, <2>14, <2>15
<1> QED
  BY <1>1, <1>2

\* A press of the microphone button keeps the invariant.
LEMMA ToggleStep ==
    ASSUME CallInv, Toggle
    PROVE  CallInv'
<1> USE CallAssumption DEF CallInv
<1> DEFINE op == [join |-> session, value |-> ~call.mic, setup |-> FALSE, pc |-> "pending"]
           mic == ~call.mic
<1>1. call \in Call
  BY DEF Toggle, TypeOK, NoCall
<1>2. mic \in BOOLEAN /\ session \in Requests
  BY <1>1 DEF Call, Toggle, TypeOK, Requests
<1>3. op \in Op
  BY <1>2 DEF Op
<1>4. call' = [call EXCEPT !.mic = mic] /\ ops' = Append(ops, op) /\ UNCHANGED <<latest, session, join>>
  BY DEF Toggle
<1> HIDE DEF op, mic
<1>5. call' \in Call /\ call'.place = call.place
  BY <1>1, <1>2, <1>4, ShownCall
<1>6. TypeOK'
  BY <1>3, <1>4, <1>5 DEF TypeOK
<1> QED
  BY <1>1, <1>4, <1>5, <1>6, CallIsSome, QuietStep

\* What the devices and LiveKit report changes neither which call is shown
\* nor which rooms are open, except that a room may be lost.
LEMMA ReportStep ==
    ASSUME CallInv, NEW j \in DOMAIN join, NEW link \in Link, NEW canPublish \in BOOLEAN,
           NEW mic \in BOOLEAN, NEW ended \in BOOLEAN,
           link \in {"live", "reconnecting"} => join[j].link \in {"live", "reconnecting"},
           join' = [join EXCEPT ![j] = [@ EXCEPT !.link = link, !.canPublish = canPublish, !.mic = mic,
                                                 !.ended = ended]],
           UNCHANGED <<latest, session>>, ops' \in Seq(Op),
           call = NoCall => call' = NoCall,
           call # NoCall => call' \in Call /\ call'.place = call.place
    PROVE  CallInv'
<1> USE DEF CallInv
<1> DEFINE chain == [join[j] EXCEPT !.link = link, !.canPublish = canPublish, !.mic = mic,
                                    !.ended = ended]
<1>1. join[j] \in Chain /\ call \in Call \cup {NoCall}
  BY DEF TypeOK
<1>2. chain \in Chain /\ chain.place = join[j].place /\ chain.pc = join[j].pc /\ chain.link = link
  BY <1>1 DEF Chain
<1>3. join' = [join EXCEPT ![j] = chain]
  OBVIOUS
<1>4. call' \in Call \cup {NoCall} /\ (call' = NoCall <=> call = NoCall)
  BY <1>1, CallIsSome
<1> HIDE DEF chain
<1>5. TypeOK' /\ DOMAIN join' = DOMAIN join /\ join'[j] = chain
      /\ \A i \in DOMAIN join : i # j => join'[i] = join[i]
  BY <1>2, <1>3, <1>4, ChainStep
<1>6. \A i \in DOMAIN join : /\ join'[i].place = join[i].place
                             /\ join'[i].pc = "connect" => join[i].pc = "connect"
                             /\ join'[i].link \in {"live", "reconnecting"}
                                  => join[i].link \in {"live", "reconnecting"}
  BY <1>2, <1>5
<1> QED
  BY <1>4, <1>5, <1>6, QuietStep

\* A change of a room's connection keeps the invariant.
LEMMA LinkStep ==
    ASSUME CallInv, NEW j \in DOMAIN join, NEW link \in DOMAIN ShownState, LinkChanges(j, link)
    PROVE  CallInv'
<1> USE DEF CallInv
<1> DEFINE mic == join[j].mic /\ link # "lost"
           state == ShownState[link]
<1>1. join[j] \in Chain /\ call \in Call \cup {NoCall} /\ ops' \in Seq(Op)
  BY DEF TypeOK, LinkChanges
<1>2. link \in Link /\ join[j].canPublish \in BOOLEAN /\ mic \in BOOLEAN /\ join[j].ended \in BOOLEAN
      /\ state \in {"connected", "connecting", "failed"}
  BY <1>1 DEF Link, Chain, ShownState
<1>3. join[j].link \in {"live", "reconnecting"} /\ UNCHANGED <<latest, session>>
      /\ call' = (IF call # NoCall THEN IfCurrent(j, [call EXCEPT !.state = state]) ELSE call)
  BY DEF LinkChanges
<1>4. join' = [join EXCEPT ![j] = [@ EXCEPT !.link = link, !.canPublish = join[j].canPublish, !.mic = mic,
                                            !.ended = join[j].ended]]
  <2>1. join' = [join EXCEPT ![j].link = link, ![j].mic = mic]
    BY DEF LinkChanges
  <2>2. [join[j] EXCEPT !.link = link, !.mic = mic]
          = [join[j] EXCEPT !.link = link, !.canPublish = join[j].canPublish, !.mic = mic,
                            !.ended = join[j].ended]
    BY <1>1 DEF Chain
  <2> HIDE DEF mic
  <2> QED
    BY <2>1, <2>2
<1> HIDE DEF mic, state
<1>5. /\ call = NoCall => call' = NoCall
      /\ call # NoCall => call' \in Call /\ call'.place = call.place
  BY <1>1, <1>2, <1>3, ShownCall DEF IfCurrent
<1> QED
  BY <1>1, <1>2, <1>3, <1>4, <1>5, ReportStep

\* A change of a participant's rights keeps the invariant.
LEMMA PermissionStep ==
    ASSUME CallInv, NEW j \in DOMAIN join, NEW canPublish \in BOOLEAN, Permission(j, canPublish)
    PROVE  CallInv'
<1> USE DEF CallInv
<1>1. join[j] \in Chain /\ call \in Call \cup {NoCall} /\ ops' \in Seq(Op)
  BY DEF TypeOK, Permission
<1>2. join[j].link \in Link /\ join[j].mic \in BOOLEAN /\ join[j].ended \in BOOLEAN
  BY <1>1 DEF Chain
<1>3. UNCHANGED <<latest, session>>
      /\ call' = (IF call # NoCall THEN IfCurrent(j, [call EXCEPT !.canPublish = canPublish]) ELSE call)
  BY DEF Permission
<1>4. join' = [join EXCEPT ![j] = [@ EXCEPT !.link = join[j].link, !.canPublish = canPublish,
                                            !.mic = join[j].mic, !.ended = join[j].ended]]
  <2>1. join' = [join EXCEPT ![j].canPublish = canPublish]
    BY DEF Permission
  <2>2. [join[j] EXCEPT !.canPublish = canPublish]
          = [join[j] EXCEPT !.link = join[j].link, !.canPublish = canPublish, !.mic = join[j].mic,
                            !.ended = join[j].ended]
    BY <1>1 DEF Chain
  <2> QED
    BY <2>1, <2>2
<1>5. /\ call = NoCall => call' = NoCall
      /\ call # NoCall => call' \in Call /\ call'.place = call.place
  BY <1>1, <1>3, ShownCall DEF IfCurrent
<1> QED
  BY <1>1, <1>2, <1>3, <1>4, <1>5, ReportStep

\* The end of a microphone and the news of the participants keep it.
LEMMA ParticipantsStep ==
    ASSUME CallInv, NEW j \in DOMAIN join, Unpublished(j) \/ ParticipantsChange(j)
    PROVE  CallInv'
<1> USE DEF CallInv
<1>1. join[j] \in Chain /\ call \in Call \cup {NoCall} /\ ops' \in Seq(Op)
      /\ UNCHANGED <<latest, session>>
  BY DEF TypeOK, Unpublished, ParticipantsChange
<1>2. join[j].link \in Link /\ join[j].canPublish \in BOOLEAN /\ join[j].mic \in BOOLEAN
  BY <1>1 DEF Chain
<1>3. PICK mic \in BOOLEAN, ended \in BOOLEAN :
        join' = [join EXCEPT ![j] = [@ EXCEPT !.link = join[j].link, !.canPublish = join[j].canPublish,
                                              !.mic = mic, !.ended = ended]]
  <2>1. CASE Unpublished(j)
    <3>1. join' = [join EXCEPT ![j].mic = FALSE, ![j].ended = TRUE]
      BY <2>1 DEF Unpublished
    <3>2. [join[j] EXCEPT !.mic = FALSE, !.ended = TRUE]
            = [join[j] EXCEPT !.link = join[j].link, !.canPublish = join[j].canPublish,
                              !.mic = FALSE, !.ended = TRUE]
      BY <1>1 DEF Chain
    <3> QED
      BY <3>1, <3>2
  <2>2. CASE ParticipantsChange(j)
    <3>1. join' = [join EXCEPT ![j].ended = FALSE]
      BY <2>2 DEF ParticipantsChange
    <3>2. [join[j] EXCEPT !.ended = FALSE]
            = [join[j] EXCEPT !.link = join[j].link, !.canPublish = join[j].canPublish,
                              !.mic = join[j].mic, !.ended = FALSE]
      BY <1>1 DEF Chain
    <3> QED
      BY <1>2, <3>1, <3>2
  <2> QED
    BY <2>1, <2>2
<1>4. call' = call \/ (call # NoCall /\ call' = [call EXCEPT !.mic = join[j].mic])
  BY DEF Unpublished, ParticipantsChange, Synced, IfCurrent
<1>5. /\ call = NoCall => call' = NoCall
      /\ call # NoCall => call' \in Call /\ call'.place = call.place
  BY <1>1, <1>2, <1>4, ShownCall
<1> QED
  BY <1>1, <1>2, <1>3, <1>5, ReportStep

-----------------------------------------------------------------------------
(* The devices. *)

\* Every microphone operation is on a session that was joined.
OpsOfJoins == \A i \in DOMAIN ops : ops[i].join \in DOMAIN join

\* The answer of a device keeps the invariant.
LEMMA DeviceStep ==
    ASSUME CallInv, OpsOfJoins, NEW i \in DOMAIN ops, Device(i)
    PROVE  CallInv' /\ OpsOfJoins'
<1> USE DEF CallInv
<1> DEFINE j == ops[i].join
<1>1. ops \in Seq(Op) /\ ops[i] \in Op /\ call \in Call \cup {NoCall}
  BY DEF TypeOK
<1>2. j \in DOMAIN join /\ join[j] \in Chain /\ ops[i].value \in BOOLEAN
  BY <1>1 DEF OpsOfJoins, TypeOK, Op
<1>3. PICK pc \in {"done", "failed"} : ops' = [ops EXCEPT ![i].pc = pc]
  BY DEF Device
<1>4. UNCHANGED <<latest, session>>
  BY DEF Device
<1>5. ops' \in Seq(Op) /\ DOMAIN ops' = DOMAIN ops /\ \A k \in DOMAIN ops : ops'[k].join = ops[k].join
  <2> DEFINE op == [ops[i] EXCEPT !.pc = pc]
  <2>1. op \in Op /\ op.join = ops[i].join
    BY <1>1 DEF Op
  <2>2. ops' = [ops EXCEPT ![i] = op]
    BY <1>3
  <2> HIDE DEF op
  <2> QED
    BY <1>1, <2>1, <2>2
<1>6. CASE ops' = [ops EXCEPT ![i].pc = "done"]
           /\ join' = [join EXCEPT ![j].mic = ops[i].value /\ join[j].link \in {"live", "reconnecting"},
                                   ![j].ended = FALSE]
           /\ call' = Synced(j, ops[i].value /\ join[j].link \in {"live", "reconnecting"})
  <2> DEFINE mic == ops[i].value /\ join[j].link \in {"live", "reconnecting"}
  <2>1. mic \in BOOLEAN
    BY <1>2
  <2>2. join[j].link \in Link /\ join[j].canPublish \in BOOLEAN
    BY <1>2 DEF Chain
  <2>3. join' = [join EXCEPT ![j].mic = mic, ![j].ended = FALSE] /\ call' = Synced(j, mic)
    BY <1>6
  <2> HIDE DEF j, mic
  <2>4. join' = [join EXCEPT ![j] = [@ EXCEPT !.link = join[j].link, !.canPublish = join[j].canPublish,
                                              !.mic = mic, !.ended = FALSE]]
    <3>1. [join[j] EXCEPT !.mic = mic, !.ended = FALSE]
            = [join[j] EXCEPT !.link = join[j].link, !.canPublish = join[j].canPublish, !.mic = mic,
                              !.ended = FALSE]
      BY <1>2 DEF Chain
    <3> QED
      BY <2>3, <3>1
  <2>5. /\ call = NoCall => call' = NoCall
        /\ call # NoCall => call' \in Call /\ call'.place = call.place
    BY <1>1, <2>1, <2>3, ShownCall DEF Synced, IfCurrent
  <2>6. CallInv'
    BY <1>2, <1>4, <1>5, <2>1, <2>2, <2>4, <2>5, ReportStep
  <2>7. DOMAIN join' = DOMAIN join
    BY <2>3
  <2> QED
    BY <1>5, <2>6, <2>7 DEF OpsOfJoins
<1>7. CASE call' = Reverted(i) /\ UNCHANGED join
  <2> DEFINE mic == ~ops[i].value
  <2>1. mic \in BOOLEAN
    OBVIOUS
  <2>2. call' = call \/ (call # NoCall /\ call' = [call EXCEPT !.mic = mic])
    BY <1>7 DEF Reverted
  <2> HIDE DEF mic
  <2>3. /\ call' = NoCall <=> call = NoCall
        /\ call # NoCall => call' \in Call /\ call'.place = call.place
    BY <1>1, <2>1, <2>2, ShownCall, CallIsSome
  <2>4. TypeOK'
    BY <1>1, <1>4, <1>5, <1>7, <2>3 DEF TypeOK
  <2>5. CallInv'
    BY <1>4, <1>7, <2>3, <2>4, QuietStep
  <2> QED
    BY <1>5, <1>7, <2>5 DEF OpsOfJoins
<1> QED
  BY <1>6, <1>7 DEF Device

\* A new operation is on the held session, and no chain is ever forgotten.
LEMMA OpsStep ==
    ASSUME CallInv, OpsOfJoins, NEW j \in DOMAIN join, Token(j) \/ Connect(j)
    PROVE  OpsOfJoins'
<1> USE DEF CallInv
<1>1. CASE Fail(j)
  <2>1. DOMAIN join' = DOMAIN join /\ ops' = ops
    BY <1>1, DisconnectedRooms DEF Fail
  <2> QED
    BY <2>1 DEF OpsOfJoins
<1>2. CASE ~Fail(j)
  <2> DEFINE op == [join |-> j, value |-> TRUE, setup |-> TRUE, pc |-> "pending"]
  <2>1. DOMAIN join' = DOMAIN join
    BY <1>2 DEF Token, Connect
  <2>2. ops' = ops \/ ops' = Append(ops, op)
    BY <1>2 DEF Token, Connect
  <2>3. ops \in Seq(Op) /\ op.join = j
    BY DEF TypeOK
  <2> HIDE DEF op
  <2> QED
    BY <2>1, <2>2, <2>3 DEF OpsOfJoins
<1> QED
  BY <1>1, <1>2

\* The rest adds chains, or an operation on the held session.
LEMMA OtherOpsStep ==
    ASSUME CallInv, OpsOfJoins,
           \/ \E place \in Places, signer \in BOOLEAN : Join(place, signer)
           \/ Leave \/ Toggle
           \/ \E j \in DOMAIN join :
                \/ Intent(j)
                \/ \E link \in DOMAIN ShownState : LinkChanges(j, link)
                \/ \E canPublish \in BOOLEAN : Permission(j, canPublish)
                \/ Unpublished(j) \/ ParticipantsChange(j)
    PROVE  OpsOfJoins'
<1> USE DEF CallInv
<1>1. DOMAIN Disconnected = DOMAIN join
  BY DisconnectedRooms
<1>2. CASE Toggle
  <2> DEFINE op == [join |-> session, value |-> ~call.mic, setup |-> FALSE, pc |-> "pending"]
  <2>1. ops' = Append(ops, op) /\ op.join = session /\ join' = join /\ session # 0
    BY <1>2 DEF Toggle
  <2>2. ops \in Seq(Op)
    BY DEF TypeOK
  <2> HIDE DEF op
  <2> QED
    BY <2>1, <2>2 DEF OpsOfJoins, SessionIsAJoin
<1>3. CASE ~Toggle
  <2>1. ops' = ops
    BY <1>3 DEF Join, Leave, Intent, LinkChanges, Permission, Unpublished, ParticipantsChange
  <2>2. ASSUME NEW place \in Places, NEW signer \in BOOLEAN, Join(place, signer)
        PROVE  DOMAIN join \subseteq DOMAIN join'
    BY <1>1, <2>2 DEF Join, Extend
  <2>3. ~(\E place \in Places, signer \in BOOLEAN : Join(place, signer)) => DOMAIN join' = DOMAIN join
    BY <1>1, <1>3 DEF Leave, Intent, LinkChanges, Permission, Unpublished, ParticipantsChange
  <2> QED
    BY <2>1, <2>2, <2>3 DEF OpsOfJoins
<1> QED
  BY <1>2, <1>3

-----------------------------------------------------------------------------
\* The invariant holds in every state.
LEMMA CallInvariant == Spec => [](CallInv /\ OpsOfJoins)
<1>1. Init => CallInv /\ OpsOfJoins
  BY CallAssumption DEF Init, CallInv, TypeOK, SessionIsAJoin, ConnectingIsShown,
     OnlyHeldRoomIsOpen, ShowsNewestJoin, OpsOfJoins
<1>2. CallInv /\ OpsOfJoins /\ [Next]_vars => (CallInv /\ OpsOfJoins)'
  <2> SUFFICES ASSUME CallInv, OpsOfJoins, [Next]_vars PROVE (CallInv /\ OpsOfJoins)'
    OBVIOUS
  <2>1. ASSUME NEW place \in Places, NEW signer \in BOOLEAN, Join(place, signer)
        PROVE  (CallInv /\ OpsOfJoins)'
    BY <2>1, JoinStep, OtherOpsStep
  <2>2. CASE Leave
    BY <2>2, LeaveStep, OtherOpsStep
  <2>3. CASE Toggle
    BY <2>3, ToggleStep, OtherOpsStep
  <2>4. ASSUME NEW j \in DOMAIN join, Intent(j) PROVE (CallInv /\ OpsOfJoins)'
    BY <2>4, IntentStep, OtherOpsStep
  <2>5. ASSUME NEW j \in DOMAIN join, Token(j) PROVE (CallInv /\ OpsOfJoins)'
    BY <2>5, TokenStep, OpsStep
  <2>6. ASSUME NEW j \in DOMAIN join, Connect(j) PROVE (CallInv /\ OpsOfJoins)'
    BY <2>6, ConnectStep, OpsStep
  <2>7. ASSUME NEW j \in DOMAIN join, NEW link \in DOMAIN ShownState, LinkChanges(j, link)
        PROVE  (CallInv /\ OpsOfJoins)'
    BY <2>7, LinkStep, OtherOpsStep
  <2>8. ASSUME NEW j \in DOMAIN join, NEW canPublish \in BOOLEAN, Permission(j, canPublish)
        PROVE  (CallInv /\ OpsOfJoins)'
    BY <2>8, PermissionStep, OtherOpsStep
  <2>9. ASSUME NEW i \in DOMAIN ops, Device(i) PROVE (CallInv /\ OpsOfJoins)'
    BY <2>9, DeviceStep
  <2>10. ASSUME NEW j \in DOMAIN join, Unpublished(j) \/ ParticipantsChange(j)
         PROVE  (CallInv /\ OpsOfJoins)'
    BY <2>10, ParticipantsStep, OtherOpsStep
  <2>11. CASE UNCHANGED vars
    BY <2>11 DEF vars, CallInv, TypeOK, SessionIsAJoin, ConnectingIsShown,
       OnlyHeldRoomIsOpen, ShowsNewestJoin, OpsOfJoins
  <2> QED
    BY <2>1, <2>2, <2>3, <2>4, <2>5, <2>6, <2>7, <2>8, <2>9, <2>10, <2>11 DEF Next
<1> QED
  BY <1>1, <1>2, PTL DEF Spec

\* The state has its type, for every number of joins and operations.
THEOREM CallTypesAreKept == Spec => []TypeOK
BY CallInvariant, PTL DEF CallInv

\* However joins overlap and fail, no LiveKit room is open but the one whose
\* session the client holds, and that is the newest join's.
THEOREM OnlyTheHeldRoomStaysOpen == Spec => []OnlyHeldRoomIsOpen
BY CallInvariant, PTL DEF CallInv

\* Whatever an overtaken chain brings back, the call that is shown is the
\* newest join's.
THEOREM TheNewestJoinIsShown == Spec => []ShowsNewestJoin
BY CallInvariant, PTL DEF CallInv

-----------------------------------------------------------------------------
(* The screen. *)

NoneFailed == \A j \in DOMAIN join : j # latest => join[j].pc # "failed"

\* What is shown connected is the held session's room.
ConnectedIsHeld ==
    call.state = "connected" =>
        latest \in DOMAIN join /\ session = latest /\ join[latest].link = "live"

\* The newest chain shows its rights from the token on.
RightsAreShown ==
    /\ latest \in DOMAIN join /\ call # NoCall
    /\ join[latest].pc = "connect" \/ join[latest].link \in {"live", "reconnecting"}
    => call.canPublish = join[latest].canPublish

\* A chain that has not come to its room is in none.
WaitsOutside ==
    \A j \in DOMAIN join :
        join[j].pc \in {"intent", "token", "connect"} => join[j].link = "none"

ScreenInv == (NoneFailed => ConnectedIsHeld) /\ RightsAreShown /\ WaitsOutside

\* Disconnecting changes no rights, and closes no room that is not open.
LEMMA DisconnectedRights ==
    ASSUME TypeOK
    PROVE  \A j \in DOMAIN join : /\ Disconnected[j].canPublish = join[j].canPublish
                                  /\ join[j].link = "none" => Disconnected[j].link = "none"
<1>1. \A j \in DOMAIN join : join[j] \in Chain
  BY DEF TypeOK
<1> QED
  BY <1>1 DEF Disconnected, Chain

\* A step that changes no chain's state or link nor the held session, and of
\* the call not what is about them.
LEMMA ScreenUntouched ==
    ASSUME ScreenInv, UNCHANGED <<latest, session>>, DOMAIN join' = DOMAIN join,
           \A j \in DOMAIN join : /\ join'[j].pc = join[j].pc /\ join'[j].link = join[j].link
                                  /\ join'[j].canPublish = join[j].canPublish,
           call = NoCall => call' = NoCall,
           call # NoCall => call'.state = call.state /\ call'.canPublish = call.canPublish
    PROVE  ScreenInv'
<1>1. call'.state = call.state
  OBVIOUS
<1>2. NoneFailed' => NoneFailed
  BY DEF NoneFailed
<1>3. ConnectedIsHeld => ConnectedIsHeld'
  BY <1>1 DEF ConnectedIsHeld
<1>4. RightsAreShown' /\ WaitsOutside'
  BY DEF ScreenInv, RightsAreShown, WaitsOutside
<1> QED
  BY <1>2, <1>3, <1>4 DEF ScreenInv

\* A new chain is not connected, nor is anything after a leave.
LEMMA ScreenJoinStep ==
    ASSUME CallInv, ScreenInv,
           Leave \/ \E place \in Places, signer \in BOOLEAN : Join(place, signer)
    PROVE  ScreenInv'
<1> USE DEF CallInv
<1>1. /\ DOMAIN Disconnected = DOMAIN join /\ latest + 1 \notin DOMAIN join
      /\ \A i \in DOMAIN join : /\ Disconnected[i].pc = join[i].pc
                                /\ join[i].link = "none" => Disconnected[i].link = "none"
  BY DisconnectedRooms, DisconnectedRights DEF TypeOK
<1>2. latest' = latest + 1 /\ call'.state # "connected"
  <2>1. CASE Leave
    BY <2>1 DEF Leave, NoCall
  <2>2. ASSUME NEW place \in Places, NEW signer \in BOOLEAN, Join(place, signer)
        PROVE  latest' = latest + 1 /\ call'.state # "connected"
    <3> DEFINE preview == [place |-> place, state |-> "local_preview", canPublish |-> FALSE,
                           mic |-> MicOnJoin]
    <3>1. call' = NoCall \/ call' = preview
      BY <2>2 DEF Join
    <3>2. NoCall.state = "none" /\ preview.state = "local_preview"
      BY DEF NoCall
    <3> HIDE DEF preview
    <3>3. latest' = latest + 1
      BY <2>2 DEF Join
    <3> QED
      BY <3>1, <3>2, <3>3
  <2> QED
    BY <2>1, <2>2
<1>3. CASE Leave
  BY <1>1, <1>2, <1>3 DEF Leave, ScreenInv, ConnectedIsHeld, RightsAreShown, WaitsOutside
<1>4. ASSUME NEW place \in Places, NEW signer \in BOOLEAN, Join(place, signer) PROVE ScreenInv'
  <2> DEFINE chain == [pc |-> "intent", place |-> place, signer |-> signer, link |-> "none",
                       canPublish |-> FALSE, mic |-> FALSE, ended |-> FALSE]
  <2>1. join' = Extend(Disconnected, latest + 1, chain)
    BY <1>4 DEF Join
  <2>2. chain.pc = "intent" /\ chain.link = "none"
    OBVIOUS
  <2> HIDE DEF chain
  <2>3. /\ DOMAIN join' = DOMAIN join \cup {latest + 1} /\ join'[latest + 1] = chain
        /\ \A i \in DOMAIN join : join'[i] = Disconnected[i]
    BY <1>1, <2>1 DEF Extend
  <2> QED
    BY <1>1, <1>2, <2>2, <2>3 DEF ScreenInv, ConnectedIsHeld, RightsAreShown, WaitsOutside
<1> QED
  BY <1>3, <1>4

\* A chain that fails is the newest, and nothing is shown, or it was overtaken.
LEMMA ScreenFailStep ==
    ASSUME CallInv, ScreenInv, NEW j \in DOMAIN join, Fail(j)
    PROVE  ScreenInv'
<1> USE DEF CallInv
<1> DEFINE D == Disconnected
<1>1. /\ DOMAIN D = DOMAIN join
      /\ \A i \in DOMAIN join : /\ D[i] \in Chain /\ D[i].pc = join[i].pc
                                /\ D[i].link \notin {"live", "reconnecting"}
                                /\ D[i].canPublish = join[i].canPublish
                                /\ join[i].link = "none" => D[i].link = "none"
  BY DisconnectedRooms, DisconnectedRights
<1>2. join' = [D EXCEPT ![j].pc = "failed"] /\ latest' = latest
      /\ call' = IF j = latest THEN NoCall ELSE call
  BY DEF Fail, IfCurrent
<1> HIDE DEF D
<1>3. DOMAIN join' = DOMAIN join /\ join'[j] = [D[j] EXCEPT !.pc = "failed"]
      /\ \A i \in DOMAIN join : i # j => join'[i] = D[i]
  BY <1>1, <1>2
<1>4. join'[j].pc = "failed" /\ join'[j].link = D[j].link
  BY <1>1, <1>3 DEF Chain
<1>5. NoneFailed' => ConnectedIsHeld'
  <2>1. CASE j = latest
    BY <1>2, <2>1 DEF ConnectedIsHeld, NoCall
  <2>2. CASE j # latest
    BY <1>2, <1>3, <1>4, <2>2 DEF NoneFailed
  <2> QED
    BY <2>1, <2>2
<1>6. RightsAreShown'
  BY <1>1, <1>2, <1>3, <1>4 DEF ScreenInv, RightsAreShown
<1>7. WaitsOutside'
  BY <1>1, <1>3, <1>4 DEF ScreenInv, WaitsOutside
<1> QED
  BY <1>5, <1>6, <1>7 DEF ScreenInv

\* A chain goes on to its token or to its room, or has only been a preview.
LEMMA ScreenChainStep ==
    ASSUME CallInv, ScreenInv, NEW j \in DOMAIN join, Intent(j) \/ Token(j), ~Fail(j)
    PROVE  ScreenInv'
<1> USE DEF CallInv
<1>1. join[j] \in Chain /\ join[j].pc \in {"intent", "token"} /\ join[j].link = "none"
  BY DEF TypeOK, Intent, Token, ScreenInv, WaitsOutside
<1>2. PICK chain \in Chain :
        /\ join' = [join EXCEPT ![j] = chain]
        /\ chain.link = "none" /\ chain.pc # "failed"
        /\ \/ chain.pc # "connect" /\ (j # latest => call' = call)
              /\ (j = latest => call'.state # "connected" \/ call' = call)
           \/ /\ call' = IfCurrent(j, [place |-> join[j].place, state |-> "connecting",
                                       canPublish |-> chain.canPublish, mic |-> MicOnJoin])
  <2>1. CASE Intent(j)
    <3> DEFINE c == [join[j] EXCEPT !.pc = IF join[j].signer THEN "token" ELSE "done"]
    <3>1. c \in Chain /\ c.link = "none" /\ c.pc \in {"token", "done"}
      BY <1>1 DEF Chain
    <3>2. join' = [join EXCEPT ![j] = c]
      BY <2>1 DEF Intent
    <3>3. (j # latest => call' = call) /\ (j = latest => call'.state # "connected" \/ call' = call)
      BY <2>1 DEF Intent, IfCurrent
    <3> HIDE DEF c
    <3> QED
      BY <3>1, <3>2, <3>3
  <2>2. CASE Token(j)
    <3>1. PICK canPublish \in BOOLEAN :
            /\ join' = [join EXCEPT ![j].pc = "connect", ![j].canPublish = canPublish]
            /\ call' = IfCurrent(j, [place |-> join[j].place, state |-> "connecting",
                                     canPublish |-> canPublish, mic |-> MicOnJoin])
      BY <2>2 DEF Token
    <3> DEFINE c == [join[j] EXCEPT !.pc = "connect", !.canPublish = canPublish]
    <3>2. c \in Chain /\ c.link = "none" /\ c.pc = "connect" /\ c.canPublish = canPublish
      BY <1>1 DEF Chain
    <3>3. join' = [join EXCEPT ![j] = c]
      BY <3>1
    <3> HIDE DEF c
    <3> QED
      BY <3>1, <3>2, <3>3
  <2> QED
    BY <2>1, <2>2
<1>3. UNCHANGED <<latest, session>>
  BY DEF Intent, Token
<1>4. DOMAIN join' = DOMAIN join /\ join'[j] = chain /\ \A i \in DOMAIN join : i # j => join'[i] = join[i]
  BY <1>2
<1>5. NoneFailed' => NoneFailed
  BY <1>1, <1>3, <1>4 DEF NoneFailed
<1>6. ConnectedIsHeld => ConnectedIsHeld'
  <2>1. CASE j = latest
    <3>1. ConnectedIsHeld => call.state # "connected"
      BY <1>1, <2>1 DEF ConnectedIsHeld
    <3> QED
      BY <1>2, <2>1, <3>1 DEF ConnectedIsHeld, IfCurrent
  <2>2. CASE j # latest
    <3>1. call' = call
      BY <1>2, <2>2 DEF IfCurrent
    <3> QED
      BY <1>3, <1>4, <2>2, <3>1 DEF ConnectedIsHeld
  <2> QED
    BY <2>1, <2>2
<1>7. RightsAreShown'
  <2>1. CASE j = latest
    BY <1>2, <1>3, <1>4, <2>1 DEF RightsAreShown, IfCurrent
  <2>2. CASE j # latest
    <3>1. call' = call
      BY <1>2, <2>2 DEF IfCurrent
    <3> QED
      BY <1>3, <1>4, <2>2, <3>1 DEF ScreenInv, RightsAreShown
  <2> QED
    BY <2>1, <2>2
<1>8. WaitsOutside'
  BY <1>2, <1>4 DEF ScreenInv, WaitsOutside
<1> QED
  BY <1>5, <1>6, <1>7, <1>8 DEF ScreenInv

\* A room that connects is the newest chain's, held and shown, or is left.
LEMMA ScreenConnectStep ==
    ASSUME CallInv, ScreenInv, NEW j \in DOMAIN join, Connect(j), ~Fail(j)
    PROVE  ScreenInv'
<1> USE DEF CallInv
<1> DEFINE chain == [join[j] EXCEPT !.pc = "done", !.link = IF j = latest THEN "live" ELSE "closed"]
<1>1. join[j] \in Chain /\ join[j].pc = "connect" /\ call \in Call \cup {NoCall}
  BY DEF TypeOK, Connect
<1>2. /\ chain.canPublish = join[j].canPublish /\ chain.pc = "done"
      /\ chain.link = IF j = latest THEN "live" ELSE "closed"
  BY <1>1 DEF Chain
<1>3. /\ join' = [join EXCEPT ![j] = chain]
      /\ session' = (IF j = latest THEN j ELSE session) /\ latest' = latest
      /\ call' = IfCurrent(j, [call EXCEPT !.state = "connected", !.mic = FALSE])
  BY DEF Connect, Adopts
<1> HIDE DEF chain
<1>4. DOMAIN join' = DOMAIN join /\ join'[j] = chain /\ \A i \in DOMAIN join : i # j => join'[i] = join[i]
  BY <1>3
<1>5. WaitsOutside'
  BY <1>2, <1>4 DEF ScreenInv, WaitsOutside
<1>6. CASE j = latest
  <2>1. call # NoCall /\ call \in Call
    BY <1>1, <1>6 DEF ConnectingIsShown
  <2>2. call' = [call EXCEPT !.state = "connected", !.mic = FALSE]
    BY <1>3, <1>6 DEF IfCurrent
  <2>3. call'.canPublish = call.canPublish
    BY <2>1, <2>2 DEF Call
  <2>4. call.canPublish = join[j].canPublish
    BY <1>1, <1>6, <2>1 DEF ScreenInv, RightsAreShown
  <2> QED
    BY <1>2, <1>3, <1>4, <1>5, <1>6, <2>3, <2>4 DEF ScreenInv, ConnectedIsHeld, RightsAreShown
<1>7. CASE j # latest
  <2>1. call' = call /\ session' = session
    BY <1>3, <1>7 DEF IfCurrent
  <2>2. NoneFailed' => NoneFailed
    BY <1>1, <1>3, <1>4 DEF NoneFailed
  <2>3. ConnectedIsHeld => ConnectedIsHeld'
    BY <1>3, <1>4, <1>7, <2>1 DEF ConnectedIsHeld
  <2>4. RightsAreShown'
    BY <1>3, <1>4, <1>7, <2>1 DEF ScreenInv, RightsAreShown
  <2> QED
    BY <1>5, <2>2, <2>3, <2>4 DEF ScreenInv
<1> QED
  BY <1>6, <1>7

\* LiveKit reports about the held room, which is the newest chain's.
LEMMA ScreenReportStep ==
    ASSUME CallInv, ScreenInv, NEW j \in DOMAIN join,
           \/ \E link \in DOMAIN ShownState : LinkChanges(j, link)
           \/ \E canPublish \in BOOLEAN : Permission(j, canPublish)
    PROVE  ScreenInv'
<1> USE DEF CallInv
<1>1. join[j] \in Chain /\ call \in Call \cup {NoCall} /\ join[j].link \in {"live", "reconnecting"}
  BY DEF TypeOK, LinkChanges, Permission
<1>2. j = latest /\ j = session /\ UNCHANGED <<latest, session>>
  BY <1>1 DEF OnlyHeldRoomIsOpen, LinkChanges, Permission
<1>3. join[j].pc \notin {"intent", "token", "connect"}
  BY <1>1 DEF ScreenInv, WaitsOutside
<1>4. call # NoCall => call \in Call /\ call.canPublish = join[j].canPublish
  BY <1>1, <1>2 DEF ScreenInv, RightsAreShown
<1>5. ASSUME NEW link \in DOMAIN ShownState, LinkChanges(j, link) PROVE ScreenInv'
  <2> DEFINE chain == [join[j] EXCEPT !.link = link, !.mic = @ /\ link # "lost"]
  <2>1. chain.link = link /\ chain.pc = join[j].pc /\ chain.canPublish = join[j].canPublish
    BY <1>1 DEF Chain
  <2>2. join' = [join EXCEPT ![j] = chain]
    BY <1>5 DEF LinkChanges
  <2> HIDE DEF chain
  <2>3. DOMAIN join' = DOMAIN join /\ join'[j] = chain /\ \A i \in DOMAIN join : i # j => join'[i] = join[i]
    BY <2>2
  <2>4. call' = IF call # NoCall THEN [call EXCEPT !.state = ShownState[link]] ELSE NoCall
    BY <1>2, <1>5 DEF LinkChanges, IfCurrent
  <2>5. call' # NoCall => call'.canPublish = call.canPublish /\ call # NoCall
    BY <1>4, <2>4 DEF Call
  <2>6. call'.state = "connected" => link = "live"
    BY <1>4, <1>5, <2>4 DEF Call, NoCall, ShownState
  <2>7. ConnectedIsHeld'
    BY <1>2, <2>1, <2>3, <2>6 DEF ConnectedIsHeld
  <2>8. RightsAreShown'
    BY <1>2, <1>4, <2>1, <2>3, <2>5 DEF RightsAreShown
  <2>9. WaitsOutside'
    BY <1>3, <2>1, <2>3 DEF ScreenInv, WaitsOutside
  <2> QED
    BY <2>7, <2>8, <2>9 DEF ScreenInv
<1>6. ASSUME NEW canPublish \in BOOLEAN, Permission(j, canPublish) PROVE ScreenInv'
  <2> DEFINE chain == [join[j] EXCEPT !.canPublish = canPublish]
  <2>1. chain.link = join[j].link /\ chain.pc = join[j].pc /\ chain.canPublish = canPublish
    BY <1>1 DEF Chain
  <2>2. join' = [join EXCEPT ![j] = chain]
    BY <1>6 DEF Permission
  <2> HIDE DEF chain
  <2>3. DOMAIN join' = DOMAIN join /\ join'[j] = chain /\ \A i \in DOMAIN join : i # j => join'[i] = join[i]
    BY <2>2
  <2>4. call' = IF call # NoCall THEN [call EXCEPT !.canPublish = canPublish] ELSE NoCall
    BY <1>2, <1>6 DEF Permission, IfCurrent
  <2>5. call'.state = call.state /\ (call' # NoCall => call'.canPublish = canPublish)
    BY <1>4, <2>4 DEF Call
  <2>6. NoneFailed' => NoneFailed
    BY <1>2, <2>1, <2>3 DEF NoneFailed
  <2>7. ConnectedIsHeld => ConnectedIsHeld'
    BY <1>2, <2>1, <2>3, <2>5 DEF ConnectedIsHeld
  <2>8. RightsAreShown'
    BY <1>2, <2>1, <2>3, <2>5 DEF RightsAreShown
  <2>9. WaitsOutside'
    BY <1>3, <2>1, <2>3 DEF ScreenInv, WaitsOutside
  <2> QED
    BY <2>6, <2>7, <2>8, <2>9 DEF ScreenInv
<1> QED
  BY <1>5, <1>6

\* The microphone is another matter.
LEMMA ScreenMicStep ==
    ASSUME CallInv, OpsOfJoins, ScreenInv,
           \/ Toggle \/ \E i \in DOMAIN ops : Device(i)
           \/ \E j \in DOMAIN join : Unpublished(j) \/ ParticipantsChange(j)
    PROVE  ScreenInv'
<1> USE DEF CallInv
<1>1. call \in Call \cup {NoCall} /\ \A j \in DOMAIN join : join[j] \in Chain
  BY DEF TypeOK
<1>2. UNCHANGED <<latest, session>>
  BY DEF Toggle, Device, Unpublished, ParticipantsChange
<1>3. /\ DOMAIN join' = DOMAIN join
      /\ \A j \in DOMAIN join : /\ join'[j].pc = join[j].pc /\ join'[j].link = join[j].link
                                /\ join'[j].canPublish = join[j].canPublish
  <2> DEFINE Changed(k, mic, ended) == [join EXCEPT ![k] = [@ EXCEPT !.mic = mic, !.ended = ended]]
  <2>1. CASE join' = join
    BY <2>1
  <2>2. ASSUME NEW k \in DOMAIN join, NEW mic \in BOOLEAN, NEW ended \in BOOLEAN,
               join' = Changed(k, mic, ended)
        PROVE  /\ DOMAIN join' = DOMAIN join
               /\ \A j \in DOMAIN join : /\ join'[j].pc = join[j].pc /\ join'[j].link = join[j].link
                                         /\ join'[j].canPublish = join[j].canPublish
    BY <1>1, <2>2 DEF Chain
  <2>3. ASSUME NEW i \in DOMAIN ops, Device(i)
        PROVE  \/ join' = join
               \/ \E k \in DOMAIN join : \E mic, ended \in BOOLEAN : join' = Changed(k, mic, ended)
    <3> DEFINE mic == ops[i].value /\ join[ops[i].join].link \in {"live", "reconnecting"}
    <3>1. ops[i].join \in DOMAIN join /\ ops[i] \in Op
      BY DEF OpsOfJoins, TypeOK
    <3>2. mic \in BOOLEAN
      BY <3>1 DEF Op
    <3>3. join' = join \/ join' = Changed(ops[i].join, mic, FALSE)
      BY <2>3 DEF Device
    <3> HIDE DEF mic
    <3> QED
      BY <3>1, <3>2, <3>3
  <2>4. Toggle => join' = join
    BY DEF Toggle
  <2>5. ASSUME NEW k \in DOMAIN join, Unpublished(k) \/ ParticipantsChange(k)
        PROVE  \E mic, ended \in BOOLEAN : join' = Changed(k, mic, ended)
    <3>1. join[k] \in Chain /\ join[k].mic \in BOOLEAN
      BY <1>1 DEF Chain
    <3>2. CASE Unpublished(k)
      <4>1. join' = Changed(k, FALSE, TRUE)
        BY <3>2 DEF Unpublished
      <4> QED
        BY <4>1
    <3>3. CASE ParticipantsChange(k)
      <4>1. join' = [join EXCEPT ![k].ended = FALSE]
        BY <3>3 DEF ParticipantsChange
      <4>2. [join[k] EXCEPT !.ended = FALSE] = [join[k] EXCEPT !.mic = join[k].mic, !.ended = FALSE]
        BY <3>1 DEF Chain
      <4>3. join' = Changed(k, join[k].mic, FALSE)
        BY <4>1, <4>2
      <4> QED
        BY <3>1, <4>3
    <3> QED
      BY <2>5, <3>2, <3>3
  <2>6. \/ join' = join
        \/ \E k \in DOMAIN join : \E mic, ended \in BOOLEAN : join' = Changed(k, mic, ended)
    BY <2>3, <2>4, <2>5
  <2> HIDE DEF Changed
  <2> QED
    BY <2>1, <2>2, <2>6
<1>4. \E mic \in BOOLEAN : call' = call \/ (call # NoCall /\ call' = [call EXCEPT !.mic = mic])
  <2>1. CASE Toggle
    BY <2>1 DEF Toggle, NoCall
  <2>2. ASSUME NEW i \in DOMAIN ops, Device(i)
        PROVE  \E mic \in BOOLEAN : call' = call \/ (call # NoCall /\ call' = [call EXCEPT !.mic = mic])
    <3> DEFINE a == ops[i].value /\ join[ops[i].join].link \in {"live", "reconnecting"}
               b == ~ops[i].value
    <3>1. ops[i].value \in BOOLEAN
      <4>1. ops[i] \in Op
        BY DEF TypeOK
      <4> QED
        BY <4>1 DEF Op
    <3>2. a \in BOOLEAN /\ b \in BOOLEAN
      BY <3>1
    <3>3. call' = Synced(ops[i].join, a) \/ call' = Reverted(i)
      BY <2>2 DEF Device
    <3>4. \/ call' = call
          \/ call # NoCall /\ call' = [call EXCEPT !.mic = a]
          \/ call # NoCall /\ call' = [call EXCEPT !.mic = b]
      BY <3>3 DEF Synced, IfCurrent, Reverted
    <3> HIDE DEF a, b
    <3> QED
      BY <3>2, <3>4
  <2>3. ASSUME NEW j \in DOMAIN join, Unpublished(j) \/ ParticipantsChange(j)
        PROVE  \E mic \in BOOLEAN : call' = call \/ (call # NoCall /\ call' = [call EXCEPT !.mic = mic])
    <3>1. join[j].mic \in BOOLEAN
      BY <1>1 DEF Chain
    <3> QED
      BY <2>3, <3>1 DEF Unpublished, ParticipantsChange, Synced, IfCurrent
  <2> QED
    BY <2>1, <2>2, <2>3
<1>5. /\ call = NoCall => call' = NoCall
      /\ call # NoCall => call'.state = call.state /\ call'.canPublish = call.canPublish
  BY <1>1, <1>4 DEF Call
<1> QED
  BY <1>2, <1>3, <1>5, ScreenUntouched

\* The invariant of the screen holds in every state.
LEMMA ScreenInvariant == Spec => []ScreenInv
<1>1. Init => ScreenInv
  BY DEF Init, NoCall, ScreenInv, ConnectedIsHeld, RightsAreShown, WaitsOutside
<1>2. CallInv /\ OpsOfJoins /\ ScreenInv /\ [Next]_vars => ScreenInv'
  <2> SUFFICES ASSUME CallInv, OpsOfJoins, ScreenInv, [Next]_vars PROVE ScreenInv'
    OBVIOUS
  <2>1. ASSUME NEW j \in DOMAIN join, Intent(j) \/ Token(j) \/ Connect(j) PROVE ScreenInv'
    BY <2>1, ScreenFailStep, ScreenChainStep, ScreenConnectStep
  <2>2. CASE UNCHANGED vars
    BY <2>2, ScreenUntouched DEF vars
  <2> QED
    BY <2>1, <2>2, ScreenJoinStep, ScreenReportStep, ScreenMicStep DEF Next
<1> QED
  BY <1>1, <1>2, CallInvariant, PTL DEF Spec

\* As long as no chain that was overtaken has failed, a call that is shown
\* connected is connected, with the rights the server last told of.
THEOREM WhatIsShownIsLive == Spec => []ShownIsLiveUnlessJoinFailed
<1>1. CallInv /\ ScreenInv => ShownIsLiveUnlessJoinFailed
  <2> SUFFICES ASSUME CallInv, ScreenInv, NoneFailed, call.state = "connected" PROVE IsLive
    BY DEF ShownIsLiveUnlessJoinFailed, NoneFailed
  <2>1. latest \in DOMAIN join /\ session = latest /\ join[latest].link = "live"
    BY DEF ScreenInv, ConnectedIsHeld
  <2>2. call # NoCall /\ latest # 0
    BY <2>1 DEF NoCall, CallInv, TypeOK
  <2> QED
    BY <2>1, <2>2 DEF IsLive, ScreenInv, RightsAreShown
<1> QED
  BY <1>1, CallInvariant, ScreenInvariant, PTL
-----------------------------------------------------------------------------
(* The microphone. *)

IsOpen(link) == link \in {"live", "reconnecting"}

\* While no device has failed: what is shown of the microphone in the newest
\* chain's room is so, but for the operations on it that are under way and for
\* an end of it that was not shown yet.
MicIsShown ==
    /\ \A i \in DOMAIN ops : ops[i].pc # "failed"
    /\ \A i \in DOMAIN ops : ops[i].join = latest => ops[i].pc = "done"
    /\ latest \in DOMAIN join /\ IsOpen(join[latest].link) /\ call # NoCall
    => call.mic = join[latest].mic \/ join[latest].ended

\* Nobody is heard in a room that was never connected.
OutsideIsMute == \A j \in DOMAIN join : join[j].link = "none" => join[j].mic = FALSE

MicInv == MicIsShown /\ OutsideIsMute

\* Disconnecting turns no other chain's microphone on.
LEMMA DisconnectedMics ==
    ASSUME TypeOK
    PROVE  \A j \in DOMAIN join : Disconnected[j].link = "none" =>
             join[j].link = "none" /\ Disconnected[j].mic = join[j].mic
<1>1. \A j \in DOMAIN join : join[j] \in Chain
  BY DEF TypeOK
<1> QED
  BY <1>1 DEF Disconnected, Chain

\* After a join, a leave or a failure no room is open.
LEMMA MicClosedStep ==
    ASSUME CallInv, MicInv,
           \/ Leave \/ \E place \in Places, signer \in BOOLEAN : Join(place, signer)
           \/ \E j \in DOMAIN join : Fail(j)
    PROVE  MicInv'
<1> USE DEF CallInv
<1> DEFINE D == Disconnected
<1>1. /\ DOMAIN D = DOMAIN join /\ latest + 1 \notin DOMAIN join
      /\ \A i \in DOMAIN join : /\ D[i] \in Chain /\ ~IsOpen(D[i].link)
                                /\ D[i].link = "none" => D[i].mic = FALSE
  BY DisconnectedRooms, DisconnectedMics DEF TypeOK, MicInv, OutsideIsMute, IsOpen
<1>2. \A i \in DOMAIN join' : ~IsOpen(join'[i].link) /\ (join'[i].link = "none" => join'[i].mic = FALSE)
  <2>1. CASE Leave
    <3>1. join' = D
      BY <2>1 DEF Leave
    <3> QED
      BY <1>1, <3>1
  <2>2. ASSUME NEW place \in Places, NEW signer \in BOOLEAN, Join(place, signer)
        PROVE  \A i \in DOMAIN join' : ~IsOpen(join'[i].link) /\ (join'[i].link = "none" => join'[i].mic = FALSE)
    <3> DEFINE chain == [pc |-> "intent", place |-> place, signer |-> signer, link |-> "none",
                         canPublish |-> FALSE, mic |-> FALSE, ended |-> FALSE]
    <3>1. join' = Extend(D, latest + 1, chain)
      BY <2>2 DEF Join
    <3>2. ~IsOpen(chain.link) /\ chain.mic = FALSE
      BY DEF IsOpen
    <3> HIDE DEF chain, D
    <3> QED
      BY <1>1, <3>1, <3>2 DEF Extend
  <2>3. ASSUME NEW j \in DOMAIN join, Fail(j)
        PROVE  \A i \in DOMAIN join' : ~IsOpen(join'[i].link) /\ (join'[i].link = "none" => join'[i].mic = FALSE)
    <3> DEFINE chain == [D[j] EXCEPT !.pc = "failed"]
    <3>1. chain.link = D[j].link /\ chain.mic = D[j].mic
      BY <1>1 DEF Chain
    <3>2. join' = [D EXCEPT ![j] = chain]
      BY <2>3 DEF Fail
    <3> HIDE DEF chain, D
    <3> QED
      BY <1>1, <3>1, <3>2
  <2> QED
    BY <2>1, <2>2, <2>3
<1> QED
  BY <1>2 DEF MicInv, MicIsShown, OutsideIsMute

\* A chain on its way changes what is shown only if it is the newest, which is
\* in no room.
LEMMA MicChainStep ==
    ASSUME CallInv, ScreenInv, MicInv, NEW j \in DOMAIN join, Intent(j) \/ Token(j), ~Fail(j)
    PROVE  MicInv'
<1> USE DEF CallInv
<1>1. join[j] \in Chain /\ join[j].link = "none" /\ join[j].mic = FALSE
  BY DEF TypeOK, Intent, Token, ScreenInv, WaitsOutside, MicInv, OutsideIsMute
<1>2. PICK chain : join' = [join EXCEPT ![j] = chain] /\ chain.link = "none" /\ chain.mic = FALSE
  <2>1. CASE Intent(j)
    <3> DEFINE c == [join[j] EXCEPT !.pc = IF join[j].signer THEN "token" ELSE "done"]
    <3>1. c.link = "none" /\ c.mic = FALSE /\ join' = [join EXCEPT ![j] = c]
      BY <1>1, <2>1 DEF Chain, Intent
    <3> HIDE DEF c
    <3> QED
      BY <3>1
  <2>2. CASE Token(j)
    <3>1. PICK canPublish \in BOOLEAN :
            join' = [join EXCEPT ![j].pc = "connect", ![j].canPublish = canPublish]
      BY <2>2 DEF Token
    <3> DEFINE c == [join[j] EXCEPT !.pc = "connect", !.canPublish = canPublish]
    <3>2. c.link = "none" /\ c.mic = FALSE /\ join' = [join EXCEPT ![j] = c]
      BY <1>1, <3>1 DEF Chain
    <3> HIDE DEF c
    <3> QED
      BY <3>2
  <2> QED
    BY <2>1, <2>2
<1>3. UNCHANGED <<latest, ops>> /\ (j # latest => call' = call)
  BY DEF Intent, Token, IfCurrent
<1>4. DOMAIN join' = DOMAIN join /\ join'[j] = chain /\ \A i \in DOMAIN join : i # j => join'[i] = join[i]
  BY <1>2
<1>5. OutsideIsMute'
  BY <1>2, <1>4 DEF MicInv, OutsideIsMute
<1>6. MicIsShown'
  <2>1. CASE j = latest
    BY <1>2, <1>3, <1>4, <2>1 DEF MicIsShown, IsOpen
  <2>2. CASE j # latest
    BY <1>3, <1>4, <2>2 DEF MicInv, MicIsShown
  <2> QED
    BY <2>1, <2>2
<1> QED
  BY <1>5, <1>6 DEF MicInv

\* A room is entered with the microphone off, and shown so.
LEMMA MicConnectStep ==
    ASSUME CallInv, ScreenInv, MicInv, NEW j \in DOMAIN join, Connect(j), ~Fail(j)
    PROVE  MicInv'
<1> USE DEF CallInv
<1> DEFINE chain == [join[j] EXCEPT !.pc = "done", !.link = IF j = latest THEN "live" ELSE "closed"]
           op == [join |-> j, value |-> TRUE, setup |-> TRUE, pc |-> "pending"]
<1>1. join[j] \in Chain /\ join[j].pc = "connect" /\ call \in Call \cup {NoCall} /\ ops \in Seq(Op)
  BY DEF TypeOK, Connect
<1>2. join[j].mic = FALSE
  BY <1>1 DEF ScreenInv, WaitsOutside, MicInv, OutsideIsMute
<1>3. /\ chain.link = (IF j = latest THEN "live" ELSE "closed")
      /\ chain.mic = FALSE
  BY <1>1, <1>2 DEF Chain
<1>4. /\ join' = [join EXCEPT ![j] = chain] /\ latest' = latest
      /\ call' = IfCurrent(j, [call EXCEPT !.state = "connected", !.mic = FALSE])
      /\ ops' = ops \/ (j = latest /\ ops' = Append(ops, op))
  BY DEF Connect, Adopts
<1> HIDE DEF chain, op
<1>5. DOMAIN join' = DOMAIN join /\ join'[j] = chain /\ \A i \in DOMAIN join : i # j => join'[i] = join[i]
  BY <1>4
<1>6. OutsideIsMute'
  BY <1>3, <1>5 DEF MicInv, OutsideIsMute
<1>7. MicIsShown'
  <2>1. CASE j = latest
    <3>1. call \in Call
      BY <1>1, <2>1 DEF ConnectingIsShown
    <3>2. call'.mic = FALSE
      BY <1>4, <2>1, <3>1 DEF IfCurrent, Call
    <3> QED
      BY <1>3, <1>4, <1>5, <2>1, <3>2 DEF MicIsShown
  <2>2. CASE j # latest
    BY <1>4, <1>5, <2>2 DEF MicInv, MicIsShown, IfCurrent
  <2> QED
    BY <2>1, <2>2
<1> QED
  BY <1>6, <1>7 DEF MicInv

\* LiveKit's reports leave the microphone as it is, or the room is lost.
LEMMA MicReportStep ==
    ASSUME CallInv, MicInv, NEW j \in DOMAIN join,
           \/ \E link \in DOMAIN ShownState : LinkChanges(j, link)
           \/ \E canPublish \in BOOLEAN : Permission(j, canPublish)
    PROVE  MicInv'
<1> USE DEF CallInv
<1>1. join[j] \in Chain /\ call \in Call \cup {NoCall} /\ IsOpen(join[j].link)
  BY DEF TypeOK, LinkChanges, Permission, IsOpen
<1>2. UNCHANGED <<latest, session, ops>> /\ j = latest
  BY <1>1 DEF LinkChanges, Permission, OnlyHeldRoomIsOpen, IsOpen
<1>3. PICK chain : /\ join' = [join EXCEPT ![j] = chain] /\ chain.link # "none"
                   /\ IsOpen(chain.link) => chain.mic = join[j].mic /\ chain.ended = join[j].ended
  <2>1. ASSUME NEW link \in DOMAIN ShownState, LinkChanges(j, link)
        PROVE  \E chain : /\ join' = [join EXCEPT ![j] = chain] /\ chain.link # "none"
                          /\ IsOpen(chain.link) => chain.mic = join[j].mic /\ chain.ended = join[j].ended
    <3> DEFINE c == [join[j] EXCEPT !.link = link, !.mic = @ /\ link # "lost"]
    <3>1. join' = [join EXCEPT ![j] = c]
      BY <2>1 DEF LinkChanges
    <3>2. c.link = link /\ c.ended = join[j].ended /\ (link # "lost" => c.mic = join[j].mic)
      BY <1>1 DEF Chain
    <3>3. link # "none" /\ ~IsOpen("lost")
      BY DEF ShownState, IsOpen
    <3> HIDE DEF c
    <3> QED
      BY <3>1, <3>2, <3>3
  <2>2. ASSUME NEW canPublish \in BOOLEAN, Permission(j, canPublish)
        PROVE  \E chain : /\ join' = [join EXCEPT ![j] = chain] /\ chain.link # "none"
                          /\ IsOpen(chain.link) => chain.mic = join[j].mic /\ chain.ended = join[j].ended
    <3> DEFINE c == [join[j] EXCEPT !.canPublish = canPublish]
    <3>1. join' = [join EXCEPT ![j] = c]
      BY <2>2 DEF Permission
    <3>2. c.link = join[j].link /\ c.mic = join[j].mic /\ c.ended = join[j].ended
      BY <1>1 DEF Chain
    <3> HIDE DEF c
    <3> QED
      BY <1>1, <3>1, <3>2 DEF IsOpen
  <2> QED
    BY <2>1, <2>2
<1>4. call' # NoCall => call # NoCall /\ call'.mic = call.mic
  <2>1. \/ call' = call
        \/ /\ call # NoCall
           /\ \/ \E state : call' = [call EXCEPT !.state = state]
              \/ \E canPublish : call' = [call EXCEPT !.canPublish = canPublish]
    BY DEF LinkChanges, Permission, IfCurrent
  <2> QED
    BY <1>1, <2>1 DEF Call
<1>5. DOMAIN join' = DOMAIN join /\ join'[j] = chain /\ \A i \in DOMAIN join : i # j => join'[i] = join[i]
  BY <1>3
<1>6. OutsideIsMute'
  BY <1>3, <1>5 DEF MicInv, OutsideIsMute
<1>7. MicIsShown'
  BY <1>1, <1>2, <1>3, <1>4, <1>5 DEF MicInv, MicIsShown
<1> QED
  BY <1>6, <1>7 DEF MicInv

\* A press begins an operation on the newest chain, and its answer, in whatever
\* order, brings what is shown in line; an answer about another session
\* changes nothing that is shown.
LEMMA MicToggleStep ==
    ASSUME CallInv, MicInv, Toggle
    PROVE  MicInv'
<1> USE DEF CallInv
<1> DEFINE op == [join |-> session, value |-> ~call.mic, setup |-> FALSE, pc |-> "pending"]
<1>1. /\ UNCHANGED <<latest, session, join>> /\ ops' = Append(ops, op) /\ ops \in Seq(Op)
      /\ op.join = session /\ op.pc = "pending"
  BY DEF Toggle, TypeOK
<1> HIDE DEF op
<1>2. OutsideIsMute'
  BY <1>1 DEF MicInv, OutsideIsMute
<1>3. CASE latest = session
  <2>1. Len(ops) + 1 \in DOMAIN ops' /\ ops'[Len(ops) + 1] = op
    BY <1>1
  <2>2. MicIsShown'
    BY <1>1, <1>3, <2>1 DEF MicIsShown
  <2> QED
    BY <1>2, <2>2 DEF MicInv
<1>4. CASE latest # session
  <2>1. latest \in DOMAIN join => ~IsOpen(join[latest].link)
    BY <1>4 DEF OnlyHeldRoomIsOpen, IsOpen
  <2>2. MicIsShown'
    BY <1>1, <2>1 DEF MicIsShown
  <2> QED
    BY <1>2, <2>2 DEF MicInv
<1> QED
  BY <1>3, <1>4

LEMMA MicDeviceStep ==
    ASSUME CallInv, OpsOfJoins, MicInv, NEW i \in DOMAIN ops, Device(i)
    PROVE  MicInv'
<1> USE DEF CallInv
<1> DEFINE j == ops[i].join
           mic == ops[i].value /\ IsOpen(join[j].link)
<1>1. /\ j \in DOMAIN join /\ join[j] \in Chain /\ ops[i] \in Op /\ ops \in Seq(Op)
      /\ call \in Call \cup {NoCall} /\ UNCHANGED <<latest, session>>
  BY DEF TypeOK, OpsOfJoins, Device
<1>2. ASSUME ops' = [ops EXCEPT ![i].pc = "failed"], UNCHANGED join PROVE MicInv'
  <2>1. ops'[i].pc = "failed" /\ i \in DOMAIN ops'
    BY <1>1, <1>2 DEF Op
  <2> QED
    BY <1>2, <2>1 DEF MicInv, MicIsShown, OutsideIsMute
<1>3. ASSUME ops' = [ops EXCEPT ![i].pc = "done"],
             join' = [join EXCEPT ![j].mic = mic, ![j].ended = FALSE], call' = Synced(j, mic)
      PROVE  MicInv'
  <2> DEFINE op == [ops[i] EXCEPT !.pc = "done"]
             chain == [join[j] EXCEPT !.mic = mic, !.ended = FALSE]
  <2>1. op.join = j /\ op.pc = "done" /\ chain.link = join[j].link /\ chain.mic = mic
    BY <1>1 DEF Op, Chain
  <2>2. join[j].link = "none" => mic = FALSE
    BY DEF IsOpen
  <2>3. ops' = [ops EXCEPT ![i] = op] /\ join' = [join EXCEPT ![j] = chain]
    BY <1>3
  <2> HIDE DEF op, chain, mic
  <2>4. /\ DOMAIN ops' = DOMAIN ops /\ ops'[i] = op /\ DOMAIN join' = DOMAIN join /\ join'[j] = chain
        /\ \A k \in DOMAIN ops : k # i => ops'[k] = ops[k]
        /\ \A k \in DOMAIN join : k # j => join'[k] = join[k]
    BY <1>1, <2>3
  <2>5. OutsideIsMute'
    BY <2>1, <2>2, <2>4 DEF MicInv, OutsideIsMute
  <2>6. CASE j = latest
    <3>1. call' # NoCall => call'.mic = mic
      BY <1>1, <1>3, <2>6 DEF Synced, IfCurrent, Call
    <3>2. MicIsShown'
      BY <1>1, <2>1, <2>4, <2>6, <3>1 DEF MicIsShown
    <3> QED
      BY <2>5, <3>2 DEF MicInv
  <2>7. CASE j # latest
    <3>1. call' = call
      BY <1>3, <2>7 DEF Synced, IfCurrent
    <3>2. \A k \in DOMAIN ops : ops'[k].join = ops[k].join
      BY <2>1, <2>4
    <3>3. (\A k \in DOMAIN ops : ops'[k].pc # "failed") => \A k \in DOMAIN ops : ops[k].pc # "failed"
      <4>1. ops[i].pc = "pending"
        BY DEF Device, IsNext
      <4> QED
        BY <2>4, <4>1
    <3>4. (\A k \in DOMAIN ops : ops'[k].join = latest => ops'[k].pc = "done")
            => \A k \in DOMAIN ops : ops[k].join = latest => ops[k].pc = "done"
      BY <2>4, <2>7, <3>2
    <3>5. MicIsShown'
      BY <1>1, <2>4, <2>7, <3>1, <3>3, <3>4 DEF MicInv, MicIsShown
    <3> QED
      BY <2>5, <3>5 DEF MicInv
  <2> QED
    BY <2>6, <2>7
<1> QED
  BY <1>2, <1>3 DEF Device, IsOpen

\* The end of a microphone is noted until the participants are shown, and
\* shows the microphone as it is.
LEMMA MicParticipantsStep ==
    ASSUME CallInv, MicInv, NEW j \in DOMAIN join, Unpublished(j) \/ ParticipantsChange(j)
    PROVE  MicInv'
<1> USE DEF CallInv
<1>1. join[j] \in Chain /\ call \in Call \cup {NoCall} /\ IsOpen(join[j].link)
  BY DEF TypeOK, Unpublished, ParticipantsChange, IsOpen
<1>2. UNCHANGED <<latest, session, ops>> /\ j = latest
  BY <1>1 DEF Unpublished, ParticipantsChange, OnlyHeldRoomIsOpen, IsOpen
<1>3. PICK chain : /\ join' = [join EXCEPT ![j] = chain] /\ chain.link # "none"
                   /\ call' # NoCall => call'.mic = chain.mic \/ chain.ended
  <2>1. CASE Unpublished(j)
    <3> DEFINE c == [join[j] EXCEPT !.mic = FALSE, !.ended = TRUE]
    <3>1. join' = [join EXCEPT ![j] = c] /\ c.link # "none" /\ c.ended
      BY <1>1, <2>1 DEF Unpublished, Chain, IsOpen
    <3> HIDE DEF c
    <3> QED
      BY <3>1
  <2>2. CASE ParticipantsChange(j)
    <3> DEFINE c == [join[j] EXCEPT !.ended = FALSE]
    <3>1. join' = [join EXCEPT ![j] = c] /\ c.link # "none" /\ c.mic = join[j].mic
      BY <1>1, <2>2 DEF ParticipantsChange, Chain, IsOpen
    <3>2. call' # NoCall => call'.mic = join[j].mic
      BY <1>1, <1>2, <2>2 DEF ParticipantsChange, Synced, IfCurrent, Call
    <3> HIDE DEF c
    <3> QED
      BY <3>1, <3>2
  <2> QED
    BY <2>1, <2>2
<1>4. DOMAIN join' = DOMAIN join /\ join'[j] = chain /\ \A i \in DOMAIN join : i # j => join'[i] = join[i]
  BY <1>3
<1>5. OutsideIsMute'
  BY <1>3, <1>4 DEF MicInv, OutsideIsMute
<1>6. MicIsShown'
  BY <1>2, <1>3, <1>4 DEF MicIsShown
<1> QED
  BY <1>5, <1>6 DEF MicInv

\* The invariant of the microphone holds in every state.
LEMMA MicInvariant == Spec => []MicInv
<1>1. Init => MicInv
  BY DEF Init, MicInv, MicIsShown, OutsideIsMute
<1>2. CallInv /\ OpsOfJoins /\ ScreenInv /\ MicInv /\ [Next]_vars => MicInv'
  <2> SUFFICES ASSUME CallInv, OpsOfJoins, ScreenInv, MicInv, [Next]_vars PROVE MicInv'
    OBVIOUS
  <2>1. ASSUME NEW j \in DOMAIN join, Intent(j) \/ Token(j) \/ Connect(j) PROVE MicInv'
    BY <2>1, MicClosedStep, MicChainStep, MicConnectStep
  <2>2. CASE UNCHANGED vars
    BY <2>2 DEF vars, MicInv, MicIsShown, OutsideIsMute
  <2> QED
    BY <2>1, <2>2, MicClosedStep, MicReportStep, MicToggleStep, MicDeviceStep,
       MicParticipantsStep DEF Next
<1> QED
  BY <1>1, <1>2, CallInvariant, ScreenInvariant, PTL DEF Spec

\* Once the devices have answered every operation and none has failed, what is
\* shown of the microphone of a live call is so, for every number of joins and
\* toggles and whatever order their answers came in, unless the server has ended
\* it and the participants were not shown since.
THEOREM TheShownMicIsTheMic == Spec => []ShownMicIsMic
<1>1. CallInv /\ MicInv => ShownMicIsMic
  <2> SUFFICES ASSUME CallInv, MicInv, \A i \in DOMAIN ops : ops[i].pc = "done",
                      call.state = "connected", IsLive
               PROVE  call.mic = join[session].mic \/ join[session].ended
    BY DEF ShownMicIsMic
  <2>1. session \in DOMAIN join /\ join[session].link = "live"
    BY DEF IsLive, CallInv, SessionIsAJoin
  <2>2. session = latest
    BY <2>1 DEF CallInv, OnlyHeldRoomIsOpen
  <2>3. call # NoCall
    BY DEF NoCall
  <2> QED
    BY <2>1, <2>2, <2>3 DEF MicInv, MicIsShown, IsOpen
<1> QED
  BY <1>1, CallInvariant, MicInvariant, PTL

-----------------------------------------------------------------------------
(* What may be in the lists, as long as the Concierge has not restarted: an *)
(* id is that of one note.                                                  *)

NoteTypes ==
    /\ posted \in 0..MaxPosts /\ nextID \in Nat /\ boots \in Nat
    /\ publish \in [Posts -> {"none", "sent", "stored", "done", "failed"}]
    /\ relay \subseteq 1..posted /\ pull.got \subseteq 1..posted
    /\ \A p \in Posts : publish[p] # "none" => p <= posted

IsSaved(p) == save[p].note # NoNote
SavedNote(p) ==
    /\ save[p].note \in [id: [src: {"server"}, n: 1..nextID], post: {p}, late: BOOLEAN]
    /\ p <= posted
    /\ save[p].pc \in {"saved", "done", "failed"}
SaveTypes ==
    save \in [Posts -> [pc: {"none", "sent", "saved", "done", "failed"},
                        note: [id: [src: {"server"}, n: Nat], post: Nat, late: BOOLEAN]]]
\* The service has given every id to one post, and to every post one.
SavesOK ==
    /\ SaveTypes
    /\ \A p \in Posts : save[p].pc # "none" => p <= posted
    /\ \A p \in Posts : IsSaved(p) => SavedNote(p)
    /\ \A p \in Posts : save[p].pc \in {"saved", "done"} => IsSaved(p)
    /\ \A p, q \in Posts : IsSaved(p) /\ IsSaved(q) /\ save[p].note.id = save[q].note.id => p = q

ServerNotes == {save[p].note : p \in {q \in Posts : IsSaved(q)}}
KnownNotes ==
    {LocalNote(p) : p \in 1..posted} \cup {RelayNote(p) : p \in 1..posted} \cup ServerNotes
NotesKnown ==
    /\ served \subseteq ServerNotes /\ fetch.got \subseteq ServerNotes
    /\ DOMAIN shown \subseteq KnownNotes

\* What ShownOnce says of a list.
Once(notes) ==
    \A n, m \in DOMAIN notes : n.post = m.post => n.late \/ m.late \/ (n = m /\ notes[n] = 1)

NoteInv == NoteTypes /\ (boots = 0 => SavesOK /\ NotesKnown /\ Once(shown))

\* No post is gone from the list, nor its event id.
Stays(notes, next) ==
    \A n \in DOMAIN notes :
        \E m \in DOMAIN next : m.post = n.post /\ (IsRelayBacked(n) => IsRelayBacked(m))

-----------------------------------------------------------------------------
(* Bags of notes. *)

LEMMA WithStep ==
    ASSUME NEW notes, Once(notes), NEW note,
           \A n \in DOMAIN notes : n.post = note.post => n.late \/ note.late
    PROVE  DOMAIN With(notes, note) = DOMAIN notes \cup {note} /\ Once(With(notes, note))
<1> DEFINE w == With(notes, note)
<1>1. /\ DOMAIN w = DOMAIN notes \cup {note}
      /\ \A n \in DOMAIN w : w[n] = (IF n \in DOMAIN notes THEN notes[n] ELSE 0)
                                     + (IF n \in {note} THEN 1 ELSE 0)
  BY DEF With, (+), SetToBag
<1> HIDE DEF w
<1>2. ASSUME NEW n \in DOMAIN w, NEW m \in DOMAIN w, n.post = m.post, ~n.late, ~m.late
      PROVE  n = m /\ w[n] = 1
  <2>1. CASE n \in DOMAIN notes /\ m \in DOMAIN notes
    <3>1. n = m /\ notes[n] = 1 /\ n # note
      BY <1>2, <2>1 DEF Once
    <3> QED
      BY <1>1, <2>1, <3>1
  <2>2. CASE n = note /\ n \notin DOMAIN notes
    <3>1. m = note
      BY <1>1, <1>2, <2>2
    <3> QED
      BY <1>1, <2>2, <3>1
  <2>3. CASE m = note /\ n \in DOMAIN notes
    BY <1>2, <2>3
  <2> QED
    BY <1>1, <2>1, <2>2, <2>3
<1>3. Once(w)
  BY <1>2 DEF Once
<1> QED
  BY <1>1, <1>3 DEF w

LEMMA WithoutStep ==
    ASSUME NEW notes, Once(notes), NEW id
    PROVE  /\ DOMAIN Without(notes, id) = {n \in DOMAIN notes : n.id # id}
           /\ Once(Without(notes, id))
BY DEF Without, Once

LEMMA SetStep ==
    ASSUME NEW S, \A n, m \in S : n.post = m.post => n.late \/ m.late \/ n = m
    PROVE  DOMAIN SetToBag(S) = S /\ Once(SetToBag(S))
BY DEF SetToBag, Once

-----------------------------------------------------------------------------
(* The notes there are. *)

LEMMA KnownNote ==
    ASSUME NoteTypes, SavesOK, NEW n \in KnownNotes
    PROVE  /\ n.post \in Posts /\ n.late \in BOOLEAN
           /\ n.id.src = "local" => n = LocalNote(n.post) /\ ~n.late
           /\ n.id.src = "relay" => n = RelayNote(n.post) /\ ~n.late
           /\ n.id.src \notin {"local", "relay"} =>
                n = save[n.post].note /\ n \in ServerNotes /\ n.id.src = "server" /\ IsSaved(n.post)
           /\ n.post <= posted
<1>1. CASE \E p \in 1..posted : n = LocalNote(p) \/ n = RelayNote(p)
  <2>1. PICK p \in 1..posted : n = LocalNote(p) \/ n = RelayNote(p)
    BY <1>1
  <2>2. p \in Posts /\ p <= posted /\ n.post = p /\ n.late = FALSE
    BY <2>1, NoteAssumption DEF LocalNote, RelayNote, NoteTypes, Posts
  <2>3. \/ n.id.src = "local" /\ n = LocalNote(p)
        \/ n.id.src = "relay" /\ n = RelayNote(p)
    BY <2>1 DEF LocalNote, RelayNote
  <2> QED
    BY <2>2, <2>3
<1>2. CASE n \in ServerNotes
  <2>1. PICK p \in Posts : IsSaved(p) /\ n = save[p].note
    BY <1>2 DEF ServerNotes
  <2>2. n \in [id: [src: {"server"}, n: 1..nextID], post: {p}, late: BOOLEAN] /\ p <= posted
    BY <2>1 DEF SavesOK, SavedNote
  <2> QED
    BY <1>2, <2>1, <2>2
<1> QED
  BY <1>1, <1>2 DEF KnownNotes

\* An id is that of one note.
LEMMA KnownById ==
    ASSUME NoteTypes, SavesOK, NEW n \in KnownNotes, NEW m \in KnownNotes, n.id = m.id
    PROVE  n = m
<1>1. CASE n.id.src \in {"local", "relay"}
  <2>1. n.post = n.id.n /\ m.post = m.id.n
    BY <1>1, KnownNote DEF LocalNote, RelayNote
  <2> QED
    BY <1>1, <2>1, KnownNote
<1>2. CASE n.id.src \notin {"local", "relay"}
  BY <1>2, KnownNote DEF SavesOK
<1> QED
  BY <1>1, <1>2

LEMMA NotesOfPost ==
    ASSUME NoteTypes, NEW p \in 1..posted
    PROVE  /\ LocalNote(p) \in KnownNotes /\ RelayNote(p) \in KnownNotes
           /\ LocalNote(p).post = p /\ ~LocalNote(p).late /\ ~IsRelayBacked(LocalNote(p))
           /\ RelayNote(p).post = p /\ ~RelayNote(p).late /\ IsRelayBacked(RelayNote(p))
           /\ p \in Posts
<1>1. p \in Posts
  BY NoteAssumption DEF NoteTypes, Posts
<1>2. LocalNote(p) \in KnownNotes /\ RelayNote(p) \in KnownNotes
  BY DEF KnownNotes
<1> QED
  BY <1>1, <1>2 DEF LocalNote, RelayNote, IsRelayBacked

\* A note of a post that was saved.
LEMMA NoteSaved ==
    ASSUME NoteTypes, SavesOK, NEW p \in Posts, IsSaved(p)
    PROVE  /\ save[p].note \in ServerNotes /\ save[p].note \in KnownNotes
           /\ save[p].note.post = p /\ save[p].note.late \in BOOLEAN
           /\ ~IsRelayBacked(save[p].note) /\ p \in 1..posted
<1>1. /\ save[p].note \in [id: [src: {"server"}, n: 1..nextID], post: {p}, late: BOOLEAN]
      /\ p <= posted
  BY DEF SavesOK, SavedNote
<1> QED
  BY <1>1 DEF ServerNotes, KnownNotes, IsRelayBacked, Posts

\* What is known stays known.
LEMMA KnownGrows ==
    ASSUME NoteTypes, NoteTypes', posted <= posted',
           \A p \in Posts : IsSaved(p) => save'[p].note = save[p].note
    PROVE  KnownNotes \subseteq KnownNotes' /\ ServerNotes \subseteq ServerNotes'
<1>1. ServerNotes \subseteq ServerNotes'
  BY DEF ServerNotes, IsSaved
<1>2. 1..posted \subseteq 1..posted'
  BY DEF NoteTypes
<1> QED
  BY <1>1, <1>2 DEF KnownNotes
-----------------------------------------------------------------------------
(* The rules by which the list is rewritten: of known notes, each post once *)
(* and none gone, they make such a list again.                              *)

GoodList(notes) == DOMAIN notes \subseteq KnownNotes /\ Once(notes)

\* One note takes the place of another of its post.
LEMMA InPlaceStep ==
    ASSUME NoteTypes, SavesOK, NEW notes, GoodList(notes), NEW old \in DOMAIN notes,
           NEW note \in KnownNotes, note.post = old.post, note.late = old.late \/ note.late,
           IsRelayBacked(old) => IsRelayBacked(note)
    PROVE  LET r == With(Without(notes, old.id), note) IN GoodList(r) /\ Stays(notes, r)
<1> DEFINE w == Without(notes, old.id)
           r == With(w, note)
<1>1. DOMAIN w = {n \in DOMAIN notes : n.id # old.id} /\ Once(w)
  BY WithoutStep DEF GoodList
<1>2. ASSUME NEW n \in DOMAIN w, n.post = note.post PROVE n.late \/ note.late
  <2>1. n \in DOMAIN notes /\ n # old
    BY <1>1
  <2>2. n.late \/ old.late
    BY <1>2, <2>1 DEF GoodList, Once
  <2> QED
    BY <2>2
<1> HIDE DEF w
<1>3. DOMAIN r = DOMAIN w \cup {note} /\ Once(r)
  BY <1>1, <1>2, WithStep
<1> HIDE DEF r
<1>4. DOMAIN r \subseteq KnownNotes
  BY <1>1, <1>3 DEF GoodList
<1>5. ASSUME NEW n \in DOMAIN notes
      PROVE  \E m \in DOMAIN r : m.post = n.post /\ (IsRelayBacked(n) => IsRelayBacked(m))
  <2>1. CASE n.id = old.id
    <3>1. n = old
      BY <2>1, KnownById DEF GoodList
    <3> QED
      BY <1>3, <3>1
  <2>2. CASE n.id # old.id
    BY <1>1, <1>3, <2>2
  <2> QED
    BY <2>1, <2>2
<1> QED
  BY <1>3, <1>4, <1>5 DEF GoodList, Stays, r, w

\* A note of a post the list has only late, or not at all, is put in front.
LEMMA InFrontStep ==
    ASSUME NEW notes, GoodList(notes), NEW note \in KnownNotes,
           \A n \in DOMAIN notes : n.post = note.post => n.late \/ note.late
    PROVE  GoodList(With(notes, note)) /\ Stays(notes, With(notes, note))
<1> DEFINE r == With(notes, note)
<1>1. DOMAIN r = DOMAIN notes \cup {note} /\ Once(r)
  BY WithStep DEF GoodList
<1> HIDE DEF r
<1>2. GoodList(r) /\ Stays(notes, r)
  BY <1>1 DEF GoodList, Stays
<1> QED
  BY <1>2 DEF r

LEMMA ReplaceStep ==
    ASSUME NoteTypes, SavesOK, NEW notes, GoodList(notes), NEW p \in 1..posted
    PROVE  LET r == ReplaceNote(notes, LocalNote(p), RelayNote(p))
           IN  GoodList(r) /\ Stays(notes, r)
<1> DEFINE old == LocalNote(p)
           note == RelayNote(p)
<1>1. /\ old.post = p /\ ~old.late /\ ~IsRelayBacked(old)
      /\ note \in KnownNotes /\ note.post = p /\ ~note.late
      /\ old.late = FALSE /\ note.late = FALSE
  BY NotesOfPost DEF LocalNote, RelayNote
<1> HIDE DEF old, note
<1>2. CASE old \in DOMAIN notes
  <2>1. notes[old] = 1
    BY <1>1, <1>2 DEF GoodList, Once
  <2>2. [n \in {note} |-> notes[old]] = SetToBag({note})
    BY <2>1 DEF SetToBag
  <2>3. ReplaceNote(notes, old, note) = With(Without(notes, old.id), note)
    BY <1>2, <2>2 DEF ReplaceNote, With
  <2> QED
    BY <1>1, <1>2, <2>3, InPlaceStep DEF old, note
<1>3. CASE old \notin DOMAIN notes
  <2>1. ReplaceNote(notes, old, note) = notes
    BY <1>3 DEF ReplaceNote
  <2> QED
    BY <2>1 DEF Stays, old, note
<1> QED
  BY <1>2, <1>3

LEMMA ReconcileStep ==
    ASSUME NoteTypes, SavesOK, NEW notes, GoodList(notes), NEW p \in Posts, IsSaved(p),
           NEW r \in ReconcileServerNote(notes, p, save[p].note)
    PROVE  GoodList(r) /\ Stays(notes, r)
<1> DEFINE note == save[p].note
           own  == {LocalNote(p)} \cap DOMAIN notes
           same == {n \in DOMAIN notes : Equivalent(n, note)}
           olds == IF own # {} THEN own ELSE same
           next(old) == IF IsRelayBacked(old) THEN [note EXCEPT !.id = old.id] ELSE note
<1>1. /\ note \in KnownNotes /\ note.post = p /\ note.late \in BOOLEAN
      /\ ~IsRelayBacked(note) /\ p \in 1..posted
  BY NoteSaved
<1>2. \/ olds = {} /\ r = With(notes, note)
      \/ \E old \in olds : r = With(Without(notes, old.id), next(old))
  BY DEF ReconcileServerNote, Reconciled, IsRelayBacked
<1>3. CASE olds = {} /\ r = With(notes, note)
  <2>1. ASSUME NEW n \in DOMAIN notes, n.post = note.post PROVE n.late \/ note.late
    <3>1. n.late \in BOOLEAN
      BY KnownNote DEF GoodList
    <3>2. n.late # note.late
      BY <1>3, <2>1 DEF Equivalent
    <3> QED
      BY <1>1, <3>1, <3>2
  <2> HIDE DEF note, olds
  <2> QED
    BY <1>1, <1>3, <2>1, InFrontStep
<1>4. ASSUME NEW old \in olds, r = With(Without(notes, old.id), next(old))
      PROVE  GoodList(r) /\ Stays(notes, r)
  <2>1. CASE old = LocalNote(p)
    <3>1. old \in DOMAIN notes
      BY <1>4, <2>1
    <3>2. old.post = p /\ old.late = FALSE /\ ~IsRelayBacked(old)
      BY <2>1 DEF LocalNote, IsRelayBacked
    <3>3. next(old) = note
      BY <3>2
    <3>4. note.late = old.late \/ note.late
      BY <1>1, <3>2
    <3> HIDE DEF note, olds, next
    <3> QED
      BY <1>1, <1>4, <3>1, <3>2, <3>3, <3>4, InPlaceStep
  <2>2. CASE old # LocalNote(p)
    <3>1. old \in DOMAIN notes /\ old.post = p /\ old.late = note.late
      BY <1>1, <1>4, <2>2 DEF Equivalent
    <3>2. old \in KnownNotes
      BY <3>1 DEF GoodList
    <3>3. CASE IsRelayBacked(old)
      <4>1. old = RelayNote(p) /\ ~old.late
        BY <3>1, <3>2, <3>3, KnownNote DEF IsRelayBacked
      <4>2. next(old) = old
        <5>1. note \in [id: [src: {"server"}, n: 1..nextID], post: {p}, late: BOOLEAN]
          BY DEF SavesOK, SavedNote
        <5>2. note.late = FALSE
          BY <1>1, <3>1, <4>1
        <5>3. next(old) = [note EXCEPT !.id = old.id]
          BY <3>3
        <5> HIDE DEF note, next
        <5>4. next(old) = [id |-> old.id, post |-> p, late |-> FALSE]
          BY <5>1, <5>2, <5>3
        <5> QED
          BY <4>1, <5>4 DEF RelayNote
      <4> HIDE DEF note, olds, next
      <4> QED
        BY <1>4, <3>1, <3>2, <4>2, InPlaceStep
    <3>4. CASE ~IsRelayBacked(old)
      <4>1. next(old) = note
        BY <3>4
      <4> HIDE DEF note, olds, next
      <4> QED
        BY <1>1, <1>4, <3>1, <3>4, <4>1, InPlaceStep
    <3> QED
      BY <3>3, <3>4
  <2> QED
    BY <2>1, <2>2
<1> QED
  BY <1>2, <1>3, <1>4

LEMMA MergeStep ==
    ASSUME NoteTypes, SavesOK, NEW notes, GoodList(notes), NEW events \in SUBSET (1..posted),
           NEW r \in MergeRelayNotes(notes, events)
    PROVE  GoodList(r) /\ Stays(notes, r)
<1> DEFINE new  == {p \in events : /\ ~HasId(notes, RelayNote(p).id)
                                   /\ ~HasEquivalentLocalBeaconNote(notes, RelayNote(p))}
           come == {RelayNote(p) : p \in new}
<1>1. PICK kept \in OneOfEachId(notes) : r = SetToBag(kept \cup come)
  BY DEF MergeRelayNotes
<1>2. kept = DOMAIN notes
  <2>1. ASSUME NEW n \in DOMAIN notes PROVE n \in kept
    <3>1. PICK m \in kept : m.id = n.id /\ m \in DOMAIN notes
      BY DEF OneOfEachId
    <3>2. m = n
      BY <3>1, KnownById DEF GoodList
    <3> QED
      BY <3>2
  <2> QED
    BY <2>1 DEF OneOfEachId
<1>3. ASSUME NEW n \in DOMAIN notes, NEW p \in new, n.post = p PROVE n.late
  <2>1. n \in KnownNotes
    BY DEF GoodList
  <2>2. p \in 1..posted
    OBVIOUS
  <2>3. n # RelayNote(p) /\ ~(~IsRelayBacked(n) /\ Equivalent(n, RelayNote(p)))
    BY DEF HasId, HasEquivalentLocalBeaconNote
  <2>4. n.late = FALSE => Equivalent(n, RelayNote(p))
    BY <1>3 DEF Equivalent, RelayNote
  <2>5. IsRelayBacked(n) => n = RelayNote(p)
    BY <1>3, <2>1, KnownNote DEF IsRelayBacked
  <2> QED
    BY <2>1, <2>3, <2>4, <2>5, KnownNote
<1>4. come \subseteq KnownNotes /\ \A n \in come : n.post \in new /\ n = RelayNote(n.post)
  BY NotesOfPost
<1> HIDE DEF new, come
<1>5. ASSUME NEW n \in kept \cup come, NEW m \in kept \cup come, n.post = m.post
      PROVE  n.late \/ m.late \/ n = m
  <2>1. CASE n \in kept /\ m \in kept
    BY <1>2, <1>5, <2>1 DEF GoodList, Once
  <2>2. CASE n \in come /\ m \in come
    BY <1>4, <1>5, <2>2
  <2>3. CASE n \in kept /\ m \in come
    BY <1>2, <1>3, <1>4, <1>5, <2>3
  <2>4. CASE n \in come /\ m \in kept
    BY <1>2, <1>3, <1>4, <1>5, <2>4
  <2> QED
    BY <2>1, <2>2, <2>3, <2>4
<1>6. DOMAIN r = kept \cup come /\ Once(r)
  BY <1>1, <1>5, SetStep
<1> QED
  BY <1>2, <1>4, <1>6 DEF GoodList, Stays
-----------------------------------------------------------------------------
(* The steps. *)

\* What a step has to show, if it gives the notes of the service no new content.
LEMMA KeepsInv ==
    ASSUME NoteInv, NoteTypes', boots' = boots, posted <= posted',
           boots = 0 => /\ SavesOK'
                        /\ \A p \in Posts : IsSaved(p) => save'[p].note = save[p].note
                        /\ served' \subseteq served \cup ServerNotes'
                        /\ (fetch.got)' \subseteq fetch.got \cup ServerNotes
                        /\ DOMAIN shown' \subseteq KnownNotes \cup KnownNotes'
                        /\ Once(shown')
    PROVE  NoteInv'
<1>1. CASE boots # 0
  BY <1>1 DEF NoteInv
<1>2. CASE boots = 0
  <2>1. KnownNotes \subseteq KnownNotes' /\ ServerNotes \subseteq ServerNotes'
    BY <1>2, KnownGrows DEF NoteInv
  <2>2. NotesKnown'
    BY <1>2, <2>1 DEF NoteInv, NotesKnown
  <2>3. Once(shown)'
    BY <1>2 DEF Once
  <2> QED
    BY <1>2, <2>2, <2>3 DEF NoteInv
<1> QED
  BY <1>1, <1>2

\* The calls of the service are as they were.
LEMMA QuietSaves ==
    ASSUME NoteTypes, NoteTypes', SavesOK, save' = save, nextID' = nextID, posted <= posted'
    PROVE  SavesOK' /\ \A p \in Posts : IsSaved(p) => save'[p].note = save[p].note
<1>1. \A p \in Posts : p <= posted => p <= posted'
  BY DEF NoteTypes, Posts
<1>2. \A p \in Posts : IsSaved(p)' <=> IsSaved(p)
  BY DEF IsSaved
<1>3. \A p \in Posts : SavedNote(p) => SavedNote(p)'
  BY <1>1 DEF SavedNote
<1> QED
  BY <1>1, <1>2, <1>3 DEF SavesOK, SaveTypes

\* A step that changes but the list, to known notes.
LEMMA OnListStep ==
    ASSUME NoteInv, NoteTypes', boots' = boots, posted' = posted, save' = save, nextID' = nextID,
           served' = served, (fetch.got)' \subseteq fetch.got \cup served,
           boots = 0 => GoodList(shown')
    PROVE  NoteInv'
<1>1. boots = 0 => SavesOK' /\ \A p \in Posts : IsSaved(p) => save'[p].note = save[p].note
  BY QuietSaves DEF NoteInv, NoteTypes
<1>2. boots = 0 => served \subseteq ServerNotes
  BY DEF NoteInv, NotesKnown
<1> QED
  BY <1>1, <1>2, KeepsInv DEF NoteInv, NoteTypes, GoodList

LEMMA GoodNow ==
    ASSUME NoteInv, boots = 0
    PROVE  NoteTypes /\ SavesOK /\ GoodList(shown) /\ Stays(shown, shown)
BY DEF NoteInv, NotesKnown, GoodList, Stays

LEMMA PostStep ==
    ASSUME NoteInv, NEW signer \in BOOLEAN, Post(signer)
    PROVE  NoteInv' /\ (boots = 0 => Stays(shown, shown'))
<1> DEFINE p == posted + 1
           note == LocalNote(p)
<1>1. /\ p \in Posts /\ posted' = p /\ shown' = With(shown, note)
      /\ publish' = [publish EXCEPT ![p] = IF signer THEN "sent" ELSE "none"]
      /\ save' = [save EXCEPT ![p].pc = "sent"]
      /\ relay' = relay /\ served' = served /\ nextID' = nextID /\ boots' = boots
      /\ pull' = pull /\ fetch' = fetch
  BY DEF Post
<1>2. NoteTypes'
  <2>1. posted' \in 0..MaxPosts /\ posted <= posted' /\ posted \in Nat
    BY <1>1, NoteAssumption DEF NoteInv, NoteTypes, Posts
  <2>2. relay' \subseteq 1..posted' /\ (pull.got)' \subseteq 1..posted'
    BY <1>1, <2>1 DEF NoteInv, NoteTypes
  <2>3. \A q \in Posts : publish'[q] # "none" => q <= posted'
    BY <1>1, <2>1 DEF NoteInv, NoteTypes, Posts
  <2> QED
    BY <1>1, <2>1, <2>2, <2>3 DEF NoteInv, NoteTypes
<1>3. posted <= posted'
  BY <1>1 DEF NoteInv, NoteTypes
<1>4. ASSUME boots = 0
      PROVE  /\ SavesOK' /\ \A q \in Posts : IsSaved(q) => save'[q].note = save[q].note
             /\ DOMAIN shown' \subseteq KnownNotes \cup KnownNotes'
             /\ Once(shown') /\ Stays(shown, shown')
  <2>1. NoteTypes /\ SavesOK /\ GoodList(shown)
    BY <1>4, GoodNow
  <2>2. /\ save' \in [Posts -> [pc: {"none", "sent", "saved", "done", "failed"},
                                note: [id: [src: {"server"}, n: Nat], post: Nat, late: BOOLEAN]]]
        /\ \A q \in Posts : save'[q].note = save[q].note /\ (q # p => save'[q] = save[q])
        /\ save'[p].pc = "sent"
    BY <1>1, <2>1 DEF SavesOK, SaveTypes
  <2>3. \A q \in Posts : q <= posted => q <= posted' /\ q # p
    BY <1>1, <2>1 DEF NoteTypes, Posts
  <2>4. \A q \in Posts : IsSaved(q)' <=> IsSaved(q)
    BY <2>2 DEF IsSaved
  <2>5. \A q \in Posts : IsSaved(q) => q # p /\ SavedNote(q)'
    BY <1>1, <2>1, <2>2, <2>3 DEF SavesOK, SavedNote
  <2>6. SavesOK'
    <3>1. p <= posted'
      BY <1>1, <2>1 DEF NoteTypes
    <3>2. \A q \in Posts : save'[q].pc # "none" => q <= posted'
      BY <2>1, <2>2, <2>3, <3>1 DEF SavesOK
    <3>3. \A q \in Posts : save'[q].pc \in {"saved", "done"} => IsSaved(q)'
      BY <2>1, <2>2, <2>4 DEF SavesOK
    <3> QED
      BY <2>1, <2>2, <2>4, <2>5, <3>2, <3>3 DEF SavesOK, SaveTypes
  <2>7. note \in KnownNotes' /\ note.post = p
    <3>1. p \in 1..posted'
      BY <1>1, <2>1 DEF NoteTypes
    <3> QED
      BY <3>1 DEF KnownNotes, LocalNote
  <2>8. \A n \in DOMAIN shown : n.post # note.post
    BY <2>1, <2>3, <2>7, KnownNote DEF GoodList
  <2>9. DOMAIN shown' = DOMAIN shown \cup {note} /\ Once(shown')
    BY <1>1, <2>1, <2>8, WithStep DEF GoodList
  <2> QED
    BY <2>1, <2>2, <2>6, <2>7, <2>9 DEF GoodList, Stays
<1>5. NoteInv'
  BY <1>1, <1>2, <1>3, <1>4, KeepsInv
<1> QED
  BY <1>4, <1>5

LEMMA RelayStoresStep ==
    ASSUME NoteInv, NEW p \in Posts, RelayStores(p)
    PROVE  NoteInv' /\ (boots = 0 => Stays(shown, shown'))
<1>1. NoteTypes'
  <2>1. p \in 1..posted
    BY DEF RelayStores, NoteInv, NoteTypes, Posts
  <2> QED
    BY <2>1 DEF RelayStores, NoteInv, NoteTypes
<1> QED
  BY <1>1, OnListStep, GoodNow DEF RelayStores

LEMMA PublishedStep ==
    ASSUME NoteInv, NEW p \in Posts, Published(p)
    PROVE  NoteInv' /\ (boots = 0 => Stays(shown, shown'))
<1>1. p \in 1..posted
  BY DEF Published, NoteInv, NoteTypes, Posts
<1>2. NoteTypes'
  BY <1>1 DEF Published, NoteInv, NoteTypes, Posts
<1>3. shown' = shown \/ shown' = ReplaceNote(shown, LocalNote(p), RelayNote(p))
  BY DEF Published
<1>4. boots = 0 => GoodList(shown') /\ Stays(shown, shown')
  BY <1>1, <1>3, GoodNow, ReplaceStep
<1> QED
  BY <1>2, <1>4, OnListStep DEF Published

LEMMA SavedStep ==
    ASSUME NoteInv, NEW p \in Posts, Saved(p)
    PROVE  NoteInv' /\ (boots = 0 => Stays(shown, shown'))
<1>1. /\ posted' = posted /\ publish' = publish /\ relay' = relay /\ served' = served
      /\ nextID' = nextID /\ boots' = boots /\ pull' = pull /\ fetch' = fetch
      /\ save[p].pc \in {"sent", "saved"}
  BY DEF Saved
<1>2. PICK pc \in {"done", "failed"} :
        /\ save' = [save EXCEPT ![p].pc = pc]
        /\ pc = "done" => save[p].pc = "saved"
        /\ \/ shown' = shown
           \/ save[p].pc = "saved" /\ shown' \in ReconcileServerNote(shown, p, save[p].note)
  BY DEF Saved
<1>3. NoteTypes'
  BY <1>1 DEF NoteInv, NoteTypes
<1>4. ASSUME boots = 0
      PROVE  /\ SavesOK' /\ \A q \in Posts : IsSaved(q) => save'[q].note = save[q].note
             /\ GoodList(shown') /\ Stays(shown, shown')
  <2>1. NoteTypes /\ SavesOK /\ GoodList(shown) /\ Stays(shown, shown)
    BY <1>4, GoodNow
  <2>2. /\ save' \in [Posts -> [pc: {"none", "sent", "saved", "done", "failed"},
                                note: [id: [src: {"server"}, n: Nat], post: Nat, late: BOOLEAN]]]
        /\ \A q \in Posts : save'[q].note = save[q].note /\ (q # p => save'[q] = save[q])
        /\ save'[p].pc = pc
    BY <1>2, <2>1 DEF SavesOK, SaveTypes
  <2>3. \A q \in Posts : IsSaved(q)' <=> IsSaved(q)
    BY <2>2 DEF IsSaved
  <2>4. \A q \in Posts : IsSaved(q) => SavedNote(q)'
    BY <1>1, <2>1, <2>2 DEF SavesOK, SavedNote
  <2>5. SavesOK'
    <3>1. \A q \in Posts : save'[q].pc # "none" => q <= posted'
      BY <1>1, <2>1, <2>2 DEF SavesOK
    <3>2. \A q \in Posts : save'[q].pc \in {"saved", "done"} => IsSaved(q)'
      BY <1>2, <2>1, <2>2, <2>3 DEF SavesOK
    <3> QED
      BY <2>1, <2>2, <2>3, <2>4, <3>1, <3>2 DEF SavesOK, SaveTypes
  <2>6. save[p].pc = "saved" => IsSaved(p)
    BY <2>1 DEF SavesOK
  <2>7. GoodList(shown') /\ Stays(shown, shown')
    BY <1>2, <2>1, <2>6, ReconcileStep
  <2> QED
    BY <2>2, <2>5, <2>7
<1>5. NoteInv'
  BY <1>1, <1>3, <1>4, KeepsInv DEF GoodList, NoteInv, NoteTypes
<1> QED
  BY <1>4, <1>5

LEMMA CreateNoteStep ==
    ASSUME NoteInv, NEW p \in Posts, NEW late \in BOOLEAN, CreateNote(p, late)
    PROVE  NoteInv' /\ (boots = 0 => Stays(shown, shown'))
<1> DEFINE note == [id |-> [src |-> "server", n |-> nextID + 1], post |-> p, late |-> late]
<1>1. /\ posted' = posted /\ publish' = publish /\ relay' = relay /\ served' = served \cup {note}
      /\ nextID' = nextID + 1 /\ boots' = boots /\ pull' = pull /\ fetch' = fetch
      /\ save[p].pc = "sent" /\ shown' = shown
      /\ save' = [save EXCEPT ![p] = [pc |-> "saved", note |-> note]]
  BY DEF CreateNote
<1>2. NoteTypes'
  BY <1>1 DEF NoteInv, NoteTypes
<1>3. ASSUME boots = 0
      PROVE  /\ SavesOK' /\ \A q \in Posts : IsSaved(q) => save'[q].note = save[q].note
             /\ note \in ServerNotes'
  <2>1. NoteTypes /\ SavesOK
    BY <1>3, GoodNow
  <2>2. nextID \in Nat /\ p \in Nat /\ p <= posted
    BY <1>1, <2>1 DEF NoteTypes, SavesOK, Posts
  <2>3. ~IsSaved(p)
    BY <1>1, <2>1 DEF SavesOK, SavedNote
  <2>4. /\ save' \in [Posts -> [pc: {"none", "sent", "saved", "done", "failed"},
                                note: [id: [src: {"server"}, n: Nat], post: Nat, late: BOOLEAN]]]
        /\ \A q \in Posts : q # p => save'[q] = save[q]
        /\ save'[p].pc = "saved" /\ save'[p].note = note
    BY <1>1, <2>1, <2>2 DEF SavesOK, SaveTypes
  <2>5. note # NoNote /\ note.id = [src |-> "server", n |-> nextID + 1]
    BY <2>2 DEF NoNote
  <2>6. note \in [id: [src: {"server"}, n: 1..nextID'], post: {p}, late: BOOLEAN]
    BY <1>1, <2>2
  <2> HIDE DEF note
  <2>7. /\ IsSaved(p)' /\ \A q \in Posts : q # p => (IsSaved(q)' <=> IsSaved(q))
    BY <2>4, <2>5 DEF IsSaved
  <2>8. ASSUME NEW q \in Posts, IsSaved(q)
        PROVE  q # p /\ SavedNote(q)' /\ save[q].note.id # note.id
    <3>1. q # p /\ save'[q] = save[q] /\ SavedNote(q)
      BY <2>1, <2>3, <2>4, <2>8 DEF SavesOK
    <3>2. 1..nextID \subseteq 1..nextID' /\ nextID + 1 \notin 1..nextID
      BY <1>1, <2>2
    <3> QED
      BY <1>1, <2>5, <3>1, <3>2 DEF SavedNote
  <2>9. SavedNote(p)'
    BY <1>1, <2>2, <2>4, <2>6 DEF SavedNote
  <2>10. SavesOK'
    <3>1. \A q \in Posts : save'[q].pc # "none" => q <= posted'
      BY <1>1, <2>1, <2>2, <2>4 DEF SavesOK
    <3>2. \A q \in Posts : IsSaved(q)' => SavedNote(q)'
      BY <2>7, <2>8, <2>9
    <3>3. \A q \in Posts : save'[q].pc \in {"saved", "done"} => IsSaved(q)'
      BY <2>1, <2>4, <2>7 DEF SavesOK
    <3>4. ASSUME NEW q \in Posts, NEW r \in Posts, IsSaved(q)', IsSaved(r)',
                 save'[q].note.id = save'[r].note.id
          PROVE  q = r
      BY <2>1, <2>4, <2>7, <2>8, <3>4 DEF SavesOK
    <3> QED
      BY <2>4, <3>1, <3>2, <3>3, <3>4 DEF SavesOK, SaveTypes
  <2>11. note \in ServerNotes'
    BY <2>4, <2>7 DEF ServerNotes
  <2> QED
    BY <2>4, <2>8, <2>10, <2>11
<1> HIDE DEF note
<1>4. boots = 0 => GoodList(shown) /\ Stays(shown, shown)
  BY GoodNow
<1>5. NoteInv'
  BY <1>1, <1>2, <1>3, <1>4, KeepsInv DEF GoodList, NoteInv, NoteTypes
<1> QED
  BY <1>1, <1>4, <1>5

LEMMA RefreshBegins ==
    ASSUME NoteInv, Pull \/ Fetch
    PROVE  NoteInv' /\ (boots = 0 => Stays(shown, shown'))
<1>1. NoteTypes'
  <2>1. (pull.got)' \in {pull.got, relay}
    BY DEF Pull, Fetch
  <2>2. /\ posted' = posted /\ publish' = publish /\ relay' = relay /\ nextID' = nextID
        /\ boots' = boots
    BY DEF Pull, Fetch
  <2> QED
    BY <2>1, <2>2 DEF NoteInv, NoteTypes
<1>2. (fetch.got)' \subseteq fetch.got \cup served
  BY DEF Pull, Fetch
<1> QED
  BY <1>1, <1>2, OnListStep, GoodNow DEF Pull, Fetch

LEMMA PulledStep ==
    ASSUME NoteInv, Pulled
    PROVE  NoteInv' /\ (boots = 0 => Stays(shown, shown'))
<1>1. NoteTypes'
  BY DEF Pulled, NotPulling, NoteInv, NoteTypes
<1>2. shown' = shown \/ shown' \in MergeRelayNotes(shown, pull.got)
  BY DEF Pulled
<1>3. pull.got \subseteq 1..posted
  BY DEF NoteInv, NoteTypes
<1>4. boots = 0 => GoodList(shown') /\ Stays(shown, shown')
  BY <1>2, <1>3, GoodNow, MergeStep
<1> QED
  BY <1>1, <1>4, OnListStep DEF Pulled

LEMMA FetchedStep ==
    ASSUME NoteInv, Fetched
    PROVE  NoteInv'
<1>1. NoteTypes'
  BY DEF Fetched, NoteInv, NoteTypes
<1>2. ASSUME boots = 0 PROVE GoodList(shown')
  <2>1. NoteTypes /\ SavesOK /\ fetch.got \subseteq ServerNotes
    BY <1>2 DEF NoteInv, NotesKnown
  <2>2. \A n, m \in ServerNotes : n.post = m.post => n = m
    BY <2>1, NoteSaved DEF ServerNotes
  <2>3. DOMAIN SetToBag(fetch.got) = fetch.got /\ Once(SetToBag(fetch.got))
    BY <2>1, <2>2, SetStep
  <2> QED
    BY <2>1, <2>3 DEF Fetched, GoodList, KnownNotes
<1> QED
  BY <1>1, <1>2, OnListStep DEF Fetched, NotFetching

LEMMA RestartStep ==
    ASSUME NoteInv, Restart
    PROVE  NoteInv' /\ (boots = 0 => Stays(shown, shown'))
<1>1. NoteTypes' /\ boots' # 0 /\ shown' = shown
  BY DEF Restart, NoteInv, NoteTypes
<1> QED
  BY <1>1, GoodNow DEF NoteInv

-----------------------------------------------------------------------------
(* The invariant holds, and what follows from it. *)

LEMMA NoteStep ==
    ASSUME NoteInv, NoteNext
    PROVE  NoteInv' /\ (Fetched \/ (boots = 0 => Stays(shown, shown')))
BY PostStep, RelayStoresStep, PublishedStep, CreateNoteStep, SavedStep, RefreshBegins, PulledStep,
   FetchedStep, RestartStep DEF NoteNext

LEMMA NotesStay ==
    ASSUME NoteInv, UNCHANGED noteVars
    PROVE  NoteInv' /\ (boots = 0 => Stays(shown, shown'))
<1>1. /\ shown' = shown /\ posted' = posted /\ publish' = publish /\ save' = save /\ relay' = relay
      /\ served' = served /\ nextID' = nextID /\ boots' = boots /\ pull' = pull /\ fetch' = fetch
  BY DEF noteVars
<1>2. NoteTypes'
  BY <1>1 DEF NoteInv, NoteTypes
<1> QED
  BY <1>1, <1>2, OnListStep, GoodNow

LEMMA NoteInvariant == NoteSpec => []NoteInv
<1>1. NoteInit => NoteInv
  <2> SUFFICES ASSUME NoteInit PROVE NoteInv
    OBVIOUS
  <2>1. NoteTypes
    BY NoteAssumption DEF NoteInit, NoteTypes, NotPulling
  <2>2. SavesOK
    BY DEF NoteInit, SavesOK, SaveTypes, IsSaved, NoNote
  <2>3. DOMAIN shown = {}
    BY DEF NoteInit, EmptyBag, SetToBag
  <2> QED
    BY <2>1, <2>2, <2>3 DEF NoteInit, NoteInv, NotesKnown, Once, NotFetching
<1>2. NoteInv /\ [NoteNext]_noteVars => NoteInv'
  BY NoteStep, NotesStay
<1> QED
  BY <1>1, <1>2, PTL DEF NoteSpec

\* For every number of posts, refreshes and restarts: in whatever order the
\* answers of the relay and the Concierge come, createPlaceNote's note is on the
\* list once (addOptimisticNote, replaceNoteByID, reconcileServerNote,
\* mergeRelayNotes).
THEOREM PostsAreShownOnce == NoteSpec => []ShownOnce
<1>1. NoteInv => ShownOnce
  BY DEF NoteInv, Once, ShownOnce
<1> QED
  BY <1>1, NoteInvariant, PTL

\* For every number of posts and refreshes: no answer but a bootstrap takes a
\* post off the list, or its event id from it.
THEOREM PostsAreNotLost == NoteSpec => PostsStay
<1> DEFINE Step == (fetch' = fetch \/ ~fetch.busy) /\ boots = 0 =>
               \A n \in DOMAIN shown :
                   \E m \in DOMAIN shown' :
                       m.post = n.post /\ (IsRelayBacked(n) => IsRelayBacked(m))
<1>1. NoteInv /\ [NoteNext]_noteVars => Step
  <2> SUFFICES ASSUME NoteInv, [NoteNext]_noteVars, fetch' = fetch \/ ~fetch.busy, boots = 0
               PROVE  Stays(shown, shown')
    BY DEF Stays
  <2>1. ~Fetched
    BY DEF Fetched, NotFetching
  <2> QED
    BY <2>1, NoteStep, NotesStay
<1>2. NoteInv /\ [NoteNext]_noteVars => [Step]_noteVars
  BY <1>1
<1> QED
  BY <1>2, NoteInvariant, PTL DEF NoteSpec, PostsStay
=============================================================================
