------------------------------- MODULE World -------------------------------
(***************************************************************************)
(* The map page of the client (routes/world-route.tsx), its chats page     *)
(* (routes/chats-route.tsx), and the thread of a beacon either of them     *)
(* shows (routes/beacon-thread-panel.tsx).  What is open is spread over    *)
(* the address (the beacon that is selected), the state of the page (on    *)
(* the map the sheet of a beacon to be lit, on the chats page the thread   *)
(* that was chosen, on a narrow screen whether the thread covers the map   *)
(* or the list), and the state of the thread.  Pictures, profiles and new  *)
(* beacons are asked for, and their answers come when the user has long    *)
(* gone elsewhere.                                                         *)
(*                                                                         *)
(* Effects run before the next event is handled, so an action is a handler *)
(* and the effects that follow it.                                         *)
(***************************************************************************)
EXTENDS Naturals, FiniteSets

CONSTANTS
    Pages,      \* the routes of the client; "world" and "chats" are modelled here
    Spots,      \* geohashes
    Mine,       \* the spots whose beacon is in the user's inbox if it is known
    People,     \* authors whose profile can be opened
    Questions,  \* what is asked about an author: "metadata", "posts"
    MaxLate     \* bound on what is asked for and may be answered late

None == "none"

ASSUME WorldAssumption ==
    /\ "world" \in Pages /\ None \notin Spots /\ Mine \subseteq Spots /\ MaxLate \in Nat

VARIABLES
    at,          \* where the user is, a Place
    remembered,  \* rememberedBeaconGeohash of the shell; a spot or None
    draft,       \* pendingBeacon, NoDraft or the sheet of a spot
    uploads,     \* the sheets a picture is being uploaded for, in Upload
    lights,      \* the createBeacon calls under way, in LightOf
    thread,      \* the state of the BeaconThreadPanel, NoThread if not mounted
    asks         \* the questions about a profile: [who, about, live]

place == <<at, remembered>>
world == <<at, remembered, draft, uploads, lights, thread, asks>>

\* The page, the spots getBeacon knows, selectedBeaconGeohash of the address and
\* whether it has a focus key, isNarrowViewport, isNarrowBeaconOpen of the map,
\* and selectedThreadId and isNarrowThreadOpen of the chats.
Place == [route: Pages, beacons: SUBSET Spots, selected: Spots \cup {None},
          focused: BOOLEAN, narrow: BOOLEAN, covered: BOOLEAN,
          chosen: Spots \cup {None}, open: BOOLEAN]

\* Every beacon has one note that can be answered.
Note == [on: Spots]
NoNote == [on |-> None]

\* narrow is the width of the screen when handleSubmitPendingBeacon was entered,
\* mounted says whether its page is still there.
Upload == [on: Spots, nth: 1..MaxLate]
LightOf == [on: Spots, narrow: BOOLEAN, mounted: BOOLEAN, nth: 1..MaxLate]

NoDraft == [on |-> None, step |-> "none", picture |-> None, uploading |-> FALSE,
            submitting |-> FALSE]
NewDraft(s) == [NoDraft EXCEPT !.on = s, !.step = "prompt"]

NoDialog == [who |-> None, says |-> [q \in Questions |-> None]]
NoThread == [reply |-> NoNote, reacting |-> NoNote, acting |-> NoNote,
             pressed |-> NoNote, dialog |-> NoDialog]

-----------------------------------------------------------------------------
(* What is on the screen. *)

\* shouldShowMap
MapShown == draft # NoDraft \/ ~at.narrow \/ ~at.covered

\* beaconThreadsForInbox: the beacon of the address is on the list.
Inbox(p) == p.beacons \cap (Mine \cup {p.selected})
\* shouldShowThreadList
ListShown == at.route = "chats" /\ (~at.narrow \/ ~at.open)

ThreadOf(p) == IF p.route = "chats" THEN p.chosen ELSE p.selected

\* isChatVisible, shouldShowThreadDetail, and the beacon is known: the panel is
\* mounted.
Mounted(p, d) ==
    /\ ThreadOf(p) \in p.beacons
    /\ \/ p.route = "world" /\ (~p.narrow \/ (d = NoDraft /\ p.covered))
       \/ p.route = "chats" /\ (~p.narrow \/ p.open)
ThreadShown == Mounted(at, draft)

-----------------------------------------------------------------------------
(* The effects.  p is where a handler has left the user. *)

\* The four effects of the map page that set isNarrowBeaconOpen, in their order;
\* all run when the page is new, else those whose inputs changed.
CoveredStays(p) == p.covered
Covered(p) ==
    LET new == p.route # at.route
    IN  IF ~(new \/ p.selected # at.selected \/ p.focused # at.focused \/ p.narrow # at.narrow)
          THEN p.covered
        ELSE IF ~p.narrow THEN p.covered /\ at.narrow = p.narrow /\ ~new
        ELSE IF p.selected = None \/ p.focused THEN FALSE
        ELSE p.covered \/ new \/ p.selected # at.selected \/ p.narrow # at.narrow

\* The effect of the chats page that keeps what is chosen on the list; which
\* beacon is first there depends on the newest notes.
Chosen(p) ==
    IF p.chosen \in Inbox(p) THEN {p}
    ELSE IF Inbox(p) = {} THEN {[p EXCEPT !.chosen = None, !.open = FALSE]}
    ELSE IF p.selected \in Inbox(p) THEN {[p EXCEPT !.chosen = p.selected]}
    ELSE IF p.narrow /\ p.selected = None /\ p.chosen = None THEN {p}
    ELSE {[p EXCEPT !.chosen = s] : s \in Inbox(p)}

Unchosen(p) == [p EXCEPT !.chosen = None, !.open = FALSE]

\* The page itself chooses a thread before it knows the width; token says
\* whether mobileChatsResetToken is set.
ChatsAfter(p, token) ==
    LET new    == p.route # at.route
        first  == IF new THEN Chosen([Unchosen(p) EXCEPT !.narrow = FALSE])
                         ELSE {[p EXCEPT !.open = @ /\ p.narrow]}
        gone   == ~new /\ at.selected # None /\ p.selected = None
        forget == p.narrow /\ (gone \/ (token /\ (new \/ p.narrow # at.narrow)))
    IN  UNION {Chosen(IF forget THEN Unchosen(p) ELSE [q EXCEPT !.narrow = p.narrow])
                 : q \in first}

After(p, token) ==
    CASE p.route = "world" -> {[Unchosen(p) EXCEPT !.covered = Covered(p)]}
      [] p.route = "chats" -> ChatsAfter([p EXCEPT !.covered = FALSE], token)
      [] OTHER -> {[Unchosen(p) EXCEPT !.covered = FALSE]}

\* The effect of the panel on a new beacon; the dialog with a profile stays.
ForgetsReplyOnly(th) == [th EXCEPT !.reply = NoNote]
ForBeacon(th) == [NoThread EXCEPT !.dialog = th.dialog]

\* A panel that is unmounted forgets its state, and so does a page; their
\* answers have no effect any more.  The layouts of the two widths are different
\* trees: the panel does not outlive a change of the width.
ShowsWith(p, d, token) ==
    \E q \in After(p, token) :
        LET d1   == IF q.route = "world" THEN d ELSE NoDraft
            kept == /\ q.route = at.route /\ q.narrow = at.narrow
                    /\ ThreadShown /\ Mounted(q, d1)
        IN  /\ at' = q
            /\ remembered' = IF q.selected = None THEN remembered ELSE q.selected
            /\ draft' = d1
            /\ thread' = IF ~kept THEN NoThread
                         ELSE IF ThreadOf(q) # ThreadOf(at) THEN ForBeacon(thread) ELSE thread
            /\ asks' = IF kept THEN asks ELSE {}
            /\ uploads' = IF q.route = at.route THEN uploads ELSE {}
Shows(p, d) ==
    \/ ShowsWith(p, d, FALSE)
    \/ p.route = "chats" /\ p.narrow /\ ShowsWith(p, d, TRUE)

\* A beacon that is being lit outlives the page it was lit on.
LightsGoOn ==
    lights' = IF at'.route = at.route THEN lights
                                      ELSE {[l EXCEPT !.mounted = FALSE] : l \in lights}

-----------------------------------------------------------------------------
(* The map, its markers, and the way from one page to another. *)

Opened(s, narrow) ==
    [at EXCEPT !.selected = s, !.focused = FALSE, !.covered = @ \/ narrow]
OpenBeacon(s) == Shows(Opened(s, at.narrow), NoDraft)

\* A marker, its card, or the map itself; openPendingBeacon of a spot that has
\* a beacon opens the beacon.
PressMap(s) ==
    /\ at.route = "world" /\ MapShown
    /\ \/ s \in at.beacons /\ OpenBeacon(s)
       \/ /\ s \notin at.beacons
          /\ Shows([at EXCEPT !.selected = None, !.focused = FALSE, !.covered = FALSE], NewDraft(s))
    /\ UNCHANGED lights

\* The avatar of the beacon in its thread: focusBeaconOnMap on the map page,
\* handleReturnToChatsList or the way to the map on the chats page.
PressAvatar ==
    /\ ThreadShown
    /\ Shows(IF at.narrow
               THEN [Unchosen(at) EXCEPT !.selected = None, !.focused = FALSE, !.covered = FALSE]
               ELSE [at EXCEPT !.route = "world", !.selected = ThreadOf(at),
                               !.focused = (at.route = "world")],
             NoDraft)
    /\ LightsGoOn

ChooseThread(s) ==
    /\ ListShown /\ s \in Inbox(at)
    /\ Shows([at EXCEPT !.chosen = s, !.selected = s, !.focused = FALSE, !.open = @ \/ at.narrow],
             NoDraft)
    /\ UNCHANGED lights

Resize ==
    /\ Shows([at EXCEPT !.narrow = ~@], draft)
    /\ UNCHANGED lights

\* The links of the shell; on a narrow screen those to the map and to the chats
\* have no beacon, and the latter resets the chats page.
Navigate(r) ==
    /\ LET s == IF at.narrow /\ r \in {"world", "chats"} THEN None ELSE remembered
           p == [at EXCEPT !.route = r, !.selected = s, !.focused = FALSE]
       IN  IF at.narrow /\ r = "chats" THEN ShowsWith(Unchosen(p), draft, TRUE)
                                       ELSE Shows(p, draft)
    /\ LightsGoOn

\* A link of the feed, the bar of a call, which has a focus key, or the back
\* button.
FollowLink(r, s, foc) ==
    /\ Shows([at EXCEPT !.route = r, !.selected = s, !.focused = foc], draft)
    /\ LightsGoOn

\* A bootstrap, the beacons of the relay, or a call that is joined or left.
PlacesChange(bs) ==
    /\ Shows([at EXCEPT !.beacons = bs], draft)
    /\ UNCHANGED lights
-----------------------------------------------------------------------------
(* The sheet of a beacon to be lit. *)

Busy == draft.uploading \/ draft.submitting

Drafts(d) ==
    /\ draft' = d
    /\ UNCHANGED <<place, thread, asks>>

\* Cancel is disabled while the sheet is busy, the pin on the map is not.
CloseDraft ==
    /\ draft # NoDraft
    /\ Shows(at, NoDraft)
    /\ UNCHANGED lights

OpenForm ==
    /\ draft.step = "prompt"
    /\ Drafts([draft EXCEPT !.step = "form"])
    /\ UNCHANGED <<uploads, lights>>

ChoosePicture ==
    /\ draft.step = "form" /\ ~Busy
    /\ Drafts([draft EXCEPT !.uploading = TRUE])
    /\ \E t \in Upload \ uploads : t.on = draft.on /\ uploads' = uploads \cup {t}
    /\ UNCHANGED lights

RemovePicture ==
    /\ draft.picture # None /\ ~Busy
    /\ Drafts([draft EXCEPT !.picture = None])
    /\ UNCHANGED <<uploads, lights>>

AnySheet(s) == draft # NoDraft
\* current && current.geohash === targetGeohash
SheetOf(s) == draft.on = s

Uploaded(t) ==
    /\ t \in uploads
    /\ uploads' = uploads \ {t}
    /\ \E picture \in {t.on, draft.picture} :  \* the upload may fail
         Drafts(IF SheetOf(t.on) THEN [draft EXCEPT !.picture = picture, !.uploading = FALSE]
                              ELSE draft)
    /\ UNCHANGED lights

\* Without a name the sheet only says so.
Light ==
    /\ draft.step = "form" /\ ~Busy
    /\ Drafts([draft EXCEPT !.submitting = TRUE])
    /\ \E l \in LightOf :
         /\ l.on = draft.on /\ l.narrow = at.narrow /\ l.mounted
         /\ l.nth \notin {m.nth : m \in lights}
         /\ lights' = lights \cup {l}
    /\ UNCHANGED uploads

\* openBeacon closes whatever sheet is open, and writes the address of
\* whatever page is shown.  Of a page that is gone, only the address is written.
Lands(l) ==
    [(IF l.mounted THEN Opened(l.on, l.narrow) ELSE [at EXCEPT !.selected = l.on, !.focused = FALSE])
       EXCEPT !.beacons = @ \cup {l.on}]
Lit(l) ==
    /\ l \in lights
    /\ lights' = lights \ {l}
    /\ Shows(Lands(l), IF l.mounted THEN NoDraft ELSE draft)

LightFails(l) ==
    /\ l \in lights
    /\ lights' = lights \ {l}
    /\ Drafts(IF l.mounted /\ SheetOf(l.on) THEN [draft EXCEPT !.submitting = FALSE] ELSE draft)
    /\ UNCHANGED uploads

-----------------------------------------------------------------------------
(* The thread. *)

Threads(th) ==
    /\ ThreadShown
    /\ thread' = th
    /\ UNCHANGED <<place, draft, uploads, lights>>

Toggled(current, n) == IF current = n THEN NoNote ELSE n

ReplyTo(n) ==
    /\ n.on = ThreadOf(at)
    /\ Threads([thread EXCEPT !.reply = Toggled(thread.reply, n), !.reacting = NoNote,
                              !.acting = NoNote])
    /\ UNCHANGED asks

CancelReply ==
    /\ thread.reply # NoNote
    /\ Threads([thread EXCEPT !.reply = NoNote])
    /\ UNCHANGED asks

ToggleReactions(n) ==
    /\ n.on = ThreadOf(at)
    /\ Threads([thread EXCEPT !.reacting = Toggled(thread.reacting, n),
                              !.acting = IF at.narrow THEN n ELSE thread.acting])
    /\ UNCHANGED asks

React ==
    /\ thread.reacting # NoNote
    /\ Threads([thread EXCEPT !.reacting = NoNote, !.acting = NoNote])
    /\ UNCHANGED asks

\* The finger goes down on a note; it is lifted, it moves, or the list scrolls;
\* or it stays for 450 ms.  The dialog with a profile is over the notes.
Press(n) ==
    /\ at.narrow /\ n.on = ThreadOf(at) /\ thread.dialog = NoDialog
    /\ Threads([thread EXCEPT !.pressed = n])
    /\ UNCHANGED asks

Lift ==
    /\ thread.pressed # NoNote
    /\ Threads([thread EXCEPT !.pressed = NoNote])
    /\ UNCHANGED asks

LongPress ==
    /\ thread.pressed # NoNote
    /\ Threads([thread EXCEPT
         !.reacting = IF @ = thread.pressed THEN @ ELSE NoNote,
         !.acting = Toggled(thread.acting, thread.pressed),
         !.pressed = NoNote])
    /\ UNCHANGED asks

\* The text is not part of the state: createPlaceNote refuses an empty one.
Post ==
    /\ Threads([thread EXCEPT !.reply = NoNote, !.reacting = NoNote, !.acting = NoNote])
    /\ UNCHANGED asks

-----------------------------------------------------------------------------
(* The dialog with a profile.  The author's button stays in reach of the    *)
(* keyboard while the dialog is open.                                       *)

\* The effect on selectedMetadataPubkey: the questions about somebody else are
\* cancelled, and nothing is asked again about the same person.
AsksAbout(p) ==
    IF p = thread.dialog.who THEN asks
    ELSE {[a EXCEPT !.live = FALSE] : a \in asks}
           \cup [who: {p} \ {None}, about: Questions, live: {TRUE}]

\* The click that opens it has lifted the finger.
OpenProfile(p) ==
    /\ thread.pressed = NoNote
    /\ Threads([thread EXCEPT !.dialog = [who |-> p, says |-> NoDialog.says]])
    /\ asks' = AsksAbout(p)

CloseProfile ==
    /\ thread.dialog # NoDialog
    /\ Threads([thread EXCEPT !.dialog = NoDialog])
    /\ asks' = AsksAbout(None)

AppliesToAny(a) == thread.dialog # NoDialog
\* Not cancelled, and the dialog is still about the same person.
Applies(a) == a.live /\ thread.dialog.who = a.who

ProfileAnswered(a) ==
    /\ a \in asks
    /\ asks' = asks \ {a}
    /\ \E said \in {a.who, "error"} :
         Threads(IF Applies(a) THEN [thread EXCEPT !.dialog.says[a.about] = said] ELSE thread)

WorldInit ==
    /\ \E r \in Pages, s \in Spots \cup {None}, w \in BOOLEAN :
         at = [route |-> r, beacons |-> {}, selected |-> s, focused |-> FALSE, narrow |-> w,
               covered |-> r = "world" /\ w /\ s # None, chosen |-> None, open |-> FALSE]
    /\ remembered = at.selected
    /\ draft = NoDraft /\ uploads = {} /\ lights = {}
    /\ thread = NoThread /\ asks = {}

InWorld ==
    \/ \E s \in Spots : PressMap(s)
    \/ PressAvatar \/ Resize
    \/ \E s \in Spots : ChooseThread(s)
    \/ \E bs \in SUBSET Spots : PlacesChange(bs)
    \/ CloseDraft \/ OpenForm \/ ChoosePicture \/ RemovePicture \/ Light
    \/ \E t \in uploads : Uploaded(t)
    \/ \E l \in lights : Lit(l) \/ LightFails(l)
    \/ \E n \in Note : ReplyTo(n) \/ ToggleReactions(n) \/ Press(n)
    \/ CancelReply \/ React \/ Lift \/ LongPress \/ Post
    \/ \E p \in People : OpenProfile(p)
    \/ CloseProfile
    \/ \E a \in asks : ProfileAnswered(a)

-----------------------------------------------------------------------------
\* A late picture is put on the sheet of the spot it was chosen for, and a
\* late answer about an author is shown in the dialog with that author, however
\* sheets and dialogs were closed and opened meanwhile.
AnswersLandWhereAsked ==
    /\ draft.picture \in {None, draft.on}
    /\ \A q \in Questions : thread.dialog.says[q] \in {None, "error", thread.dialog.who}

\* What is open on a note - an answer being written, the emojis, the buttons, a
\* finger held down - is open on a note of the beacon that is shown: nobody
\* answers a note of one beacon in the thread of another.
ThreadIsOfBeacon ==
    {thread.reply, thread.reacting, thread.acting, thread.pressed}
        \subseteq {NoNote, [on |-> ThreadOf(at)]}

\* On the map page there is always something to see, unless the address names
\* a beacon nobody knows, and on the chats page the list is hidden for a thread
\* only: what hides the map or the list is kept in step with the address and
\* with what is known by seven effects and eight handlers.
NeverBlank ==
    /\ at.route = "world" /\ ~MapShown /\ ~ThreadShown => at.selected \notin at.beacons \cup {None}
    /\ at.route = "chats" /\ ~ListShown => ThreadShown
=============================================================================
