------------------------------ MODULE NoteSync ------------------------------
(***************************************************************************)
(* The root notes an author posts at one beacon, as the author's client    *)
(* shows them.  A post is shown at once under a local id, published to the *)
(* relay and saved with the Concierge's social service; the two answers,   *)
(* relay refreshes and bootstrap refreshes come back in any order, and     *)
(* each rewrites the list by its own rule (app-state.tsx).  The service    *)
(* keeps its notes in memory only (social/service.go).                     *)
(*                                                                         *)
(* Two shown notes are equivalent when they have the same text and were    *)
(* created within five seconds.  Posts here have different texts; the      *)
(* local and the relay time of a post are the same, the Concierge's may be *)
(* "late": more than five seconds away.                                    *)
(*                                                                         *)
(* The order of the list is left out: refreshes sort it by the times of    *)
(* the notes, and it tells only which of several equivalent notes, or of   *)
(* several with one id, a rule takes.  So the list is a bag, and the rules *)
(* say what they may come to.                                              *)
(***************************************************************************)
EXTENDS Naturals, Bags

CONSTANTS
    MaxPosts,     \* bound on the posts
    MaxPulls,     \* bound on the refreshes
    MaxRestarts,  \* bound on the restarts of the Concierge
    MaySlip       \* whether the Concierge's time may be late

ASSUME NoteAssumption ==
    /\ {MaxPosts, MaxPulls, MaxRestarts} \subseteq Nat
    /\ MaySlip \in BOOLEAN

VARIABLES
    shown,    \* notesState, a bag of notes
    posted,   \* number of posts
    publish,  \* of each post, the call of publishGeoNote
    save,     \* of each post, the POST to /api/v1/social/notes
    relay,    \* the posts the relay has stored
    served,   \* the notes in the social service's memory
    nextID,   \* its nextNoteID
    boots,    \* restarts of the Concierge
    pull,     \* the relay refresh under way: what the relay answered
    fetch,    \* the bootstrap under way: what the service answered
    pulls     \* number of refreshes begun

noteVars == <<shown, posted, publish, save, relay, served, nextID, boots, pull, fetch, pulls>>

Posts == 1..MaxPosts
\* src is the form of an id: note-<milliseconds>, note-<counter>, an event id.
NoNote == [id |-> [src |-> "server", n |-> 0], post |-> 1, late |-> FALSE]
NotPulling == [busy |-> FALSE, got |-> {}]
NotFetching == [busy |-> FALSE, got |-> {}]

NoteInit ==
    /\ shown = EmptyBag /\ served = {}
    /\ posted = 0 /\ nextID = 0 /\ boots = 0 /\ pulls = 0
    /\ publish = [p \in Posts |-> "none"]
    /\ save = [p \in Posts |-> [pc |-> "none", note |-> NoNote]]
    /\ relay = {}
    /\ pull = NotPulling /\ fetch = NotFetching

LocalNote(p) == [id |-> [src |-> "local", n |-> p], post |-> p, late |-> FALSE]
RelayNote(p) == [id |-> [src |-> "relay", n |-> p], post |-> p, late |-> FALSE]

Equivalent(a, b) == a.post = b.post /\ a.late = b.late
IsRelayBacked(note) == note.id.src = "relay"
HasId(notes, id) == \E n \in DOMAIN notes : n.id = id
Without(notes, id) == [n \in {m \in DOMAIN notes : m.id # id} |-> notes[n]]
With(notes, note) == notes (+) SetToBag({note})

-----------------------------------------------------------------------------
(* The five ways the list is rewritten. *)

\* Only the note of that post has the local id of a post.
ReplaceNote(notes, note, next) ==
    IF note \in DOMAIN notes
      THEN Without(notes, note.id) (+) [n \in {next} |-> notes[note]]
      ELSE notes

\* The optimistic note, or an equivalent one, becomes the server's note; an id
\* of the forms in "kept", which are the event ids, survives.
Reconciled(notes, p, note, kept) ==
    LET own  == {LocalNote(p)} \cap DOMAIN notes
        same == {n \in DOMAIN notes : Equivalent(n, note)}
        olds == IF own # {} THEN own ELSE same
    IN  IF olds = {} THEN {With(notes, note)}
        ELSE {With(Without(notes, old.id), IF old.id.src \in kept THEN [note EXCEPT !.id = old.id] ELSE note)
                : old \in olds}
ReconcileServerNoteAlways(notes, p, note) == Reconciled(notes, p, note, {})
ReconcileServerNoteById(notes, p, note) ==
    {IF LocalNote(p) \in DOMAIN notes THEN ReplaceNote(notes, LocalNote(p), note)
                                      ELSE With(notes, note)}
ReconcileServerNote(notes, p, note) == Reconciled(notes, p, note, {"relay"})

HasEquivalentLocalBeaconNote(notes, note) ==
    \E n \in DOMAIN notes : ~IsRelayBacked(n) /\ Equivalent(n, note)

\* merged is a Map by id: of several notes with one id one is left.
OneOfEachId(notes) ==
    {kept \in SUBSET DOMAIN notes :
        \A n \in DOMAIN notes : \E m \in kept : m.id = n.id /\ \A k \in kept : k.id = n.id => k = m}
\* A relay note that is new and has an equivalent local note is passed over.
\* One whose id is shown takes the place of itself: nothing else has its id.
MergeRelayNotes(notes, events) ==
    LET new == {p \in events : /\ ~HasId(notes, RelayNote(p).id)
                               /\ ~HasEquivalentLocalBeaconNote(notes, RelayNote(p))}
    IN  {SetToBag(kept \cup {RelayNote(p) : p \in new}) : kept \in OneOfEachId(notes)}

-----------------------------------------------------------------------------
\* Without a signer nothing is published.
Post(signer) ==
    LET p == posted + 1 IN
    /\ p \in Posts
    /\ posted' = p
    /\ shown' = With(shown, LocalNote(p))
    /\ publish' = [publish EXCEPT ![p] = IF signer THEN "sent" ELSE "none"]
    /\ save' = [save EXCEPT ![p].pc = "sent"]
    /\ UNCHANGED <<relay, served, nextID, boots, pull, fetch, pulls>>

RelayStores(p) ==
    /\ publish[p] = "sent"
    /\ publish' = [publish EXCEPT ![p] = "stored"]
    /\ relay' = relay \cup {p}
    /\ UNCHANGED <<shown, posted, save, served, nextID, boots, pull, fetch, pulls>>

\* The relay's OK; the signer's refusal, a timeout or a lost connection may
\* come instead, also after the relay has stored the event.
Published(p) ==
    /\ publish[p] \in {"sent", "stored"}
    /\ \/ /\ publish[p] = "stored"
          /\ publish' = [publish EXCEPT ![p] = "done"]
          /\ shown' = ReplaceNote(shown, LocalNote(p), RelayNote(p))
       \/ /\ publish' = [publish EXCEPT ![p] = "failed"]
          /\ UNCHANGED shown
    /\ UNCHANGED <<posted, save, relay, served, nextID, boots, pull, fetch, pulls>>

\* CreateNote, under the service's lock.
CreateNote(p, late) ==
    /\ save[p].pc = "sent"
    /\ late => MaySlip
    /\ LET note == [id |-> [src |-> "server", n |-> nextID + 1], post |-> p, late |-> late]
       IN  /\ served' = served \cup {note}
           /\ save' = [save EXCEPT ![p] = [pc |-> "saved", note |-> note]]
    /\ nextID' = nextID + 1
    /\ UNCHANGED <<shown, posted, publish, relay, boots, pull, fetch, pulls>>

Saved(p) ==
    /\ save[p].pc \in {"sent", "saved"}
    /\ \/ /\ save[p].pc = "saved"
          /\ save' = [save EXCEPT ![p].pc = "done"]
          /\ shown' \in ReconcileServerNote(shown, p, save[p].note)
       \/ /\ save' = [save EXCEPT ![p].pc = "failed"]
          /\ UNCHANGED shown
    /\ UNCHANGED <<posted, publish, relay, served, nextID, boots, pull, fetch, pulls>>

\* refreshPlaceNotesFromRelay; an error changes nothing.
Pull ==
    /\ ~pull.busy /\ pulls < MaxPulls
    /\ pull' = [busy |-> TRUE, got |-> relay]
    /\ pulls' = pulls + 1
    /\ UNCHANGED <<shown, posted, publish, save, relay, served, nextID, boots, fetch>>

Pulled ==
    /\ pull.busy
    /\ IF pull.got = {} THEN UNCHANGED shown ELSE shown' \in MergeRelayNotes(shown, pull.got)
    /\ pull' = NotPulling
    /\ UNCHANGED <<posted, publish, save, relay, served, nextID, boots, fetch, pulls>>

\* refreshSocialBootstrap.
Fetch ==
    /\ ~fetch.busy /\ pulls < MaxPulls
    /\ fetch' = [busy |-> TRUE, got |-> served]
    /\ pulls' = pulls + 1
    /\ UNCHANGED <<shown, posted, publish, save, relay, served, nextID, boots, pull>>

Fetched ==
    /\ fetch.busy
    /\ shown' = SetToBag(fetch.got)
    /\ fetch' = NotFetching
    /\ UNCHANGED <<posted, publish, save, relay, served, nextID, boots, pull, pulls>>

\* The Concierge forgets its notes and counts from note-1 again.
Restart ==
    /\ boots < MaxRestarts
    /\ boots' = boots + 1
    /\ served' = {} /\ nextID' = 0
    /\ UNCHANGED <<shown, posted, publish, save, relay, pull, fetch, pulls>>

NoteNext ==
    \/ \E signer \in BOOLEAN : Post(signer)
    \/ \E p \in Posts :
         \/ RelayStores(p)
         \/ Published(p)
         \/ \E late \in BOOLEAN : CreateNote(p, late)
         \/ Saved(p)
    \/ Pull \/ Pulled
    \/ Fetch \/ Fetched
    \/ Restart

NoteSpec == NoteInit /\ [][NoteNext]_noteVars

-----------------------------------------------------------------------------
\* In whatever order the answers come back, a post is on the screen once,
\* unless the Concierge's time of it was late or its ids started again.
ShownOnce ==
    boots = 0 => \A n, m \in DOMAIN shown :
        n.post = m.post => n.late \/ m.late \/ (n = m /\ shown[n] = 1)

\* A post stays on the screen and keeps its event id, whatever answer comes:
\* only a bootstrap, which replaces the list, may take either away.
PostsStay ==
    [][ (fetch' = fetch \/ ~fetch.busy) /\ boots = 0 =>
        \A n \in DOMAIN shown :
            \E m \in DOMAIN shown' :
                m.post = n.post /\ (IsRelayBacked(n) => IsRelayBacked(m)) ]_noteVars
=============================================================================
