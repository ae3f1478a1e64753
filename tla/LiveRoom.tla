------------------------------ MODULE LiveRoom ------------------------------
(***************************************************************************)
(* One LiveKit room while its permissions are changed.  A person asks for  *)
(* tokens, from any number of tabs and devices, in the room or not, and    *)
(* joins with any of them until it expires, as often as she likes; an      *)
(* admin writes a room permission, and the handler then tells LiveKit      *)
(* (UpdateParticipant, five seconds) so that the change reaches a person   *)
(* who is in the room.  A token is read at one version of the store, the   *)
(* update lands when LiveKit gets to it: nothing orders the two, nor two   *)
(* updates.                                                                *)
(*                                                                         *)
(* The decision and the grants are each read at one version here; their    *)
(* lookups one at a time, the admin's authority and the audit entry are    *)
(* Concierge's.                                                            *)
(***************************************************************************)
EXTENDS PolicyEngine

CONSTANTS
    Room,       \* the room
    Callers,    \* the people who may ask for a token
    Requests,   \* token requests that may be in progress
    Handlers,   \* admin requests that may be in progress
    RowInputs,  \* rows an admin may write
    MaxRows     \* bound on the rows

Nobody == "none"

ASSUME LiveRoomAssumption ==
    /\ Room \in Rooms /\ Callers \subseteq People /\ Nobody \notin Callers
    /\ RowInputs \subseteq Row
    /\ \A row \in RowInputs : row.kind = "permission" => row.key \in People
    /\ MaxRows \in Nat

VARIABLES
    rows,   \* the store
    asked,  \* whom each token request in progress was allowed for
    tokens, \* the tokens that have not expired; asOf: the version one was read at
    live,  \* who is in the room with which rights; asOf: the version or row of the rights
    upd,   \* the update in progress of each handler, of row "at"
    late,  \* rows whose update was given up and may yet reach LiveKit
    told   \* what the admin who wrote a row was told of its update

vars == <<rows, asked, tokens, live, upd, late, told>>

Now == Len(rows)
Rights == {"publish", "subscribe"}
Outside == [in |-> FALSE, rights |-> {}, asOf |-> 0]
IdleUpdate == [pc |-> "idle", at |-> 0, found |-> FALSE]

TypeOK ==
    /\ rows \in Seq(RowInputs) /\ Now <= MaxRows
    /\ asked \in [Requests -> Callers \cup {Nobody}]
    /\ tokens \subseteq [of: Callers, grants: SUBSET Rights, asOf: 0..Now]
    /\ live \in [People -> [in: BOOLEAN, rights: SUBSET Rights, asOf: 0..Now]]
    /\ upd \in [Handlers -> [pc: {"idle", "sync", "done"}, at: 0..Now, found: BOOLEAN]]
    /\ late \subseteq DOMAIN rows
    /\ told \in [DOMAIN rows -> {"nothing", "applied", "absent", "warning"}]

Init ==
    /\ rows = << >> /\ told = << >>
    /\ asked = [r \in Requests |-> Nobody] /\ tokens = {}
    /\ live = [p \in People |-> Outside]
    /\ upd = [h \in Handlers |-> IdleUpdate]
    /\ late = {}

-----------------------------------------------------------------------------
(* The token: a decision, the grants, the join. *)

\* Whether the person has a token already, or is in the room, is not asked.
Ask(r, p) ==
    /\ asked[r] = Nobody
    /\ Allowed(rows, Now, {}, p, "media.join", Room)
    /\ asked' = [asked EXCEPT ![r] = p]
    /\ UNCHANGED <<rows, tokens, live, upd, late, told>>

Issue(r) ==
    /\ asked[r] # Nobody
    /\ LET grants == RoomGrants(rows, Now, {}, asked[r], Room)
       IN  tokens' = IF "refused" \in grants THEN tokens
                     ELSE tokens \cup {[of |-> asked[r], grants |-> grants, asOf |-> Now]}
    /\ asked' = [asked EXCEPT ![r] = Nobody]
    /\ UNCHANGED <<rows, live, upd, late, told>>

\* LiveKit checks the token alone, and takes it again: who joins while she is in
\* the room takes her own place, with the rights of the token.
Connect(t) ==
    /\ live' = [live EXCEPT ![t.of] = [in |-> TRUE, rights |-> t.grants, asOf |-> t.asOf]]
    /\ UNCHANGED <<rows, asked, tokens, upd, late, told>>

Leave(p) ==
    /\ live[p].in
    /\ live' = [live EXCEPT ![p] = Outside]
    /\ UNCHANGED <<rows, asked, tokens, upd, late, told>>

\* Ten minutes are over, or whoever holds the token forgets it.
Expire(t) ==
    /\ tokens' = tokens \ {t}
    /\ UNCHANGED <<rows, asked, live, upd, late, told>>

-----------------------------------------------------------------------------
(* The update. *)

SyncRightsOfRevoked(row) == row.says \cap Rights
SyncRights(row) == IF row.revoked THEN {} ELSE row.says \cap Rights

\* The row is stored; only a room permission concerns LiveKit.
Write(h) ==
    /\ upd[h].pc = "idle" /\ Now < MaxRows
    /\ \E row \in RowInputs :
         /\ rows' = Append(rows, row)
         /\ upd' = IF row.kind = "permission"
                     THEN [upd EXCEPT ![h] = [pc |-> "sync", at |-> Now + 1, found |-> FALSE]]
                     ELSE upd
    /\ told' = Append(told, "nothing")
    /\ UNCHANGED <<asked, tokens, live, late>>

\* LiveKit knows a person by the identity of the token, in lower-case hex; an
\* update under another spelling finds nobody.
Finds(i) == rows[i].form = "hex" /\ rows[i].scope = Room /\ live[rows[i].key].in
Landed(i) ==
    IF Finds(i) THEN [live EXCEPT ![rows[i].key].rights = SyncRights(rows[i]),
                                  ![rows[i].key].asOf = i]
                ELSE live

Sync(h) ==
    /\ upd[h].pc = "sync"
    /\ live' = Landed(upd[h].at)
    /\ upd' = [upd EXCEPT ![h].pc = "done", ![h].found = Finds(upd[h].at)]
    /\ UNCHANGED <<rows, asked, tokens, late, told>>

SyncLate(i) ==
    /\ i \in late
    /\ live' = Landed(i)
    /\ late' = late \ {i}
    /\ UNCHANGED <<rows, asked, tokens, upd, told>>

AnswerRetrying(h) ==
    /\ upd[h].pc = "done"
    /\ told' = [told EXCEPT ![upd[h].at] = IF upd[h].found THEN "applied" ELSE "absent"]
    /\ late' = late \cup {upd[h].at}
    /\ upd' = [upd EXCEPT ![h] = IdleUpdate]
    /\ UNCHANGED <<rows, asked, tokens, live>>
\* NotFound is passed over in silence.
Answer(h) ==
    /\ upd[h].pc = "done"
    /\ told' = [told EXCEPT ![upd[h].at] = IF upd[h].found THEN "applied" ELSE "absent"]
    /\ upd' = [upd EXCEPT ![h] = IdleUpdate]
    /\ UNCHANGED <<rows, asked, tokens, live, late>>

\* A timeout or a lost connection: the update has landed, or never will, or
\* is still on its way.
GiveUp(h) ==
    /\ upd[h].pc \in {"sync", "done"}
    /\ told' = [told EXCEPT ![upd[h].at] = "warning"]
    /\ \/ UNCHANGED late
       \/ upd[h].pc = "sync" /\ late' = late \cup {upd[h].at}
    /\ upd' = [upd EXCEPT ![h] = IdleUpdate]
    /\ UNCHANGED <<rows, asked, tokens, live>>

\* The Concierge stops and starts: nobody is told anything any more.
Restart ==
    /\ upd' = [h \in Handlers |-> IdleUpdate]
    /\ \E sent \in SUBSET {upd[h].at : h \in {g \in Handlers : upd[g].pc = "sync"}} :
         late' = late \cup sent
    /\ asked' = [r \in Requests |-> Nobody]
    /\ UNCHANGED <<rows, tokens, live, told>>

Next ==
    \/ \E r \in Requests : (\E p \in Callers : Ask(r, p)) \/ Issue(r)
    \/ \E t \in tokens : Connect(t) \/ Expire(t)
    \/ \E p \in Callers : Leave(p)
    \/ \E h \in Handlers : Write(h) \/ Sync(h) \/ Answer(h) \/ GiveUp(h)
    \/ \E i \in late : SyncLate(i)
    \/ Restart

Spec == Init /\ [][Next]_vars

-----------------------------------------------------------------------------
\* Whatever the order in which tokens are used and updates land, a right held
\* in the room is one that the policy gave the person at some version.
LiveRightsWereGranted ==
    \A p \in People : \A right \in live[p].rights :
        \E v \in 0..Now : right \in RoomGrants(rows, v, {}, p, Room)

\* Rights in the room give way to older ones in two ways only: the person joins
\* once more, perhaps from another tab, with a token that was read before; or an
\* older change lands whose admin waits for the answer, was warned, or lost the
\* answer.  A change that was answered does not come back by itself.
AnsweredIsOver ==
    [][\A p \in People :
         live[p].in /\ live'[p].in /\ live'[p].asOf < live[p].asOf
           => \/ \E t \in tokens : t.of = p /\ Connect(t)
              \/ told[live'[p].asOf] \in {"nothing", "warning"}]_vars
=============================================================================
