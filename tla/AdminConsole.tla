---------------------------- MODULE AdminConsole ----------------------------
(***************************************************************************)
(* The governance page of the client (routes/settings-route.tsx) and its   *)
(* signed requests (admin-client.ts).  Every save of a form is followed by *)
(* a refresh of all lists: a request per list, each read by the server at  *)
(* a time of its own.  Refreshes overlap, and only the newest may show its *)
(* answers; two lists can also be loaded alone, and the audit log page by  *)
(* page.  Rows are only ever added (PolicyStore), so a list is described   *)
(* by the number of rows that were there when the server read it.          *)
(***************************************************************************)
EXTENDS Naturals, Sequences, FiniteSets

CONSTANTS
    Tables,      \* the tables of the page, out of DOMAIN Needs
    PageSize,    \* entries of an audit page (20)
    MaxRows,     \* bound on the rows
    MaxReads,    \* bound on refreshGenerationRef
    MaxViews     \* bound on the lists loaded alone at one time

\* The fields admin-client.ts refuses to leave empty, per table.
AssignmentFields == {"pubkey"}
StandingFields == {"pubkey"}
RoomFields == {"pubkey", "room"}
ProofFields == {"pubkey", "value"}
GateFields == {}
PinFields == {"geohash", "note"}

Needs == [guest |-> AssignmentFields, block |-> AssignmentFields,
          standing |-> StandingFields, room |-> RoomFields, proof |-> ProofFields,
          gate |-> GateFields, pin |-> PinFields]

ASSUME ConsoleAssumption ==
    /\ Tables \subseteq DOMAIN Needs
    /\ PageSize \in Nat \ {0}
    /\ {MaxRows, MaxReads, MaxViews} \subseteq Nat

VARIABLES
    rows,      \* the table of every row, oldest first; row n is audit entry n
    canAdmin,  \* adminSession says "allow"
    handler,   \* of each form, and of the signer's button, what it waits for
    latest,    \* refreshGenerationRef.current
    reads,     \* of each generation, the refresh
    spinning,  \* isRefreshing
    shown,     \* of each list, the number of rows it was read from
    views,     \* the lists being loaded alone
    audit,     \* auditPage
    more,      \* the cursor loadMoreAuditEntries asked for; 0 if it is not running
    saved,     \* history: the rows whose save was answered
    torn       \* history: a page was added to entries it does not follow

page == <<latest, reads, spinning, shown, audit, torn>>
forms == <<canAdmin, handler, saved>>
vars == <<rows, canAdmin, handler, latest, reads, spinning, shown, views, audit, more,
          saved, torn>>

Viewed == Tables \cap {"standing", "room"}
Idle == [pc |-> "idle", n |-> 0]
Handler == [pc: {"idle", "asking", "writing", "stored", "reading", "booting"}, n: Nat]
\* from is the number of rows when the requests were made.
Read == [pc: {"open", "done", "failed"}, from: 0..MaxRows]
View == [table: Viewed, from: 0..MaxRows]
NoAudit == [entries |-> << >>, next |-> 0]

TypeOK ==
    /\ rows \in Seq(Tables) /\ Len(rows) <= MaxRows
    /\ canAdmin \in BOOLEAN /\ spinning \in BOOLEAN /\ torn \in BOOLEAN
    /\ handler \in [Tables \cup {"signer"} -> Handler]
    /\ latest \in 0..MaxReads /\ reads \in [1..latest -> Read]
    /\ shown \in [Tables -> 0..MaxRows]
    /\ views \subseteq View
    /\ audit \in [entries: Seq(1..MaxRows), next: 0..MaxRows]
    /\ more \in 0..MaxRows
    /\ saved \subseteq 1..Len(rows)

Init ==
    /\ rows = << >>
    /\ canAdmin = FALSE
    /\ handler = [h \in Tables \cup {"signer"} |-> Idle]
    /\ latest = 0 /\ reads = << >> /\ spinning = FALSE
    /\ shown = [t \in Tables |-> 0]
    /\ views = {}
    /\ audit = NoAudit /\ more = 0
    /\ saved = {} /\ torn = FALSE

-----------------------------------------------------------------------------
\* The server's page of the audit log below a cursor, newest entry first; its
\* cursor is its last entry, if older ones are left.
AuditPage(below) ==
    LET n == IF below - 1 < PageSize THEN below - 1 ELSE PageSize
    IN  [entries |-> [i \in 1..n |-> below - i],
         next |-> IF below - 1 > PageSize THEN below - PageSize ELSE 0]

AppendedOnly(page1) == [entries |-> audit.entries \o page1.entries, next |-> audit.next]
Appended(page1) == [entries |-> audit.entries \o page1.entries, next |-> page1.next]

\* refreshGovernanceData as far as its first await.
BeginsRefresh ==
    /\ latest < MaxReads
    /\ latest' = latest + 1
    /\ reads' = Append(reads, [pc |-> "open", from |-> Len(rows)])
    /\ spinning' = TRUE
    /\ UNCHANGED <<shown, audit, torn>>

\* Whoever waited for generation g goes on when it ends: the pins' handler
\* loads the social bootstrap too, the others are done.
WhenRead(g) ==
    [h \in DOMAIN handler |->
        IF handler[h] # [pc |-> "reading", n |-> g] THEN handler[h]
        ELSE IF h = "pin" THEN [pc |-> "booting", n |-> 0] ELSE Idle]

AlwaysCurrent(g) == TRUE
\* generation === refreshGenerationRef.current
Current(g) == g = latest

-----------------------------------------------------------------------------
ConnectSigner ==
    /\ handler["signer"] = Idle
    /\ handler' = [handler EXCEPT !["signer"].pc = "asking"]
    /\ UNCHANGED <<page, rows, canAdmin, views, more, saved>>

\* The server knows the signer or does not; without an extension, or without
\* an answer, there is no session.
SignerChecked ==
    /\ handler["signer"].pc = "asking"
    /\ \/ /\ canAdmin' = TRUE
          /\ handler' = [handler EXCEPT !["signer"] = [pc |-> "reading", n |-> latest + 1]]
          /\ BeginsRefresh
       \/ /\ canAdmin' = FALSE
          /\ handler' = [handler EXCEPT !["signer"] = Idle]
          /\ UNCHANGED page
    /\ UNCHANGED <<rows, views, more, saved>>

PressRefresh ==
    /\ canAdmin /\ ~spinning
    /\ BeginsRefresh
    /\ UNCHANGED <<forms, rows, views, more>>

\* The server reads each list at a time of its own between request and answer.
Refreshed(g) ==
    /\ reads[g].pc = "open"
    /\ reads' = [reads EXCEPT ![g].pc = "done"]
    /\ handler' = WhenRead(g)
    /\ IF Current(g)
         THEN /\ shown' \in [Tables -> reads[g].from..Len(rows)]
              /\ \E n \in reads[g].from..Len(rows) : audit' = AuditPage(n + 1)
              /\ spinning' = FALSE /\ torn' = FALSE
         ELSE UNCHANGED <<shown, audit, spinning, torn>>
    /\ UNCHANGED <<rows, canAdmin, latest, views, more, saved>>

\* Promise.all: the first request that fails ends the refresh.
RefreshFails(g) ==
    /\ reads[g].pc = "open"
    /\ reads' = [reads EXCEPT ![g].pc = "failed"]
    /\ handler' = WhenRead(g)
    /\ spinning' = (spinning /\ ~Current(g))
    /\ UNCHANGED <<rows, canAdmin, latest, shown, views, audit, more, saved, torn>>

-----------------------------------------------------------------------------
Usable(t) == canAdmin /\ handler[t] = Idle

\* A form with an empty field is refused before any request is made.
Save(t, typed) ==
    /\ Usable(t)
    /\ Needs[t] \subseteq typed
    /\ handler' = [handler EXCEPT ![t].pc = "writing"]
    /\ UNCHANGED <<page, rows, canAdmin, views, more, saved>>

Store(t) ==
    /\ handler[t].pc = "writing" /\ Len(rows) < MaxRows
    /\ rows' = Append(rows, t)
    /\ handler' = [handler EXCEPT ![t] = [pc |-> "stored", n |-> Len(rows) + 1]]
    /\ UNCHANGED <<page, canAdmin, views, more, saved>>

Saved(t) ==
    /\ handler[t].pc = "stored"
    /\ saved' = saved \cup {handler[t].n}
    /\ handler' = [handler EXCEPT ![t] = [pc |-> "reading", n |-> latest + 1]]
    /\ BeginsRefresh
    /\ UNCHANGED <<rows, canAdmin, views, more>>

\* No signature, no connection, a refusal, or an answer that was lost.
SaveFails(t) ==
    /\ handler[t].pc \in {"writing", "stored"}
    /\ handler' = [handler EXCEPT ![t] = Idle]
    /\ UNCHANGED <<page, rows, canAdmin, views, more, saved>>

Bootstrapped(t) ==
    /\ handler[t].pc = "booting"
    /\ handler' = [handler EXCEPT ![t] = Idle]
    /\ UNCHANGED <<page, rows, canAdmin, views, more, saved>>

\* Another console of another admin.
OtherSaves(t) ==
    /\ Len(rows) < MaxRows
    /\ rows' = Append(rows, t)
    /\ UNCHANGED <<page, forms, views, more>>

-----------------------------------------------------------------------------
\* loadStandingEntries, loadRoomEntries: nothing keeps the button from being
\* pressed again, and no generation is asked for.
LoadView(t) ==
    /\ canAdmin
    /\ Cardinality(views) < MaxViews
    /\ views' = views \cup {[table |-> t, from |-> Len(rows)]}
    /\ UNCHANGED <<page, forms, rows, more>>

ViewLoaded(v) ==
    /\ views' = views \ {v}
    /\ \E n \in v.from..Len(rows) : shown' = [shown EXCEPT ![v.table] = n]
    /\ UNCHANGED <<forms, rows, latest, reads, spinning, audit, more, torn>>

ViewFails(v) ==
    /\ views' = views \ {v}
    /\ UNCHANGED <<page, forms, rows, more>>

LoadMore ==
    /\ audit.next # 0 /\ more = 0
    /\ more' = audit.next
    /\ UNCHANGED <<page, forms, rows, views>>

\* Entries below a cursor never change, so it does not matter when the server
\* reads them.
MoreLoaded ==
    /\ more # 0
    /\ more' = 0
    /\ \/ /\ audit' = Appended(AuditPage(more))
          /\ torn' = (torn \/ audit.next # more)
       \/ UNCHANGED <<audit, torn>>
    /\ UNCHANGED <<forms, rows, latest, reads, spinning, shown, views>>

Next ==
    \/ ConnectSigner \/ SignerChecked
    \/ PressRefresh
    \/ \E g \in DOMAIN reads :
         \/ Refreshed(g)
         \/ RefreshFails(g)
    \/ \E t \in Tables :
         \/ \E typed \in SUBSET Needs[t] : Save(t, typed)
         \/ Store(t) \/ Saved(t) \/ SaveFails(t)
         \/ Bootstrapped(t)
         \/ OtherSaves(t)
    \/ \E t \in Viewed : LoadView(t)
    \/ \E v \in views : ViewLoaded(v) \/ ViewFails(v)
    \/ LoadMore \/ MoreLoaded

Spec == Init /\ [][Next]_vars

-----------------------------------------------------------------------------
\* However saves and refreshes overlap, the list of a row whose save was
\* answered is one the server read with that row, unless the newest refresh has
\* yet to bring it or has failed: no older refresh takes the row away again.
\* (A list that is also loaded alone has no such promise: a load begun before
\* the save may end after the refresh.)
SavedIsShown ==
    \A n \in saved :
        \/ rows[n] \in Viewed
        \/ shown[rows[n]] >= n
        \/ reads[latest].pc = "failed"
        \/ reads[latest].pc = "open" /\ reads[latest].from >= n

\* The page says it is refreshing just as long as the newest refresh is: an
\* older one that ends does not let the user take old lists for new ones.
SpinnerTells == spinning <=> latest # 0 /\ reads[latest].pc = "open"

\* Whatever refresh comes between a page of the audit log and the next, no
\* entry is listed twice or out of order; and none is left out unless a page
\* was asked for before a refresh and came after it.
AuditInOrder ==
    \A i \in 1..(Len(audit.entries) - 1) :
        /\ audit.entries[i] > audit.entries[i + 1]
        /\ ~torn => audit.entries[i] = audit.entries[i + 1] + 1
=============================================================================
