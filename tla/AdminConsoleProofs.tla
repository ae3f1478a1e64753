------------------------- MODULE AdminConsoleProofs -------------------------
(***************************************************************************)
(* The governance page, for every set of tables, page size and bound: what *)
(* was saved stays shown, the page tells when it is refreshing, and the    *)
(* audit log is in order.                                                  *)
(***************************************************************************)
EXTENDS AdminConsole, SequenceTheorems, TLAPS

\* The row a form waits for is there.
StoredRows ==
    \A h \in DOMAIN handler :
        handler[h].pc = "stored" => handler[h].n \in 1..Len(rows)

\* A refresh asks for no row that is not there yet, and the newest one was
\* begun when every row was there whose save had been answered.
ReadsReach ==
    /\ \A g \in DOMAIN reads : reads[g].from <= Len(rows)
    /\ \A n \in saved : latest # 0 /\ n <= reads[latest].from

\* Once the newest refresh was shown, its lists are what it asked for.
NewestIsShown ==
    latest # 0 /\ reads[latest].pc = "done" =>
        \A t \in Tables \ Viewed : reads[latest].from <= shown[t]

\* The cursor is the last entry that is shown, the cursor that was asked for is
\* no newer, both are at least a page below the newest entry, and a refresh that
\* is under way brings nothing older than that entry.
AuditChain ==
    LET log == audit.entries
    IN  /\ audit.next # 0 => log # << >> /\ audit.next = log[Len(log)]
        /\ more # 0 => log # << >> /\ more <= log[Len(log)]
        /\ log # << >> =>
             /\ log[1] <= Len(rows)
             /\ latest # 0 /\ reads[latest].pc = "open" => log[1] <= reads[latest].from
             /\ audit.next # 0 => audit.next + PageSize <= log[1] + 1
             /\ more # 0 => more + PageSize <= log[1] + 1

RefreshInv == TypeOK /\ StoredRows /\ ReadsReach /\ NewestIsShown /\ SpinnerTells
LogInv == AuditChain /\ AuditInOrder
ConsoleInv == RefreshInv /\ LogInv

-----------------------------------------------------------------------------
(* Lemmas about the operators. *)

\* A refresh's answers: a page holds consecutive entries from below its cursor,
\* and its own cursor is its last entry.
LEMMA PageOfLog ==
    ASSUME NEW below \in 1..(MaxRows + 1)
    PROVE  /\ AuditPage(below) \in [entries: Seq(1..MaxRows), next: 0..MaxRows]
           /\ Len(AuditPage(below).entries) = IF below - 1 < PageSize THEN below - 1 ELSE PageSize
           /\ \A i \in 1..Len(AuditPage(below).entries) : AuditPage(below).entries[i] = below - i
           /\ AuditPage(below).next # 0 => /\ AuditPage(below).next = below - PageSize
                                           /\ Len(AuditPage(below).entries) = PageSize
<1> DEFINE n == IF below - 1 < PageSize THEN below - 1 ELSE PageSize
           es == [i \in 1..n |-> below - i]
<1> USE ConsoleAssumption
<1>1. n \in Nat /\ n <= below - 1 /\ n <= PageSize
  OBVIOUS
<1>2. es \in [1..n -> 1..MaxRows]
  BY <1>1
<1>3. es \in Seq(1..MaxRows) /\ Len(es) = n
  BY <1>1, <1>2
<1>4. AuditPage(below) =
        [entries |-> es, next |-> IF below - 1 > PageSize THEN below - PageSize ELSE 0]
  BY DEF AuditPage
<1> HIDE DEF es
<1>5. AuditPage(below).entries = es
  BY <1>4
<1>6. \A i \in 1..Len(es) : es[i] = below - i
  BY <1>3 DEF es
<1>7. (IF below - 1 > PageSize THEN below - PageSize ELSE 0) \in 0..MaxRows
  OBVIOUS
<1> QED
  BY <1>1, <1>3, <1>4, <1>5, <1>6, <1>7

\* The refreshes are a sequence, and a new one is its last.
LEMMA ReadsGrow ==
    ASSUME TypeOK
    PROVE  /\ reads \in Seq(Read) /\ Len(reads) = latest /\ DOMAIN reads = 1..latest
           /\ latest \in Nat /\ Len(rows) \in Nat /\ Len(rows) \in 0..MaxRows
<1> USE ConsoleAssumption
<1>1. latest \in Nat /\ reads \in [1..latest -> Read]
  BY DEF TypeOK
<1>2. reads \in Seq(Read) /\ Len(reads) = latest
  BY <1>1
<1> QED
  BY <1>1, <1>2 DEF TypeOK

\* A refresh that begins keeps the types.
LEMMA BeginsRefreshKeeps ==
    ASSUME TypeOK, BeginsRefresh
    PROVE  /\ latest' = latest + 1 /\ latest' \in 0..MaxReads
           /\ reads' \in [1..latest' -> Read]
           /\ reads'[latest'] = [pc |-> "open", from |-> Len(rows)]
           /\ \A g \in 1..latest : reads'[g] = reads[g]
<1> USE ConsoleAssumption
<1> DEFINE r == [pc |-> "open", from |-> Len(rows)]
<1>1. reads \in Seq(Read) /\ Len(reads) = latest /\ latest \in Nat /\ Len(rows) \in 0..MaxRows
  BY ReadsGrow
<1>2. latest' = latest + 1 /\ reads' = Append(reads, r) /\ latest' \in 0..MaxReads
  BY <1>1 DEF BeginsRefresh
<1>3. r \in Read
  BY <1>1 DEF Read
<1> HIDE DEF r
<1>4. /\ Append(reads, r) \in Seq(Read) /\ Len(Append(reads, r)) = latest + 1
      /\ Append(reads, r)[latest + 1] = r
      /\ \A g \in 1..latest : Append(reads, r)[g] = reads[g]
  BY <1>1, <1>3
<1>5. reads' \in [1..latest' -> Read]
  <2>1. \A s \in Seq(Read) : s \in [1..Len(s) -> Read]
    OBVIOUS
  <2> QED
    BY <1>2, <1>4, <2>1
<1> QED
  BY <1>2, <1>4, <1>5 DEF r

\* One form goes on.
LEMMA FormGoesOn ==
    TypeOK /\ StoredRows =>
        \A h \in Tables \cup {"signer"}, x \in Handler :
            /\ x.pc = "stored" => x.n \in 1..Len(rows')
            /\ Len(rows') \in Nat /\ Len(rows) <= Len(rows')
            /\ handler' = [handler EXCEPT ![h] = x]
            => handler' \in [Tables \cup {"signer"} -> Handler] /\ StoredRows'
<1> SUFFICES ASSUME TypeOK, StoredRows, NEW h \in Tables \cup {"signer"}, NEW x \in Handler,
                    x.pc = "stored" => x.n \in 1..Len(rows'),
                    Len(rows') \in Nat, Len(rows) <= Len(rows'),
                    handler' = [handler EXCEPT ![h] = x]
             PROVE  handler' \in [Tables \cup {"signer"} -> Handler] /\ StoredRows'
  OBVIOUS
<1>1. handler \in [Tables \cup {"signer"} -> Handler] /\ Len(rows) \in Nat
  BY DEF TypeOK
<1>2. handler' \in [Tables \cup {"signer"} -> Handler]
  BY <1>1
<1>3. ASSUME NEW f \in DOMAIN handler', handler'[f].pc = "stored"
      PROVE  handler'[f].n \in 1..Len(rows')
  <2>1. CASE f = h
    BY <1>1, <1>3, <2>1
  <2>2. CASE f # h
    <3>1. f \in DOMAIN handler /\ handler'[f] = handler[f]
      BY <1>1, <1>2, <1>3, <2>2
    <3>2. handler[f].n \in 1..Len(rows)
      BY <1>3, <3>1 DEF StoredRows
    <3> QED
      BY <1>1, <3>1, <3>2
  <2> QED
    BY <2>1, <2>2
<1> QED
  BY <1>2, <1>3 DEF StoredRows

\* Those who waited for a refresh go on.
LEMMA WhenReadKeeps ==
    ASSUME TypeOK, StoredRows, NEW g, handler' = WhenRead(g), rows' = rows
    PROVE  handler' \in [Tables \cup {"signer"} -> Handler] /\ StoredRows'
<1>1. handler \in [Tables \cup {"signer"} -> Handler]
  BY DEF TypeOK
<1>2. Idle \in Handler /\ [pc |-> "booting", n |-> 0] \in Handler /\ Idle.pc = "idle"
  BY DEF Idle, Handler
<1>3. WhenRead(g) \in [Tables \cup {"signer"} -> Handler]
  BY <1>1, <1>2 DEF WhenRead
<1>4. \A h \in DOMAIN handler : WhenRead(g)[h].pc = "stored" => WhenRead(g)[h] = handler[h]
  BY <1>1, <1>2 DEF WhenRead
<1> QED
  BY <1>1, <1>3, <1>4 DEF StoredRows


-----------------------------------------------------------------------------
(* The refreshes. *)

\* Every step keeps the types, and the row a form waits for.
LEMMA TypeStep == TypeOK /\ StoredRows /\ [Next]_vars => TypeOK' /\ StoredRows'
<1> SUFFICES ASSUME TypeOK, StoredRows, [Next]_vars PROVE TypeOK' /\ StoredRows'
  OBVIOUS
<1> USE ConsoleAssumption
<1> DEFINE Forms == Tables \cup {"signer"}
<1>0. /\ reads \in [1..latest -> Read] /\ latest \in Nat /\ latest \in 0..MaxReads
      /\ rows \in Seq(Tables) /\ Len(rows) \in 0..MaxRows
      /\ handler \in [Forms -> Handler] /\ shown \in [Tables -> 0..MaxRows]
      /\ views \subseteq View /\ saved \subseteq 1..Len(rows) /\ Idle \in Handler
      /\ audit \in [entries: Seq(1..MaxRows), next: 0..MaxRows] /\ more \in 0..MaxRows
      /\ canAdmin \in BOOLEAN /\ spinning \in BOOLEAN /\ torn \in BOOLEAN
  BY ReadsGrow DEF TypeOK, Idle, Handler
<1>a. rows' = rows => Len(rows') \in Nat /\ Len(rows) <= Len(rows')
  BY <1>0
<1>1. ASSUME BeginsRefresh PROVE /\ latest' \in 0..MaxReads /\ reads' \in [1..latest' -> Read]
                                 /\ spinning' \in BOOLEAN /\ shown' = shown /\ audit' = audit
                                 /\ torn' = torn
  BY <1>1, BeginsRefreshKeeps DEF BeginsRefresh
<1>2. CASE ConnectSigner
  <2> DEFINE x == [handler["signer"] EXCEPT !.pc = "asking"]
  <2>1. handler' = [handler EXCEPT !["signer"] = x] /\ rows' = rows
    BY <1>2 DEF ConnectSigner
  <2>2. x \in Handler /\ x.pc = "asking" /\ "signer" \in Forms
    BY <1>0 DEF Handler
  <2> HIDE DEF x
  <2>3. handler' \in [Forms -> Handler] /\ StoredRows'
    BY <1>0, <1>a, <2>1, <2>2, FormGoesOn
  <2> QED
    BY <1>0, <1>2, <2>3 DEF ConnectSigner, TypeOK, page
<1>3. CASE SignerChecked
  <2>1. PICK x \in Handler : x.pc # "stored" /\ handler' = [handler EXCEPT !["signer"] = x]
    <3>1. [pc |-> "reading", n |-> latest + 1] \in Handler /\ Idle.pc = "idle"
      BY <1>0 DEF Handler, Idle
    <3> QED
      BY <1>0, <1>3, <3>1 DEF SignerChecked
  <2>2. handler' \in [Forms -> Handler] /\ StoredRows' /\ canAdmin' \in BOOLEAN
    <3>1. rows' = rows /\ "signer" \in Forms /\ canAdmin' \in BOOLEAN
      BY <1>3 DEF SignerChecked
    <3> QED
      BY <1>0, <1>a, <2>1, <3>1, FormGoesOn
  <2>3. UNCHANGED <<rows, views, more, saved>> /\ (BeginsRefresh \/ UNCHANGED page)
    BY <1>3 DEF SignerChecked
  <2>4. CASE BeginsRefresh
    BY <1>0, <1>1, <2>2, <2>3, <2>4 DEF TypeOK
  <2>5. CASE UNCHANGED page
    BY <1>0, <2>2, <2>3, <2>5 DEF TypeOK, page
  <2> QED
    BY <2>3, <2>4, <2>5
<1>4. CASE PressRefresh
  <2>1. BeginsRefresh /\ UNCHANGED <<forms, rows, views, more>>
    BY <1>4 DEF PressRefresh
  <2> QED
    BY <1>0, <1>1, <2>1 DEF TypeOK, StoredRows, forms
<1>5. ASSUME NEW g \in DOMAIN reads, Refreshed(g) PROVE TypeOK' /\ StoredRows'
  <2>1. reads' \in [1..latest' -> Read] /\ latest' = latest
    BY <1>0, <1>5 DEF Refreshed, Read
  <2>2. handler' \in [Forms -> Handler] /\ StoredRows'
    BY <1>5, WhenReadKeeps DEF Refreshed
  <2>3. shown' \in [Tables -> 0..MaxRows]
    <3>1. reads[g].from \in 0..MaxRows
      BY <1>0, <1>5 DEF Read
    <3>2. shown' \in [Tables -> reads[g].from..Len(rows)] \/ shown' = shown
      BY <1>5 DEF Refreshed
    <3>3. reads[g].from..Len(rows) \subseteq 0..MaxRows
      BY <1>0, <3>1
    <3> QED
      BY <1>0, <3>2, <3>3
  <2>4. audit' \in [entries: Seq(1..MaxRows), next: 0..MaxRows]
    <3>1. CASE Current(g)
      <4>1. PICK n \in reads[g].from..Len(rows) : audit' = AuditPage(n + 1)
        BY <1>5, <3>1 DEF Refreshed
      <4>2. n + 1 \in 1..(MaxRows + 1)
        BY <1>0, <4>1 DEF Read
      <4> QED
        BY <4>1, <4>2, PageOfLog
    <3>2. CASE ~Current(g)
      BY <1>0, <1>5, <3>2 DEF Refreshed
    <3> QED
      BY <3>1, <3>2
  <2>5. spinning' \in BOOLEAN /\ torn' \in BOOLEAN
    BY <1>0, <1>5 DEF Refreshed
  <2> QED
    BY <1>0, <1>5, <2>1, <2>2, <2>3, <2>4, <2>5 DEF Refreshed, TypeOK
<1>6. ASSUME NEW g \in DOMAIN reads, RefreshFails(g) PROVE TypeOK' /\ StoredRows'
  <2>1. reads' \in [1..latest' -> Read] /\ latest' = latest
    BY <1>0, <1>6 DEF RefreshFails, Read
  <2>2. handler' \in [Forms -> Handler] /\ StoredRows'
    BY <1>6, WhenReadKeeps DEF RefreshFails
  <2>3. spinning' \in BOOLEAN
    BY <1>6 DEF RefreshFails
  <2> QED
    BY <1>0, <1>6, <2>1, <2>2, <2>3 DEF RefreshFails, TypeOK
<1>7. ASSUME NEW t \in Tables, NEW typed, Save(t, typed) PROVE TypeOK' /\ StoredRows'
  <2> DEFINE x == [handler[t] EXCEPT !.pc = "writing"]
  <2>1. handler' = [handler EXCEPT ![t] = x] /\ rows' = rows
    BY <1>7 DEF Save
  <2>2. x \in Handler /\ x.pc = "writing" /\ t \in Forms
    BY <1>0 DEF Handler
  <2> HIDE DEF x
  <2>3. handler' \in [Forms -> Handler] /\ StoredRows'
    BY <1>0, <1>a, <2>1, <2>2, FormGoesOn
  <2> QED
    BY <1>0, <1>7, <2>3 DEF Save, TypeOK, page
<1>8. ASSUME NEW t \in Tables, Store(t) PROVE TypeOK' /\ StoredRows'
  <2>1. rows' \in Seq(Tables) /\ Len(rows') = Len(rows) + 1 /\ Len(rows') <= MaxRows
    BY <1>0, <1>8 DEF Store
  <2>2. handler' \in [Forms -> Handler] /\ StoredRows'
    <3> DEFINE x == [pc |-> "stored", n |-> Len(rows) + 1]
    <3>1. x \in Handler /\ x.n \in 1..Len(rows') /\ t \in Forms
      BY <1>0, <2>1 DEF Handler
    <3>3. Len(rows') \in Nat /\ Len(rows) <= Len(rows')
      BY <1>0, <2>1
    <3>2. handler' = [handler EXCEPT ![t] = x]
      BY <1>8 DEF Store
    <3> HIDE DEF x
    <3> QED
      BY <1>0, <3>1, <3>2, <3>3, FormGoesOn
  <2> QED
    BY <1>0, <1>8, <2>1, <2>2 DEF Store, TypeOK, page
<1>9. ASSUME NEW t \in Tables, Saved(t) PROVE TypeOK' /\ StoredRows'
  <2>1. handler' \in [Forms -> Handler] /\ StoredRows'
    <3> DEFINE x == [pc |-> "reading", n |-> latest + 1]
    <3>1. x \in Handler /\ x.pc = "reading" /\ t \in Forms
      BY <1>0 DEF Handler
    <3>2. handler' = [handler EXCEPT ![t] = x] /\ rows' = rows
      BY <1>9 DEF Saved
    <3> HIDE DEF x
    <3> QED
      BY <1>0, <1>a, <3>1, <3>2, FormGoesOn
  <2>2. saved' \subseteq 1..Len(rows')
    BY <1>0, <1>9 DEF Saved, StoredRows
  <2> QED
    BY <1>0, <1>1, <1>9, <2>1, <2>2 DEF Saved, TypeOK
<1>10. ASSUME NEW t \in Tables, SaveFails(t) \/ Bootstrapped(t) PROVE TypeOK' /\ StoredRows'
  <2>1. handler' \in [Forms -> Handler] /\ StoredRows'
    <3>1. handler' = [handler EXCEPT ![t] = Idle] /\ rows' = rows /\ Idle.pc = "idle"
      BY <1>10 DEF SaveFails, Bootstrapped, Idle
    <3>2. t \in Forms
      OBVIOUS
    <3> QED
      BY <1>0, <1>a, <3>1, <3>2, FormGoesOn
  <2> QED
    BY <1>0, <1>10, <2>1 DEF SaveFails, Bootstrapped, TypeOK, page
<1>11. ASSUME NEW t \in Tables, OtherSaves(t) PROVE TypeOK' /\ StoredRows'
  <2>1. rows' \in Seq(Tables) /\ Len(rows') = Len(rows) + 1 /\ Len(rows') <= MaxRows
    BY <1>0, <1>11 DEF OtherSaves
  <2>2. StoredRows'
    BY <1>0, <1>11, <2>1 DEF OtherSaves, forms, StoredRows
  <2> QED
    BY <1>0, <1>11, <2>1, <2>2 DEF OtherSaves, TypeOK, page, forms
<1>12. ASSUME NEW t \in Viewed, LoadView(t) PROVE TypeOK' /\ StoredRows'
  <2>1. views' \subseteq View
    BY <1>0, <1>12 DEF LoadView, View
  <2> QED
    BY <1>0, <1>12, <2>1 DEF LoadView, TypeOK, StoredRows, page, forms
<1>13. ASSUME NEW v \in views, ViewLoaded(v) \/ ViewFails(v) PROVE TypeOK' /\ StoredRows'
  <2>1. v.from \in 0..MaxRows
    BY <1>0 DEF View
  <2>2. shown' \in [Tables -> 0..MaxRows]
    <3>1. CASE ViewLoaded(v)
      <4>1. PICK n \in v.from..Len(rows) : shown' = [shown EXCEPT ![v.table] = n]
        BY <3>1 DEF ViewLoaded
      <4>2. n \in 0..MaxRows
        BY <1>0, <2>1, <4>1
      <4> QED
        BY <1>0, <4>1, <4>2
    <3>2. CASE ViewFails(v)
      BY <1>0, <3>2 DEF ViewFails, page
    <3> QED
      BY <1>13, <3>1, <3>2
  <2> QED
    BY <1>0, <1>13, <2>2 DEF ViewLoaded, ViewFails, TypeOK, StoredRows, page, forms
<1>14. CASE LoadMore
  BY <1>0, <1>14 DEF LoadMore, TypeOK, StoredRows, page, forms
<1>15. CASE MoreLoaded
  <2>1. audit' \in [entries: Seq(1..MaxRows), next: 0..MaxRows]
    <3>1. more \in 1..(MaxRows + 1)
      BY <1>0, <1>15 DEF MoreLoaded
    <3>2. AuditPage(more) \in [entries: Seq(1..MaxRows), next: 0..MaxRows]
      BY <3>1, PageOfLog
    <3>3. audit.entries \o AuditPage(more).entries \in Seq(1..MaxRows)
      BY <1>0, <3>2
    <3>4. Appended(AuditPage(more)) \in [entries: Seq(1..MaxRows), next: 0..MaxRows]
      BY <3>2, <3>3 DEF Appended
    <3> QED
      BY <1>0, <1>15, <3>4 DEF MoreLoaded
  <2>2. torn' \in BOOLEAN
    BY <1>0, <1>15 DEF MoreLoaded
  <2> QED
    BY <1>0, <1>15, <2>1, <2>2 DEF MoreLoaded, TypeOK, StoredRows, forms
<1>16. CASE UNCHANGED vars
  BY <1>0, <1>16 DEF vars, TypeOK, StoredRows
<1> QED
  BY <1>2, <1>3, <1>4, <1>5, <1>6, <1>7, <1>8, <1>9, <1>10, <1>11, <1>12, <1>13, <1>14,
     <1>15, <1>16 DEF Next

\* A refresh that begins asks for every row, and the page says so.
LEMMA BegunRefresh ==
    ASSUME TypeOK, ReadsReach, BeginsRefresh, rows' = rows, saved' \subseteq 1..Len(rows)
    PROVE  ReadsReach' /\ NewestIsShown' /\ SpinnerTells'
<1>1. /\ latest' = latest + 1 /\ latest \in Nat /\ DOMAIN reads = 1..latest
      /\ reads' \in [1..latest' -> Read]
      /\ reads'[latest'] = [pc |-> "open", from |-> Len(rows)]
      /\ \A g \in 1..latest : reads'[g] = reads[g]
  BY BeginsRefreshKeeps, ReadsGrow
<1>2. DOMAIN reads' = 1..latest' /\ Len(rows) \in Nat
  BY <1>1, ReadsGrow
<1>3. \A g \in DOMAIN reads' : reads'[g].from <= Len(rows')
  <2> SUFFICES ASSUME NEW g \in DOMAIN reads' PROVE reads'[g].from <= Len(rows')
    OBVIOUS
  <2>1. CASE g = latest'
    BY <1>1, <1>2, <2>1
  <2>2. CASE g # latest'
    <3>1. g \in DOMAIN reads /\ reads'[g] = reads[g]
      BY <1>1, <1>2, <2>2
    <3> QED
      BY <3>1 DEF ReadsReach
  <2> QED
    BY <2>1, <2>2
<1>4. \A n \in saved' : latest' # 0 /\ n <= reads'[latest'].from
  BY <1>1, <1>2
<1>5. NewestIsShown'
  BY <1>1 DEF NewestIsShown
<1>6. SpinnerTells'
  BY <1>1 DEF SpinnerTells, BeginsRefresh
<1> QED
  BY <1>3, <1>4, <1>5, <1>6 DEF ReadsReach

\* Nothing but a refresh touches what they are about, if no row goes away.
LEMMA RefreshUntouched ==
    ASSUME TypeOK, ReadsReach, NewestIsShown, SpinnerTells,
           UNCHANGED <<latest, reads, spinning, saved>>,
           \A t \in Tables \ Viewed : shown'[t] = shown[t],
           Len(rows) <= Len(rows'), Len(rows') \in Nat
    PROVE  ReadsReach' /\ NewestIsShown' /\ SpinnerTells'
<1>1. /\ reads \in [1..latest -> Read] /\ DOMAIN reads = 1..latest /\ Len(rows) \in Nat
      /\ \A g \in DOMAIN reads : reads[g].from \in Nat
  BY ReadsGrow, ConsoleAssumption DEF TypeOK, Read
<1>2. ReadsReach'
  <2>1. \A g \in DOMAIN reads' : reads'[g].from <= Len(rows')
    <3> SUFFICES ASSUME NEW g \in DOMAIN reads PROVE reads[g].from <= Len(rows')
      OBVIOUS
    <3>1. reads[g].from \in Nat /\ reads[g].from <= Len(rows)
      BY <1>1 DEF ReadsReach
    <3> QED
      BY <1>1, <3>1
  <2> QED
    BY <2>1 DEF ReadsReach
<1>3. NewestIsShown'
  BY DEF NewestIsShown, Viewed
<1>4. SpinnerTells'
  BY DEF SpinnerTells
<1> QED
  BY <1>2, <1>3, <1>4

\* A refresh that ends is shown, or fails, only if it is the newest.
LEMMA RefreshEnds ==
    ASSUME TypeOK, ReadsReach, NewestIsShown, SpinnerTells, NEW g \in DOMAIN reads,
           Refreshed(g) \/ RefreshFails(g)
    PROVE  ReadsReach' /\ NewestIsShown' /\ SpinnerTells'
<1>1. /\ reads \in [1..latest -> Read] /\ latest \in Nat /\ DOMAIN reads = 1..latest
      /\ Len(rows) \in 0..MaxRows /\ reads[g] \in Read /\ g \in 1..latest
      /\ spinning \in BOOLEAN
  BY ReadsGrow DEF TypeOK
<1>2. latest' = latest /\ rows' = rows /\ saved' = saved
  BY DEF Refreshed, RefreshFails
<1>3. PICK pc \in {"done", "failed"} : reads' = [reads EXCEPT ![g].pc = pc]
  BY DEF Refreshed, RefreshFails
<1>4. DOMAIN reads' = 1..latest /\ reads'[g].pc = pc
  BY <1>1, <1>3 DEF Read
<1>8. ASSUME NEW f \in 1..latest
      PROVE  reads'[f].from = reads[f].from /\ (f # g => reads'[f] = reads[f])
  BY <1>1, <1>3 DEF Read
<1>5. ReadsReach'
  <2>1. \A f \in DOMAIN reads' : reads'[f].from <= Len(rows')
    <3> SUFFICES ASSUME NEW f \in 1..latest PROVE reads'[f].from <= Len(rows')
      BY <1>4
    <3>1. reads'[f].from = reads[f].from /\ reads[f].from <= Len(rows)
      BY <1>1, <1>8 DEF ReadsReach
    <3> QED
      BY <1>2, <3>1
  <2>2. ASSUME NEW n \in saved PROVE latest' # 0 /\ n <= reads'[latest'].from
    <3>1. latest # 0 /\ n <= reads[latest].from /\ latest \in 1..latest
      BY <1>1, <2>2 DEF ReadsReach
    <3> QED
      BY <1>2, <1>8, <3>1
  <2> QED
    BY <1>2, <2>1, <2>2 DEF ReadsReach
<1>6. CASE Current(g)
  <2>1. g = latest /\ latest # 0
    BY <1>1, <1>6 DEF Current
  <2>2. SpinnerTells'
    BY <1>2, <1>3, <1>4, <1>6, <2>1 DEF SpinnerTells, Refreshed, RefreshFails
  <2>3. CASE Refreshed(g)
    <3>1. shown' \in [Tables -> reads[g].from..Len(rows)]
      BY <1>6, <2>3 DEF Refreshed
    <3>2. \A t \in Tables : reads[g].from <= shown'[t]
      BY <3>1
    <3>3. NewestIsShown'
      <4>1. reads'[latest'].from = reads[g].from
        BY <1>1, <1>2, <1>8, <2>1
      <4> QED
        BY <3>2, <4>1 DEF NewestIsShown
    <3> QED
      BY <1>5, <2>2, <3>3
  <2>4. CASE RefreshFails(g)
    <3>1. reads'[g].pc = "failed"
      BY <1>1, <2>4 DEF RefreshFails, Read
    <3>2. NewestIsShown'
      BY <1>2, <2>1, <3>1 DEF NewestIsShown
    <3> QED
      BY <1>5, <2>2, <3>2
  <2> QED
    BY <2>3, <2>4
<1>7. CASE ~Current(g)
  <2>1. g # latest /\ latest # 0 /\ latest \in 1..latest
    BY <1>1, <1>7 DEF Current
  <2>2. reads'[latest] = reads[latest] /\ shown' = shown
    BY <1>7, <1>8, <2>1 DEF Refreshed, RefreshFails
  <2>3. spinning' = spinning
    BY <1>1, <1>7 DEF Refreshed, RefreshFails
  <2> QED
    BY <1>2, <1>5, <2>1, <2>2, <2>3 DEF NewestIsShown, SpinnerTells, Viewed
<1> QED
  BY <1>6, <1>7

\* Every step keeps what is known of the refreshes.
LEMMA RefreshStep == RefreshInv /\ [Next]_vars => RefreshInv'
<1> SUFFICES ASSUME RefreshInv, [Next]_vars PROVE RefreshInv'
  OBVIOUS
<1> USE ConsoleAssumption
<1>0. TypeOK /\ StoredRows /\ ReadsReach /\ NewestIsShown /\ SpinnerTells
  BY DEF RefreshInv
<1>1. TypeOK' /\ StoredRows'
  BY <1>0, TypeStep
<1>2. Len(rows) \in Nat /\ Len(rows') \in Nat /\ saved \subseteq 1..Len(rows)
  BY <1>0, <1>1 DEF TypeOK
<1> DEFINE Kept == ReadsReach' /\ NewestIsShown' /\ SpinnerTells'
<1>3. ASSUME BeginsRefresh, rows' = rows PROVE Kept
  BY <1>0, <1>1, <1>3, BegunRefresh DEF TypeOK
<1>4. ASSUME UNCHANGED <<latest, reads, spinning, saved>>,
             \A t \in Tables \ Viewed : shown'[t] = shown[t], Len(rows) <= Len(rows')
      PROVE  Kept
  BY <1>0, <1>2, <1>4, RefreshUntouched
<1>5. ASSUME UNCHANGED <<latest, reads, spinning, saved, shown, rows>> PROVE Kept
  BY <1>2, <1>4, <1>5
<1>6. ASSUME ConnectSigner PROVE Kept
  BY <1>5, <1>6 DEF ConnectSigner, page
<1>7. ASSUME SignerChecked PROVE Kept
  BY <1>3, <1>5, <1>7 DEF SignerChecked, page
<1>8. ASSUME PressRefresh PROVE Kept
  BY <1>3, <1>8 DEF PressRefresh
<1>9. ASSUME NEW g \in DOMAIN reads, Refreshed(g) \/ RefreshFails(g) PROVE Kept
  BY <1>0, <1>9, RefreshEnds
<1>10. ASSUME NEW t \in Tables, NEW typed, Save(t, typed) PROVE Kept
  BY <1>5, <1>10 DEF Save, page
<1>11. ASSUME NEW t \in Tables, Store(t) \/ OtherSaves(t) PROVE Kept
  <2>1. Len(rows') = Len(rows) + 1
    BY <1>0, <1>11 DEF Store, OtherSaves, TypeOK
  <2>2. UNCHANGED <<latest, reads, spinning, saved, shown>>
    BY <1>11 DEF Store, OtherSaves, page, forms
  <2> QED
    BY <1>2, <1>4, <2>1, <2>2
<1>12. ASSUME NEW t \in Tables, Saved(t) PROVE Kept
  BY <1>3, <1>12 DEF Saved
<1>13. ASSUME NEW t \in Tables, SaveFails(t) \/ Bootstrapped(t) PROVE Kept
  BY <1>5, <1>13 DEF SaveFails, Bootstrapped, page
<1>14. ASSUME NEW t \in Viewed, LoadView(t) PROVE Kept
  BY <1>5, <1>14 DEF LoadView, page, forms
<1>15. ASSUME NEW v \in views, ViewLoaded(v) PROVE Kept
  <2>1. v.table \in Viewed /\ shown \in [Tables -> 0..MaxRows]
    BY <1>0 DEF TypeOK, View
  <2>2. \A t \in Tables \ Viewed : shown'[t] = shown[t]
    BY <1>15, <2>1 DEF ViewLoaded
  <2>3. UNCHANGED <<latest, reads, spinning, saved, rows>>
    BY <1>15 DEF ViewLoaded, forms
  <2> QED
    BY <1>2, <1>4, <2>2, <2>3
<1>16. ASSUME NEW v \in views, ViewFails(v) PROVE Kept
  BY <1>5, <1>16 DEF ViewFails, page, forms
<1>17. ASSUME LoadMore \/ MoreLoaded PROVE Kept
  BY <1>5, <1>17 DEF LoadMore, MoreLoaded, page, forms
<1>18. ASSUME UNCHANGED vars PROVE Kept
  BY <1>5, <1>18 DEF vars
<1>19. Kept
  BY <1>6, <1>7, <1>8, <1>9, <1>10, <1>11, <1>12, <1>13, <1>14, <1>15, <1>16, <1>17, <1>18
     DEF Next
<1> QED
  BY <1>1, <1>19 DEF RefreshInv

-----------------------------------------------------------------------------
(* The audit log. *)

\* Other steps leave the log alone, if no row goes away and the newest refresh
\* stays what it was, or ends, or is a new one.
LEMMA LogUntouched ==
    ASSUME TypeOK, LogInv, UNCHANGED <<audit, more, torn>>, Len(rows') \in Nat,
           Len(rows) <= Len(rows'),
           \/ latest' = latest /\ (latest # 0 => \/ reads'[latest] = reads[latest]
                                                 \/ reads'[latest].pc # "open")
           \/ latest' # 0 /\ reads'[latest'].from = Len(rows)
    PROVE  LogInv'
<1> DEFINE log == audit.entries
<1>1. log \in Seq(1..MaxRows) /\ Len(rows) \in Nat
  BY DEF TypeOK
<1>2. log # << >> => log[1] \in Nat
  BY <1>1, ConsoleAssumption
<1>3. AuditInOrder'
  BY DEF LogInv, AuditInOrder
<1>4. AuditChain'
  BY <1>1, <1>2 DEF LogInv, AuditChain
<1> QED
  BY <1>3, <1>4 DEF LogInv

\* The newest refresh brings a first page that begins no lower than what was
\* shown, so the cursor that was asked for is not above its end.
LEMMA LogShownAnew ==
    ASSUME TypeOK, ReadsReach, LogInv, NEW g \in DOMAIN reads, Refreshed(g), Current(g)
    PROVE  LogInv'
<1> USE ConsoleAssumption
<1>1. /\ g = latest /\ latest # 0 /\ latest' = latest /\ more' = more /\ rows' = rows
      /\ reads[g].pc = "open" /\ torn' = FALSE /\ reads[g] \in Read
      /\ Len(rows) \in 0..MaxRows /\ more \in 0..MaxRows
      /\ audit \in [entries: Seq(1..MaxRows), next: 0..MaxRows]
  BY ReadsGrow DEF Refreshed, Current, TypeOK
<1>2. reads'[g].pc = "done"
  BY ReadsGrow DEF Refreshed, TypeOK, Read
<1>3. PICK n \in reads[g].from..Len(rows) : audit' = AuditPage(n + 1)
  BY DEF Refreshed
<1>4. n \in Nat /\ n + 1 \in 1..(MaxRows + 1) /\ reads[g].from <= n /\ n <= Len(rows)
  BY <1>1, <1>3 DEF Read
<1> DEFINE b == n + 1
           old == audit.entries
           log == audit'.entries
<1>5. b \in 1..(MaxRows + 1) /\ b \in Nat /\ b - 1 = n /\ audit' = AuditPage(b)
  BY <1>3, <1>4
<1> HIDE DEF b
<1>6. /\ log \in Seq(1..MaxRows) /\ Len(log) \in Nat /\ audit'.next \in 0..MaxRows
  BY <1>5, PageOfLog
<1>7. Len(log) = IF n < PageSize THEN n ELSE PageSize
  BY <1>5, PageOfLog
<1>8. \A i \in 1..Len(log) : log[i] = b - i
  BY <1>5, PageOfLog
<1>9. audit'.next # 0 => audit'.next = b - PageSize /\ Len(log) = PageSize
  BY <1>5, PageOfLog
<1> HIDE DEF log
<1>10. log # << >> => Len(log) # 0 /\ log[1] = n /\ log[Len(log)] = b - Len(log)
  <2> SUFFICES ASSUME log # << >> PROVE Len(log) # 0 /\ log[1] = n /\ log[Len(log)] = b - Len(log)
    OBVIOUS
  <2>1. Len(log) # 0
    BY <1>6
  <2>2. 1 \in 1..Len(log) /\ Len(log) \in 1..Len(log)
    BY <1>6, <2>1
  <2>3. log[1] = b - 1 /\ log[Len(log)] = b - Len(log)
    BY <1>8, <2>2
  <2> QED
    BY <1>5, <2>1, <2>3
<1>11. ASSUME more # 0 PROVE log # << >> /\ more <= log[Len(log)] /\ more + PageSize <= b
  <2>1. old # << >> /\ old \in Seq(1..MaxRows) /\ old[1] \in Nat
    BY <1>1, <1>11 DEF LogInv, AuditChain
  <2>2. more + PageSize <= old[1] + 1 /\ old[1] <= reads[g].from
    BY <1>1, <1>11, <2>1 DEF LogInv, AuditChain
  <2>3. reads[g].from \in Nat
    BY <1>1 DEF Read
  <2>4. more + PageSize <= n + 1 /\ PageSize <= n
    <3> DEFINE o == old[1]
               f == reads[g].from
    <3>1. o \in Nat /\ f \in Nat /\ more \in Nat \ {0} /\ n \in Nat /\ PageSize \in Nat \ {0}
      BY <1>1, <1>4, <1>11, <2>1, <2>3
    <3>2. more + PageSize <= o + 1 /\ o <= f /\ f <= n
      BY <1>4, <2>2
    <3> HIDE DEF o, f
    <3> QED
      BY <3>1, <3>2
  <2>5. more + PageSize <= b
    BY <1>5, <1>4, <2>4 DEF b
  <2>6. Len(log) = PageSize
    BY <1>4, <1>7, <2>4
  <2>7. log # << >>
    BY <1>6, <2>6
  <2>8. log[Len(log)] = b - PageSize
    BY <1>10, <2>6, <2>7
  <2> QED
    BY <1>1, <1>5, <2>5, <2>7, <2>8
<1>12. ASSUME audit'.next # 0
       PROVE  log # << >> /\ audit'.next = log[Len(log)] /\ audit'.next + PageSize <= b
  <2>1. audit'.next = b - PageSize /\ Len(log) = PageSize
    BY <1>9, <1>12
  <2>2. log # << >>
    BY <1>6, <2>1
  <2>3. log[Len(log)] = b - PageSize
    BY <1>10, <2>1, <2>2
  <2> QED
    BY <1>5, <2>1, <2>2, <2>3
<1>13. AuditChain'
  <2>1. log # << >> => log[1] = n /\ n <= Len(rows) /\ n + 1 = b
    BY <1>4, <1>10 DEF b
  <2>2. ~(reads'[latest].pc = "open")
    BY <1>1, <1>2
  <2> QED
    BY <1>1, <1>11, <1>12, <2>1, <2>2 DEF AuditChain, log
<1>14. AuditInOrder'
  <2> SUFFICES ASSUME NEW i \in 1..(Len(log) - 1)
               PROVE  log[i] > log[i + 1] /\ log[i] = log[i + 1] + 1
    BY DEF AuditInOrder, log
  <2>1. i \in 1..Len(log) /\ i + 1 \in 1..Len(log) /\ i \in Nat
    BY <1>6
  <2>2. log[i] = b - i /\ log[i + 1] = b - (i + 1)
    BY <1>8, <2>1
  <2>3. b \in Nat /\ i \in Nat
    BY <1>5, <2>1
  <2>4. b - i > b - (i + 1) /\ b - i = b - (i + 1) + 1
    BY <2>3
  <2> QED
    BY <2>2, <2>4
<1> QED
  BY <1>13, <1>14 DEF LogInv

\* Where the entries of two pages are once the second is appended.
LEMMA JoinedPages ==
    ASSUME NEW a \in Seq(1..MaxRows), NEW b \in Seq(1..MaxRows)
    PROVE  /\ Len(a \o b) = Len(a) + Len(b)
           /\ \A i \in 1..Len(a) : (a \o b)[i] = a[i]
           /\ \A i \in 1..Len(b) : (a \o b)[Len(a) + i] = b[i]
<1>1. /\ Len(a \o b) = Len(a) + Len(b)
      /\ \A i \in 1..(Len(a) + Len(b)) : (a \o b)[i] = IF i <= Len(a) THEN a[i] ELSE b[i - Len(a)]
  BY ConcatProperties
<1> DEFINE k == Len(a)
           m == Len(b)
           c == a \o b
<1>2. k \in Nat /\ m \in Nat
  OBVIOUS
<1>3. \A i \in 1..(k + m) : c[i] = IF i <= k THEN a[i] ELSE b[i - k]
  BY <1>1
<1> HIDE DEF k, m, c
<1>4. \A i \in 1..k : c[i] = a[i]
  BY <1>2, <1>3
<1>5. \A i \in 1..m : c[k + i] = b[i]
  <2> SUFFICES ASSUME NEW i \in 1..m PROVE c[k + i] = b[i]
    OBVIOUS
  <2>1. k + i \in 1..(k + m) /\ ~(k + i <= k) /\ (k + i) - k = i
    BY <1>2
  <2> QED
    BY <1>3, <2>1
<1> QED
  BY <1>1, <1>4, <1>5 DEF k, m, c

\* The next page goes on below its cursor, and the cursor is not above the end
\* of what is shown; it is that end itself unless a refresh came in between.
LEMMA LogGrows ==
    ASSUME TypeOK, LogInv, MoreLoaded, audit' = Appended(AuditPage(more)),
           torn' = (torn \/ audit.next # more)
    PROVE  LogInv'
<1> USE ConsoleAssumption
<1> DEFINE old == audit.entries
           new == AuditPage(more)
           log == audit'.entries
<1>1. /\ more \in 1..(MaxRows + 1) /\ more' = 0 /\ UNCHANGED <<rows, latest, reads>>
      /\ old \in Seq(1..MaxRows) /\ Len(rows) \in Nat
  BY DEF TypeOK, MoreLoaded
<1>2. /\ new.entries \in Seq(1..MaxRows) /\ new.next \in 0..MaxRows
      /\ \A i \in 1..Len(new.entries) : new.entries[i] = more - i
      /\ new.next # 0 => new.next = more - PageSize /\ Len(new.entries) = PageSize
  BY <1>1, PageOfLog
<1>3. log = old \o new.entries /\ audit'.next = new.next
  BY DEF Appended
<1> HIDE DEF new, log
<1>4. old # << >> /\ more <= old[Len(old)] /\ more + PageSize <= old[1] + 1
  BY <1>1 DEF LogInv, AuditChain
<1> DEFINE k == Len(old)
           m == Len(new.entries)
<1>5. k \in Nat \ {0} /\ m \in Nat /\ \A i \in 1..k : old[i] \in Nat
  <2>1. k \in Nat \ {0} /\ m \in Nat
    BY <1>1, <1>2, <1>4
  <2>2. \A i \in 1..k : old[i] \in 1..MaxRows
    BY <1>1
  <2> QED
    BY <2>1, <2>2
<1>6. /\ Len(log) = k + m
      /\ \A i \in 1..k : log[i] = old[i]
      /\ \A i \in 1..m : log[k + i] = more - i
  <2>1. log = old \o new.entries /\ k = Len(old) /\ m = Len(new.entries)
    BY <1>3
  <2>2. \A i \in 1..m : log[k + i] = new.entries[i]
    <3> DEFINE both == old \o new.entries
    <3>1. \A i \in 1..Len(new.entries) : both[Len(old) + i] = new.entries[i]
      <4> DEFINE b == new.entries
      <4>1. old \in Seq(1..MaxRows) /\ b \in Seq(1..MaxRows)
        BY <1>1, <1>2
      <4> HIDE DEF old, b
      <4>2. \A i \in 1..Len(b) : (old \o b)[Len(old) + i] = b[i]
        BY <4>1, JoinedPages
      <4> QED
        BY <4>2 DEF old, b
    <3> HIDE DEF both
    <3>2. \A i \in 1..m : both[k + i] = new.entries[i]
      BY <3>1
    <3> HIDE DEF k, m
    <3>3. log = both
      BY <2>1 DEF both
    <3> QED
      BY <3>2, <3>3
  <2>3. Len(log) = k + m /\ \A i \in 1..k : log[i] = old[i]
    BY <1>1, <1>2, <2>1, JoinedPages
  <2> QED
    BY <1>2, <2>2, <2>3
<1> HIDE DEF k, m
<1>7. AuditChain'
  <2>1. log # << >> /\ log[1] = old[1] /\ old[1] \in Nat
    BY <1>5, <1>6
  <2>2. ASSUME new.next # 0
        PROVE  new.next = log[Len(log)] /\ new.next + PageSize <= log[1] + 1
    <3>1. m = PageSize /\ new.next = more - PageSize
      BY <1>2, <2>2 DEF m
    <3>2. log[k + m] = more - m /\ Len(log) = k + m
      BY <1>5, <1>6, <3>1
    <3>3. new.next = log[Len(log)]
      BY <3>1, <3>2
    <3>4. more + PageSize <= log[1] + 1 /\ log[1] \in Nat
      BY <1>4, <2>1
    <3> QED
      BY <1>1, <3>1, <3>3, <3>4
  <2>3. old[1] <= Len(rows) /\ (latest # 0 /\ reads[latest].pc = "open" => old[1] <= reads[latest].from)
    BY <1>4 DEF LogInv, AuditChain
  <2> QED
    BY <1>1, <1>3, <2>1, <2>2, <2>3 DEF AuditChain, log
<1>8. AuditInOrder'
  <2> SUFFICES ASSUME NEW i \in 1..(Len(log) - 1)
               PROVE  log[i] > log[i + 1] /\ (~torn' => log[i] = log[i + 1] + 1)
    BY DEF AuditInOrder, log
  <2>1. i \in Nat /\ i >= 1 /\ i <= k + m - 1
    BY <1>5, <1>6
  <2>2. CASE i < k
    <3>1. i \in 1..(k - 1) /\ i \in 1..k /\ i + 1 \in 1..k
      BY <1>5, <2>1, <2>2
    <3>2. old[i] > old[i + 1] /\ (~torn => old[i] = old[i + 1] + 1)
      BY <3>1 DEF LogInv, AuditInOrder, k
    <3>3. log[i] = old[i] /\ log[i + 1] = old[i + 1]
      BY <1>6, <3>1
    <3> QED
      BY <3>2, <3>3
  <2>3. CASE i = k
    <3>1. i \in 1..k /\ 1 \in 1..m
      BY <1>5, <2>1, <2>3
    <3>2. log[i] = old[k] /\ log[i + 1] = more - 1 /\ old[k] \in Nat
      BY <1>5, <1>6, <2>3, <3>1
    <3>3. more <= old[k]
      BY <1>4 DEF k
    <3>4. ~torn' => more = old[k]
      <4>1. ~torn' => audit.next = more
        OBVIOUS
      <4>2. audit.next # 0 => audit.next = old[k]
        BY DEF LogInv, AuditChain, k
      <4> QED
        BY <1>1, <4>1, <4>2
    <3> QED
      BY <1>1, <3>2, <3>3, <3>4
  <2>4. CASE i > k
    <3>1. i - k \in 1..m /\ i + 1 - k \in 1..m
      BY <1>5, <2>1, <2>4
    <3>2. log[k + (i - k)] = more - (i - k) /\ log[k + (i + 1 - k)] = more - (i + 1 - k)
      BY <1>6, <3>1
    <3>3. k \in Nat /\ more \in Nat
      BY <1>1, <1>5
    <3>4. k + (i - k) = i /\ k + (i + 1 - k) = i + 1
      BY <2>1, <3>3
    <3>5. log[i] = more - (i - k) /\ log[i + 1] = more - (i + 1 - k)
      BY <3>2, <3>4
    <3> HIDE DEF log
    <3> QED
      BY <2>1, <3>3, <3>5
  <2> QED
    BY <1>5, <2>1, <2>2, <2>3, <2>4
<1> QED
  BY <1>7, <1>8 DEF LogInv

\* Every step keeps the audit log as it is shown in order.
LEMMA LogStep == RefreshInv /\ LogInv /\ [Next]_vars => LogInv'
<1> SUFFICES ASSUME RefreshInv, LogInv, [Next]_vars PROVE LogInv'
  OBVIOUS
<1> USE ConsoleAssumption
<1>0. /\ TypeOK /\ ReadsReach /\ TypeOK'
      /\ reads \in [1..latest -> Read] /\ latest \in Nat
      /\ Len(rows) \in Nat /\ Len(rows') \in Nat
  <2>1. TypeOK /\ ReadsReach
    BY DEF RefreshInv
  <2>2. TypeOK'
    BY RefreshStep DEF RefreshInv
  <2>3. reads \in [1..latest -> Read] /\ latest \in Nat /\ Len(rows) \in Nat
    BY <2>1 DEF TypeOK
  <2>4. Len(rows') \in Nat
    BY <2>2 DEF TypeOK
  <2> QED
    BY <2>1, <2>2, <2>3, <2>4
<1>1. ASSUME BeginsRefresh, UNCHANGED <<rows, more>> PROVE LogInv'
  <2>1. latest' # 0 /\ reads'[latest'].from = Len(rows)
    BY <1>0, <1>1, BeginsRefreshKeeps
  <2> QED
    BY <1>0, <1>1, <2>1, LogUntouched DEF BeginsRefresh
<1>2. ASSUME UNCHANGED <<latest, reads, audit, more, torn>>, Len(rows) <= Len(rows') PROVE LogInv'
  BY <1>0, <1>2, LogUntouched
<1>3. ASSUME UNCHANGED <<latest, reads, audit, more, torn, rows>> PROVE LogInv'
  BY <1>0, <1>2, <1>3
<1>4. CASE ConnectSigner
  BY <1>3, <1>4 DEF ConnectSigner, page
<1>5. CASE SignerChecked
  BY <1>1, <1>3, <1>5 DEF SignerChecked, page
<1>6. CASE PressRefresh
  BY <1>1, <1>6 DEF PressRefresh
<1>7. ASSUME NEW g \in DOMAIN reads, Refreshed(g) PROVE LogInv'
  <2>1. CASE Current(g)
    BY <1>0, <1>7, <2>1, LogShownAnew
  <2>2. CASE ~Current(g)
    <3>1. UNCHANGED <<latest, rows, audit, more, torn>> /\ g # latest
      BY <1>7, <2>2 DEF Refreshed, Current
    <3>2. latest # 0 => reads'[latest] = reads[latest]
      BY <1>0, <1>7, <3>1 DEF Refreshed
    <3> QED
      BY <1>0, <3>1, <3>2, LogUntouched
  <2> QED
    BY <2>1, <2>2
<1>8. ASSUME NEW g \in DOMAIN reads, RefreshFails(g) PROVE LogInv'
  <2>1. UNCHANGED <<latest, rows, audit, more, torn>>
    BY <1>8 DEF RefreshFails
  <2>2. latest # 0 => reads'[latest] = reads[latest] \/ reads'[latest].pc # "open"
    BY <1>0, <1>8 DEF RefreshFails, Read
  <2> QED
    BY <1>0, <2>1, <2>2, LogUntouched
<1>9. ASSUME NEW t \in Tables, NEW typed, Save(t, typed) PROVE LogInv'
  BY <1>3, <1>9 DEF Save, page
<1>10. ASSUME NEW t \in Tables, Store(t) \/ OtherSaves(t) PROVE LogInv'
  <2>1. Len(rows') = Len(rows) + 1
    BY <1>0, <1>10 DEF Store, OtherSaves, TypeOK
  <2> QED
    BY <1>0, <1>2, <1>10, <2>1 DEF Store, OtherSaves, page
<1>11. ASSUME NEW t \in Tables, Saved(t) PROVE LogInv'
  BY <1>1, <1>11 DEF Saved
<1>12. ASSUME NEW t \in Tables, SaveFails(t) \/ Bootstrapped(t) PROVE LogInv'
  BY <1>3, <1>12 DEF SaveFails, Bootstrapped, page
<1>13. ASSUME NEW t \in Viewed, LoadView(t) PROVE LogInv'
  BY <1>3, <1>13 DEF LoadView, page
<1>14. ASSUME NEW v \in views, ViewLoaded(v) \/ ViewFails(v) PROVE LogInv'
  BY <1>3, <1>14 DEF ViewLoaded, ViewFails, page
<1>15. CASE LoadMore
  <2>1. more' = audit.next /\ audit.next # 0 /\ UNCHANGED <<latest, reads, audit, torn, rows>>
    BY <1>15 DEF LoadMore, page
  <2>2. audit.entries \in Seq(1..MaxRows) /\ audit.next \in Nat
    BY <1>0 DEF TypeOK
  <2>3. audit.entries # << >> => audit.entries[Len(audit.entries)] \in Nat
    BY <2>2
  <2>4. AuditChain'
    BY <2>1, <2>2, <2>3 DEF LogInv, AuditChain
  <2>5. AuditInOrder'
    BY <2>1 DEF LogInv, AuditInOrder
  <2> QED
    BY <2>4, <2>5 DEF LogInv
<1>16. CASE MoreLoaded
  <2>1. CASE audit' = Appended(AuditPage(more)) /\ torn' = (torn \/ audit.next # more)
    BY <1>0, <1>16, <2>1, LogGrows
  <2>2. CASE UNCHANGED <<audit, torn>>
    <3>1. more' = 0 /\ UNCHANGED <<latest, reads, rows>>
      BY <1>16 DEF MoreLoaded
    <3>2. AuditChain' /\ AuditInOrder'
      BY <2>2, <3>1 DEF LogInv, AuditChain, AuditInOrder
    <3> QED
      BY <3>2 DEF LogInv
  <2> QED
    BY <1>16, <2>1, <2>2 DEF MoreLoaded
<1>17. CASE UNCHANGED vars
  BY <1>3, <1>17 DEF vars
<1> QED
  BY <1>4, <1>5, <1>6, <1>7, <1>8, <1>9, <1>10, <1>11, <1>12, <1>13, <1>14, <1>15, <1>16,
     <1>17 DEF Next

-----------------------------------------------------------------------------
(* The theorems. *)

\* The page as it opens.
LEMMA InitConsole == Init => ConsoleInv
<1> SUFFICES ASSUME Init PROVE ConsoleInv
  OBVIOUS
<1> USE ConsoleAssumption DEF Init
<1>1. rows = << >> /\ Len(rows) = 0 /\ rows \in Seq(Tables) /\ audit = NoAudit
  OBVIOUS
<1>2. audit.entries = << >> /\ audit.next = 0 /\ audit \in [entries: Seq(1..MaxRows), next: 0..MaxRows]
  BY DEF NoAudit
<1>3. reads \in [1..latest -> Read] /\ DOMAIN reads = {}
  OBVIOUS
<1>4. handler \in [Tables \cup {"signer"} -> Handler]
  BY DEF Idle, Handler
<1>5. TypeOK
  <2>1. rows \in Seq(Tables) /\ Len(rows) <= MaxRows /\ saved \subseteq 1..Len(rows)
    BY <1>1
  <2>2. canAdmin \in BOOLEAN /\ spinning \in BOOLEAN /\ torn \in BOOLEAN /\ views \subseteq View
    OBVIOUS
  <2>3. latest \in 0..MaxReads /\ more \in 0..MaxRows
    OBVIOUS
  <2>4. shown \in [Tables -> 0..MaxRows]
    OBVIOUS
  <2> QED
    BY <1>2, <1>3, <1>4, <2>1, <2>2, <2>3, <2>4 DEF TypeOK
<1>6. StoredRows /\ ReadsReach /\ NewestIsShown /\ SpinnerTells
  BY <1>3 DEF StoredRows, ReadsReach, NewestIsShown, SpinnerTells, Idle
<1>7. LogInv
  BY <1>2 DEF LogInv, AuditChain, AuditInOrder
<1> QED
  BY <1>5, <1>6, <1>7 DEF ConsoleInv, RefreshInv

\* The inductive invariant of the page.
LEMMA ConsoleHolds == Spec => []ConsoleInv
<1>1. ConsoleInv /\ [Next]_vars => ConsoleInv'
  BY RefreshStep, LogStep DEF ConsoleInv
<1> QED
  BY <1>1, InitConsole, PTL DEF Spec

\* Every row whose save was answered is shown, or the newest refresh has yet to
\* bring it or has failed, whatever refreshes overlap (refreshGovernanceData).
THEOREM SavedRowsAreShown == Spec => []SavedIsShown
<1>1. RefreshInv => SavedIsShown
  <2> SUFFICES ASSUME RefreshInv, NEW n \in saved, rows[n] \notin Viewed,
                      ~(reads[latest].pc = "failed"),
                      ~(reads[latest].pc = "open" /\ reads[latest].from >= n)
               PROVE  shown[rows[n]] >= n
    BY DEF SavedIsShown
  <2>1. /\ reads \in [1..latest -> Read] /\ latest \in Nat /\ rows[n] \in Tables
        /\ shown \in [Tables -> 0..MaxRows] /\ n \in Nat
    BY ReadsGrow DEF RefreshInv, TypeOK
  <2>2. latest # 0 /\ n <= reads[latest].from /\ reads[latest] \in Read
    BY <2>1 DEF RefreshInv, ReadsReach
  <2>3. reads[latest].from \in Nat /\ reads[latest].pc = "done"
    BY <2>1, <2>2, ConsoleAssumption DEF Read
  <2>4. reads[latest].from <= shown[rows[n]] /\ shown[rows[n]] \in Nat
    BY <2>1, <2>2, <2>3, ConsoleAssumption DEF RefreshInv, NewestIsShown
  <2> QED
    BY <2>1, <2>2, <2>3, <2>4
<1> QED
  BY <1>1, ConsoleHolds, PTL DEF ConsoleInv

\* The page says that it is refreshing exactly while its newest refresh is open.
THEOREM SpinnerIsTrue == Spec => []SpinnerTells
<1>1. ConsoleInv => SpinnerTells
  BY DEF ConsoleInv, RefreshInv
<1> QED
  BY <1>1, ConsoleHolds, PTL

\* The audit log has no entry twice or out of order, and no gap unless a page
\* was asked for before a refresh and came after it (loadMoreAuditEntries).
THEOREM AuditStaysInOrder == Spec => []AuditInOrder
<1>1. ConsoleInv => AuditInOrder
  BY DEF ConsoleInv, LogInv
<1> QED
  BY <1>1, ConsoleHolds, PTL
=============================================================================
