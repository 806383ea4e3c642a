----------------------------- MODULE MoneyProofs -----------------------------
(***************************************************************************)
(* Proofs about the user's money other than cards, for any devices, goals, *)
(* loans, ledger entries, people and amounts: Ledger, Goals, Loans and     *)
(* Groups by themselves, NetWorth, which runs the first three together,    *)
(* and MCMoney, which runs each of them.                                   *)
(***************************************************************************)
EXTENDS MCMoney, AmortizationProofs

\* What was there and the difference to what was computed is what was computed.
LEMMA Difference ==
    ASSUME NEW x \in Int, NEW y \in Int
    PROVE  x + (y - x) = y
OBVIOUS

\* Rounding to paise moves an amount by half a paisa at most, and whole paise not at all.
LEMMA WholePaiseRounds ==
    ASSUME NEW amount \in Nat
    PROVE  /\ WholePaise(amount) \in Nat
           /\ 10 * WholePaise(amount) - amount \in -5 .. 5
           /\ amount % 10 = 0 => 10 * WholePaise(amount) = amount
BY DEF WholePaise

\* A column keeps whole paise: it is off by half a paisa at most, and not at all for whole
\* ones.
LEMMA StoredRounds ==
    ASSUME NEW amount \in Nat
    PROVE  /\ Stored(amount) \in Nat
           /\ Stored(amount) % 10 = 0
           /\ Stored(amount) - amount \in -5 .. 5
           /\ amount % 10 = 0 => Stored(amount) = amount
BY DEF Stored

-----------------------------------------------------------------------------
(* Ledger.                                                                 *)

\* The kinds of requests.
LEMMA LedgerRequestKind ==
    ASSUME LedgerTypeOK, NEW c \in Client
    PROVE  /\ ledgerReq[c].op \in {"none", "update", "delete", "list"}
           /\ ledgerReq[c].op = "none" <=> ledgerReq[c] = NoRequest
           /\ ledgerReq[c].op = "update" => ledgerReq[c] \in LedgerUpdate
           /\ ledgerReq[c].op = "delete" => ledgerReq[c] \in LedgerDelete
           /\ ledgerReq[c].op = "list" => ledgerReq[c] \in LedgerList
<1>1. CASE ledgerReq[c] = NoRequest
  BY <1>1 DEF NoRequest
<1>2. CASE ledgerReq[c] \in LedgerUpdate
  BY <1>2 DEF LedgerUpdate, NoRequest
<1>3. CASE ledgerReq[c] \in LedgerDelete
  BY <1>3 DEF LedgerDelete, NoRequest
<1>4. CASE ledgerReq[c] \in LedgerList
  BY <1>4 DEF LedgerList, NoRequest
<1> QED
  BY <1>1, <1>2, <1>3, <1>4 DEF LedgerTypeOK

\* Adding the cash that an entry lacks.
LEMMA EnsuredType ==
    ASSUME NEW e \in LedgerEntry, NEW row \in LedgerRow, NEW rows \in SUBSET CashRow,
           NEW after \in Ensured(e, row, rows)
    PROVE  after \in SUBSET CashRow
<1>1. CASE CashOf(e, rows) # {}
  BY <1>1 DEF Ensured
<1>2. CASE CashOf(e, rows) = {}
  <2>1. PICK id \in FreeCashIds(rows) :
          after = rows \union {[id |-> id, entry |-> e, type |-> CashType(row.direction), amount |-> row.amount]}
    BY <1>2 DEF Ensured
  <2>2. [id |-> id, entry |-> e, type |-> CashType(row.direction), amount |-> row.amount] \in CashRow
    BY DEF CashRow, FreeCashIds, LedgerRow, CashType
  <2> QED
    BY <2>1, <2>2
<1> QED
  BY <1>1, <1>2

\* A flush leaves a row a row.
LEMMA LedgerFlush ==
    ASSUME NEW current \in LedgerRow, NEW loaded \in LedgerRow, NEW computed \in LedgerRow
    PROVE  /\ Flush(current, loaded, computed) \in LedgerRow
           /\ current = loaded => Flush(current, loaded, computed) = computed
           /\ loaded.status = computed.status => Flush(current, loaded, computed).status = current.status
<1> USE DEF LedgerRow
<1>1. Flush(current, loaded, computed) \in LedgerRow
  BY DEF Flush
<1>2. current = loaded => Flush(current, loaded, computed) = computed
  BY DEF Flush
<1>3. loaded.status = computed.status => Flush(current, loaded, computed).status = current.status
  BY DEF Flush
<1> QED
  BY <1>1, <1>2, <1>3

\* Every step of a request about entries, cash or people keeps the type of the state.
LEMMA LedgerTypeStep == LedgerTypeOK /\ [LedgerNext]_ledgerVars => LedgerTypeOK'
<1> SUFFICES ASSUME LedgerTypeOK, [LedgerNext]_ledgerVars PROVE LedgerTypeOK'
  OBVIOUS
<1>0. /\ entries \in [LedgerEntry -> LedgerRow] /\ cash \in SUBSET CashRow
      /\ ledgerReq \in [Client -> {NoRequest} \union LedgerUpdate \union LedgerDelete \union LedgerList]
      /\ ledgerRaced \subseteq LedgerEntry /\ cashTouched \subseteq LedgerEntry
  BY DEF LedgerTypeOK
<1>a. ASSUME NEW c \in Client, NEW es \in SUBSET LedgerEntry, EndLedger(c, es)
      PROVE  /\ ledgerReq' \in [Client -> {NoRequest} \union LedgerUpdate \union LedgerDelete \union LedgerList]
             /\ ledgerRaced' \subseteq LedgerEntry
  BY <1>0, <1>a DEF EndLedger
<1>1. ASSUME NEW e \in LedgerEntry, NEW d \in Direction, NEW a \in LedgerAmount, CreateEntry(e, d, a)
      PROVE  LedgerTypeOK'
  <2> DEFINE row == [status |-> "live", direction |-> d, amount |-> a]
  <2>1. row \in LedgerRow
    BY LedgerAmountAssumption DEF LedgerRow
  <2>2. cash' \in SUBSET CashRow
    BY <1>0, <1>1, <2>1, EnsuredType DEF CreateEntry
  <2> QED
    BY <1>0, <1>1, <2>1, <2>2 DEF CreateEntry, LedgerTypeOK
<1>2. ASSUME NEW c \in Client, NEW e \in LedgerEntry, NEW d \in Direction, NEW a \in LedgerAmount,
             LoadEntryUpdate(c, e, d, a)
      PROVE  LedgerTypeOK'
  <2> DEFINE computed == [entries[e] EXCEPT !.direction = d, !.amount = a]
  <2>1. computed \in LedgerRow
    BY <1>0, LedgerAmountAssumption DEF LedgerRow
  <2>2. [op |-> "update", entry |-> e, loaded |-> entries[e], computed |-> computed] \in LedgerUpdate
    BY <1>0, <2>1 DEF LedgerUpdate
  <2> QED
    BY <1>0, <1>2, <2>2 DEF LoadEntryUpdate, LedgerTypeOK
<1>3. ASSUME NEW c \in Client, NEW e \in LedgerEntry, LoadEntryDelete(c, e) PROVE LedgerTypeOK'
  <2>1. PICK found \in FoundCash(e, cash) :
          ledgerReq' = [ledgerReq EXCEPT ![c] = [op |-> "delete", entry |-> e, found |-> found]]
    BY <1>3 DEF LoadEntryDelete
  <2>2. found \in SUBSET CashRow
    BY <1>0 DEF FoundCash, AnyOf, CashOf
  <2>3. [op |-> "delete", entry |-> e, found |-> found] \in LedgerDelete
    BY <2>2 DEF LedgerDelete
  <2> QED
    BY <1>0, <1>3, <2>1, <2>3 DEF LoadEntryDelete, LedgerTypeOK
<1>4. ASSUME NEW c \in Client, CommitEntryUpdate(c) PROVE LedgerTypeOK'
  <2> DEFINE r == ledgerReq[c]
  <2>1. r.entry \in LedgerEntry /\ r.loaded \in LedgerRow /\ r.computed \in LedgerRow
    BY <1>4, LedgerRequestKind DEF CommitEntryUpdate, LedgerUpdate
  <2>2. entries' \in [LedgerEntry -> LedgerRow]
    BY <1>0, <1>4, <2>1, LedgerFlush DEF CommitEntryUpdate
  <2>3. PICK found \in FoundCash(r.entry, cash) : cash' \in Ensured(r.entry, r.computed, Without(cash, found))
    BY <1>4 DEF CommitEntryUpdate, Rebuilt
  <2>4. cash' \in SUBSET CashRow
    <3>1. Without(cash, found) \in SUBSET CashRow
      BY <1>0 DEF Without
    <3> HIDE DEF r
    <3> QED
      BY <2>1, <2>3, <3>1, EnsuredType
  <2> QED
    BY <1>0, <1>4, <1>a, <2>1, <2>2, <2>4 DEF CommitEntryUpdate, LedgerTypeOK
<1>5. ASSUME NEW c \in Client, CommitEntryDelete(c) PROVE LedgerTypeOK'
  <2>1. ledgerReq[c].entry \in LedgerEntry
    BY <1>5, LedgerRequestKind DEF CommitEntryDelete, LedgerDelete
  <2>2. entries' \in [LedgerEntry -> LedgerRow]
    BY <1>0, <1>5, <2>1 DEF CommitEntryDelete, LedgerRow
  <2>3. cash' \in SUBSET CashRow
    BY <1>0, <1>5 DEF CommitEntryDelete, Without
  <2> QED
    BY <1>0, <1>5, <1>a, <2>1, <2>2, <2>3 DEF CommitEntryDelete, LedgerTypeOK
<1>6. ASSUME NEW c \in Client, LoadEntries(c) PROVE LedgerTypeOK'
  <2> DEFINE missing == {e \in LiveEntries : CashOf(e, cash) = {}}
  <2>1. [op |-> "list", missing |-> missing, loaded |-> entries] \in LedgerList
    BY <1>0 DEF LedgerList, LiveEntries
  <2> QED
    BY <1>0, <1>6, <2>1 DEF LoadEntries, LedgerTypeOK
<1>7. ASSUME NEW c \in Client, CommitBackfill(c) PROVE LedgerTypeOK'
  <2> DEFINE r == ledgerReq[c]
  <2>1. r.missing \in SUBSET LedgerEntry /\ r.loaded \in [LedgerEntry -> LedgerRow]
    BY <1>7, LedgerRequestKind DEF CommitBackfill, LedgerList
  <2>2. PICK id \in [r.missing -> 1 .. LastCash] :
          cash' = cash \union
            {[id |-> id[e], entry |-> e, type |-> CashType(r.loaded[e].direction),
              amount |-> r.loaded[e].amount] : e \in r.missing}
    BY <1>7 DEF CommitBackfill
  <2>3. ASSUME NEW e \in r.missing
        PROVE  [id |-> id[e], entry |-> e, type |-> CashType(r.loaded[e].direction),
                amount |-> r.loaded[e].amount] \in CashRow
    <3>1. r.loaded[e] \in LedgerRow /\ id[e] \in 1 .. LastCash /\ e \in LedgerEntry
      BY <2>1
    <3> HIDE DEF r
    <3> QED
      BY <3>1 DEF CashRow, LedgerRow, CashType
  <2>4. cash' \in SUBSET CashRow
    BY <1>0, <2>2, <2>3
  <2> QED
    BY <1>0, <1>7, <1>a, <2>1, <2>4 DEF CommitBackfill, LedgerTypeOK
<1>8. ASSUME NEW c \in Client, RollBackLedger(c) PROVE LedgerTypeOK'
  BY <1>0, <1>8 DEF RollBackLedger, LedgerTypeOK
<1>9. ASSUME NEW t \in cash, DeleteCash(t) PROVE LedgerTypeOK'
  BY <1>0, <1>9 DEF DeleteCash, LedgerTypeOK, Without, CashRow
<1>10. ASSUME NEW t \in cash, NEW a \in LedgerAmount, EditCash(t, a) PROVE LedgerTypeOK'
  <2>1. [t EXCEPT !.amount = a] \in CashRow /\ t.entry \in LedgerEntry
    BY <1>0, LedgerAmountAssumption DEF CashRow
  <2> QED
    BY <1>0, <1>10, <2>1 DEF EditCash, LedgerTypeOK
<1>11. CASE UNCHANGED ledgerVars
  BY <1>0, <1>11 DEF ledgerVars, LedgerTypeOK
<1> QED
  BY <1>1, <1>2, <1>3, <1>4, <1>5, <1>6, <1>7, <1>8, <1>9, <1>10, <1>11 DEF LedgerNext

\* Type correctness.
THEOREM LedgerTypeCorrect == LedgerSpec => []LedgerTypeOK
<1>1. LedgerInit => LedgerTypeOK
  BY DEF LedgerInit, LedgerTypeOK, LedgerRow, Direction
<1> QED
  BY <1>1, LedgerTypeStep, PTL DEF LedgerSpec

-----------------------------------------------------------------------------
(* Every entry has its cash.  The property is not inductive: what a commit *)
(* leaves depends on what its request read, and a cash transaction is      *)
(* removed by its id.                                                      *)

Made(e) == entries[e].status # "absent"

\* An entry no requests raced for has one cash transaction at most, and while nobody has
\* touched it that is what the entry asks for.
Mirrored(e) ==
    /\ \A t, u \in CashOf(e, cash) : t = u
    /\ e \notin cashTouched =>
         IF e \in LiveEntries
         THEN \E t \in CashOf(e, cash) :
                t.type = CashType(entries[e].direction) /\ t.amount = entries[e].amount
         ELSE CashOf(e, cash) = {}

\* Ids tell cash transactions apart, and only entries that were made have any.
CashIsKept ==
    /\ \A t, u \in cash : t.id = u.id => t = u
    /\ \A t \in cash : Made(t.entry)

\* What a request read of its entries is still so, unless they were raced for.
UpdateIsFresh(r) ==
    /\ Made(r.entry)
    /\ r.loaded.status = "live" /\ r.computed.status = "live"
    /\ r.entry \notin ledgerRaced => entries[r.entry] = r.loaded

DeleteIsFresh(r) ==
    /\ Made(r.entry)
    /\ \A f \in r.found, t \in cash : t.id = f.id => t.entry = r.entry
    /\ r.entry \notin ledgerRaced => \A t \in CashOf(r.entry, cash) : \E f \in r.found : f.id = t.id

ListIsFresh(r) ==
    \A e \in r.missing :
        /\ Made(e)
        /\ e \notin ledgerRaced =>
             entries[e] = r.loaded[e] /\ e \in LiveEntries /\ CashOf(e, cash) = {}

RequestIsFresh(r) ==
    /\ r.op = "update" => UpdateIsFresh(r)
    /\ r.op = "delete" => DeleteIsFresh(r)
    /\ r.op = "list" => ListIsFresh(r)

LedgerInv ==
    /\ \A e \in LedgerEntry \ ledgerRaced : Mirrored(e)
    /\ CashIsKept
    /\ \A c \in Client : RequestIsFresh(ledgerReq[c])

\* The entry of a request, and its cash, are what they were unless the step marks the
\* entry as raced for; and the ids of new cash are not those a deletion will remove.
StepSpares(r) ==
    /\ \A e \in ConcernedBy(r) :
         /\ Made(e) => Made(e)'
         /\ e \notin ledgerRaced' =>
              e \notin ledgerRaced /\ entries'[e] = entries[e] /\ CashOf(e, cash') \subseteq CashOf(e, cash)
    /\ r.op = "delete" =>
         \A f \in r.found, t \in cash' :
            t.id = f.id => \E u \in cash : u.id = t.id /\ u.entry = t.entry

\* A request that a step spares is as fresh as it was.
LEMMA SparedStaysFresh ==
    ASSUME LedgerTypeOK, NEW c \in Client, RequestIsFresh(ledgerReq[c]), StepSpares(ledgerReq[c]),
           ledgerReq'[c] = ledgerReq[c]
    PROVE  RequestIsFresh(ledgerReq[c])'
<1> DEFINE r == ledgerReq[c]
<1>1. CASE r.op = "update"
  <2>1. r.entry \in ConcernedBy(r)
    BY <1>1 DEF ConcernedBy
  <2> QED
    BY <1>1, <2>1 DEF RequestIsFresh, UpdateIsFresh, StepSpares
<1>2. CASE r.op = "delete"
  <2>1. r.entry \in ConcernedBy(r)
    BY <1>2 DEF ConcernedBy
  <2>2. DeleteIsFresh(r)
    BY <1>2 DEF RequestIsFresh
  <2>3. Made(r.entry)'
    BY <2>1, <2>2 DEF StepSpares, DeleteIsFresh, Made
  <2>4. \A f \in r.found, t \in cash' : t.id = f.id => t.entry = r.entry
    BY <1>2, <2>2 DEF StepSpares, DeleteIsFresh
  <2>5. r.entry \notin ledgerRaced' => \A t \in CashOf(r.entry, cash') : \E f \in r.found : f.id = t.id
    BY <2>1, <2>2 DEF StepSpares, DeleteIsFresh
  <2> QED
    BY <1>2, <2>3, <2>4, <2>5 DEF RequestIsFresh, DeleteIsFresh, Made
<1>3. CASE r.op = "list"
  <2>1. r.missing = ConcernedBy(r)
    BY <1>3 DEF ConcernedBy
  <2> QED
    BY <1>3, <2>1 DEF RequestIsFresh, ListIsFresh, StepSpares, LiveEntries, Made
<1> QED
  BY <1>1, <1>2, <1>3, LedgerRequestKind DEF RequestIsFresh, NoRequest

\* A request that has ended claims nothing.
LEMMA NoneIsFresh ==
    ASSUME NEW c \in Client, ledgerReq'[c] = NoRequest
    PROVE  RequestIsFresh(ledgerReq[c])'
BY DEF RequestIsFresh, NoRequest

\* The new cash of an entry that has none.
LEMMA EnsuredAdds ==
    ASSUME NEW e, NEW row, NEW rows, CashOf(e, rows) = {}, NEW after \in Ensured(e, row, rows)
    PROVE  \E t : /\ after = rows \union {t}
                  /\ t.entry = e /\ t.type = CashType(row.direction) /\ t.amount = row.amount
                  /\ t.id \in FreeCashIds(rows)
<1>1. PICK id \in FreeCashIds(rows) :
        after = rows \union {[id |-> id, entry |-> e, type |-> CashType(row.direction), amount |-> row.amount]}
  BY DEF Ensured
<1> DEFINE t == [id |-> id, entry |-> e, type |-> CashType(row.direction), amount |-> row.amount]
<1>2. t.entry = e /\ t.type = CashType(row.direction) /\ t.amount = row.amount /\ t.id = id
  OBVIOUS
<1>3. after = rows \union {t}
  BY <1>1
<1> HIDE DEF t
<1> QED
  BY <1>1, <1>2, <1>3

\* A step records the cash `t` of an entry that has none in `rows`, and keeps these.
Records(e, t, rows) ==
    /\ rows \subseteq cash
    /\ CashOf(e, rows) = {}
    /\ t.entry = e
    /\ t.id \in FreeCashIds(rows)
    /\ cash' = rows \union {t}

\* Cash recorded under a free id, for an entry that has none left: it is the entry's only
\* cash, no other entry's changes, and no deletion will remove it.
LEMMA NewCash ==
    ASSUME LedgerTypeOK, CashIsKept, NEW e, NEW t, NEW rows, Records(e, t, rows)
    PROVE  /\ CashOf(e, cash') = {t}
           /\ \A x : x # e => CashOf(x, cash') = CashOf(x, rows)
           /\ \A u, v \in cash' : u.id = v.id => u = v
           /\ \A c \in Client : ledgerReq[c].op = "delete" =>
                \A f \in ledgerReq[c].found, u \in cash' :
                   u.id = f.id => \E v \in cash : v.id = u.id /\ v.entry = u.entry
<1>1. CashOf(e, cash') = {t}
  BY DEF Records, CashOf
<1>2. \A x : x # e => CashOf(x, cash') = CashOf(x, rows)
  BY DEF Records, CashOf
<1>3. \A u \in rows : u.id # t.id
  BY DEF Records, FreeCashIds
<1>4. \A u, v \in cash' : u.id = v.id => u = v
  BY <1>3 DEF Records, CashIsKept
<1>5. \A c \in Client : ledgerReq[c].op = "delete" => \A f \in ledgerReq[c].found : f.id # t.id
  BY DEF Records, FreeCashIds
<1> QED
  BY <1>1, <1>2, <1>4, <1>5 DEF Records

\* An entry whose row and cash a step leaves alone stays mirrored.
LEMMA UntouchedStaysMirrored ==
    ASSUME NEW e \in LedgerEntry, Mirrored(e), entries'[e] = entries[e],
           CashOf(e, cash') = CashOf(e, cash), e \in cashTouched => e \in cashTouched'
    PROVE  Mirrored(e)'
BY DEF Mirrored, LiveEntries

\* Requests are about entries that were made.
LEMMA ConcernedIsMade ==
    ASSUME LedgerTypeOK, NEW c \in Client, RequestIsFresh(ledgerReq[c])
    PROVE  /\ ConcernedBy(ledgerReq[c]) \subseteq LedgerEntry
           /\ \A e \in ConcernedBy(ledgerReq[c]) : Made(e)
<1>1. CASE ledgerReq[c].op = "none"
  BY <1>1 DEF ConcernedBy
<1>2. CASE ledgerReq[c].op = "update"
  BY <1>2, LedgerRequestKind DEF ConcernedBy, RequestIsFresh, UpdateIsFresh, LedgerUpdate
<1>3. CASE ledgerReq[c].op = "delete"
  BY <1>3, LedgerRequestKind DEF ConcernedBy, RequestIsFresh, DeleteIsFresh, LedgerDelete
<1>4. CASE ledgerReq[c].op = "list"
  BY <1>4, LedgerRequestKind DEF ConcernedBy, RequestIsFresh, ListIsFresh, LedgerList
<1> QED
  BY <1>1, <1>2, <1>3, <1>4, LedgerRequestKind

\* create_entry: the entry is new, so no request and no cash is about it.
LEMMA CreateEntryKeeps ==
    ASSUME LedgerTypeOK, LedgerInv, NEW e \in LedgerEntry, NEW d \in Direction, NEW a \in LedgerAmount,
           CreateEntry(e, d, a)
    PROVE  LedgerInv'
<1> DEFINE row == [status |-> "live", direction |-> d, amount |-> a]
<1>0. /\ \A x \in LedgerEntry \ ledgerRaced : Mirrored(x)
      /\ CashIsKept
      /\ \A c \in Client : RequestIsFresh(ledgerReq[c])
  BY DEF LedgerInv
<1>1. /\ ~ Made(e) /\ entries' = [entries EXCEPT ![e] = row] /\ cash' \in Ensured(e, row, cash)
      /\ UNCHANGED <<ledgerReq, ledgerRaced, cashTouched>>
  BY DEF CreateEntry, Made
<1>2. CashOf(e, cash) = {}
  BY <1>0, <1>1 DEF CashIsKept, CashOf
<1>3. PICK t : /\ cash' = cash \union {t}
               /\ t.entry = e /\ t.type = CashType(row.direction) /\ t.amount = row.amount
               /\ t.id \in FreeCashIds(cash)
  BY <1>1, <1>2, EnsuredAdds
<1>4. /\ CashOf(e, cash') = {t}
      /\ \A x : x # e => CashOf(x, cash') = CashOf(x, cash)
      /\ \A u, v \in cash' : u.id = v.id => u = v
      /\ \A c \in Client : ledgerReq[c].op = "delete" =>
           \A f \in ledgerReq[c].found, u \in cash' :
              u.id = f.id => \E v \in cash : v.id = u.id /\ v.entry = u.entry
  <2>1. Records(e, t, cash)
    BY <1>2, <1>3 DEF Records
  <2> QED
    BY <1>0, <2>1, NewCash
<1>5. /\ entries'[e] = row
      /\ \A x \in LedgerEntry \ {e} : entries'[x] = entries[x]
      /\ \A x \in LedgerEntry : Made(x) => x # e /\ Made(x)'
  BY <1>1 DEF LedgerTypeOK, Made
<1>6. ASSUME NEW x \in LedgerEntry \ ledgerRaced' PROVE Mirrored(x)'
  <2>1. CASE x = e
    <3>1. \A u, v \in CashOf(e, cash') : u = v
      BY <1>4
    <3>2. t \in CashOf(e, cash') /\ t.type = CashType(entries'[e].direction) /\ t.amount = entries'[e].amount
      BY <1>3, <1>4, <1>5
    <3>3. entries'[e].status = "live"
      BY <1>5
    <3> QED
      BY <2>1, <3>1, <3>2, <3>3 DEF Mirrored, LiveEntries
  <2>2. CASE x # e
    BY <1>0, <1>1, <1>4, <1>5, <2>2, UntouchedStaysMirrored
  <2> QED
    BY <2>1, <2>2
<1>7. CashIsKept'
  <2>1. \A u \in cash : u.entry \in LedgerEntry
    BY DEF LedgerTypeOK, CashRow
  <2> QED
    BY <1>0, <1>3, <1>4, <1>5, <2>1 DEF CashIsKept, Made
<1>8. ASSUME NEW c \in Client PROVE RequestIsFresh(ledgerReq[c])'
  <2>1. \A x \in ConcernedBy(ledgerReq[c]) : x \in LedgerEntry /\ Made(x)
    BY <1>0, ConcernedIsMade
  <2>2. StepSpares(ledgerReq[c])
    BY <1>1, <1>4, <1>5, <2>1 DEF StepSpares
  <2> QED
    BY <1>0, <1>1, <2>2, SparedStaysFresh
<1> QED
  BY <1>6, <1>7, <1>8 DEF LedgerInv

\* Requests that read, or end, leave the rest as it is.
LEMMA ReadingKeeps ==
    ASSUME LedgerInv, UNCHANGED <<entries, cash, ledgerRaced, cashTouched>>,
           \A d \in Client : ledgerReq'[d] = ledgerReq[d] \/ RequestIsFresh(ledgerReq'[d])
    PROVE  LedgerInv'
<1>1. \A r : RequestIsFresh(r) => RequestIsFresh(r)'
  <2>1. \A r : UpdateIsFresh(r) => UpdateIsFresh(r)'
    BY DEF UpdateIsFresh, Made
  <2>2. \A r : DeleteIsFresh(r) => DeleteIsFresh(r)'
    BY DEF DeleteIsFresh, Made, CashOf
  <2>3. \A r : ListIsFresh(r) => ListIsFresh(r)'
    BY DEF ListIsFresh, Made, CashOf, LiveEntries
  <2> QED
    BY <2>1, <2>2, <2>3 DEF RequestIsFresh
<1>2. \A c \in Client : RequestIsFresh(ledgerReq[c])'
  BY <1>1 DEF LedgerInv
<1>3. CashIsKept' /\ \A e \in LedgerEntry \ ledgerRaced' : Mirrored(e)'
  BY DEF LedgerInv, CashIsKept, Mirrored, Made, LiveEntries, CashOf
<1> QED
  BY <1>2, <1>3 DEF LedgerInv

\* An edit has read the entry as it is.
LEMMA LoadEntryUpdateKeeps ==
    ASSUME LedgerTypeOK, LedgerInv, NEW c \in Client, NEW e \in LedgerEntry, NEW d \in Direction,
           NEW a \in LedgerAmount, LoadEntryUpdate(c, e, d, a)
    PROVE  LedgerInv'
<1> DEFINE r == [op |-> "update", entry |-> e, loaded |-> entries[e],
                 computed |-> [entries[e] EXCEPT !.direction = d, !.amount = a]]
<1>1. ledgerReq' = [ledgerReq EXCEPT ![c] = r] /\ UNCHANGED <<entries, cash, ledgerRaced, cashTouched>>
  BY DEF LoadEntryUpdate
<1>2. Made(e)
  BY DEF LoadEntryUpdate, LiveEntries, Made
<1>3. r.loaded.status = "live" /\ r.computed.status = "live"
  BY DEF LoadEntryUpdate, LiveEntries, LedgerTypeOK, LedgerRow
<1>4. RequestIsFresh(r)
  BY <1>2, <1>3 DEF RequestIsFresh, UpdateIsFresh
<1>5. \A x \in Client : ledgerReq'[x] = ledgerReq[x] \/ RequestIsFresh(ledgerReq'[x])
  BY <1>1, <1>4 DEF LedgerTypeOK
<1> QED
  BY <1>1, <1>5, ReadingKeeps

\* What is found is all the cash of the entry if it has one at most.
LEMMA LoadEntryDeleteKeeps ==
    ASSUME LedgerTypeOK, LedgerInv, NEW c \in Client, NEW e \in LedgerEntry, LoadEntryDelete(c, e)
    PROVE  LedgerInv'
<1>1. PICK found \in FoundCash(e, cash) :
        ledgerReq' = [ledgerReq EXCEPT ![c] = [op |-> "delete", entry |-> e, found |-> found]]
  BY DEF LoadEntryDelete
<1> DEFINE r == [op |-> "delete", entry |-> e, found |-> found]
<1>2. UNCHANGED <<entries, cash, ledgerRaced, cashTouched>>
  BY DEF LoadEntryDelete
<1>3. Made(e)
  BY DEF LoadEntryDelete, LiveEntries, Made
<1>4. found \subseteq CashOf(e, cash) /\ (CashOf(e, cash) # {} => found # {})
  BY DEF FoundCash, AnyOf
<1>5. \A f \in found, t \in cash : t.id = f.id => t.entry = e
  BY <1>4 DEF LedgerInv, CashIsKept, CashOf
<1>6. e \notin ledgerRaced => \A t \in CashOf(e, cash) : \E f \in found : f.id = t.id
  <2> SUFFICES ASSUME e \notin ledgerRaced, NEW t \in CashOf(e, cash) PROVE \E f \in found : f.id = t.id
    OBVIOUS
  <2>1. PICK f \in found : TRUE
    BY <1>4
  <2>2. f = t
    BY <1>4, <2>1 DEF LedgerInv, Mirrored
  <2> QED
    BY <2>2
<1>7. DeleteIsFresh(r)
  BY <1>3, <1>5, <1>6 DEF DeleteIsFresh
<1>8. RequestIsFresh(r)
  BY <1>7 DEF RequestIsFresh
<1>9. \A x \in Client : ledgerReq'[x] = ledgerReq[x] \/ RequestIsFresh(ledgerReq'[x])
  BY <1>1, <1>8 DEF LedgerTypeOK
<1> QED
  BY <1>2, <1>9, ReadingKeeps

\* The list has read which entries have no cash transaction.
LEMMA LoadEntriesKeeps ==
    ASSUME LedgerTypeOK, LedgerInv, NEW c \in Client, LoadEntries(c)
    PROVE  LedgerInv'
<1> DEFINE r == [op |-> "list", missing |-> {e \in LiveEntries : CashOf(e, cash) = {}}, loaded |-> entries]
<1>1. ledgerReq' = [ledgerReq EXCEPT ![c] = r] /\ UNCHANGED <<entries, cash, ledgerRaced, cashTouched>>
  BY DEF LoadEntries
<1>2. RequestIsFresh(r)
  BY DEF RequestIsFresh, ListIsFresh, LiveEntries, Made
<1>3. \A x \in Client : ledgerReq'[x] = ledgerReq[x] \/ RequestIsFresh(ledgerReq'[x])
  BY <1>1, <1>2 DEF LedgerTypeOK
<1> QED
  BY <1>1, <1>3, ReadingKeeps

\* A request that fails leaves the rows as they are.
LEMMA RollBackLedgerKeeps ==
    ASSUME LedgerTypeOK, LedgerInv, NEW c \in Client, RollBackLedger(c)
    PROVE  LedgerInv'
<1>1. RequestIsFresh(NoRequest)
  BY DEF RequestIsFresh, NoRequest
<1>2. \A x \in Client : ledgerReq'[x] = ledgerReq[x] \/ RequestIsFresh(ledgerReq'[x])
  BY <1>1 DEF LedgerTypeOK, RollBackLedger
<1> QED
  BY <1>2, ReadingKeeps DEF RollBackLedger

\* The transaction endpoints change no id and no entry of a cash transaction, record none,
\* and note whose they touched.
LEMMA TouchingKeeps ==
    ASSUME LedgerTypeOK, LedgerInv, NEW t \in cash,
           UNCHANGED <<entries, ledgerReq, ledgerRaced>>, cashTouched' = cashTouched \union {t.entry},
           \A u \in cash' : \E v \in cash : v.id = u.id /\ v.entry = u.entry,
           \A u, v \in cash' : u.id = v.id => u = v,
           \A e : e # t.entry => CashOf(e, cash') = CashOf(e, cash)
    PROVE  LedgerInv'
<1>0. /\ \A e \in LedgerEntry \ ledgerRaced : Mirrored(e)
      /\ CashIsKept
      /\ \A c \in Client : RequestIsFresh(ledgerReq[c])
  BY DEF LedgerInv
<1>1. ASSUME NEW e \in LedgerEntry \ ledgerRaced' PROVE Mirrored(e)'
  <2>1. CASE e # t.entry
    BY <1>0, <2>1, UntouchedStaysMirrored
  <2>2. CASE e = t.entry
    <3>1. ASSUME NEW u \in CashOf(e, cash'), NEW v \in CashOf(e, cash') PROVE u = v
      <4>1. PICK x \in cash : x.id = u.id /\ x.entry = u.entry
        BY DEF CashOf
      <4>2. PICK y \in cash : y.id = v.id /\ y.entry = v.entry
        BY DEF CashOf
      <4>3. x \in CashOf(e, cash) /\ y \in CashOf(e, cash)
        BY <4>1, <4>2 DEF CashOf
      <4>4. x = y
        BY <1>0, <4>3 DEF Mirrored
      <4> QED
        BY <4>1, <4>2, <4>4 DEF CashOf
    <3> QED
      BY <2>2, <3>1 DEF Mirrored
  <2> QED
    BY <2>1, <2>2
<1>2. CashIsKept'
  BY <1>0 DEF CashIsKept, Made
<1>3. ASSUME NEW c \in Client PROVE RequestIsFresh(ledgerReq[c])'
  <2> DEFINE r == ledgerReq[c]
  <2>0. RequestIsFresh(r)
    BY <1>0
  <2>1. CASE r.op = "update"
    BY <2>0, <2>1 DEF RequestIsFresh, UpdateIsFresh, Made
  <2>2. CASE r.op = "delete"
    <3>1. DeleteIsFresh(r)
      BY <2>0, <2>2 DEF RequestIsFresh
    <3>2. \A f \in r.found, u \in cash' : u.id = f.id => u.entry = r.entry
      BY <3>1 DEF DeleteIsFresh
    <3>3. ASSUME r.entry \notin ledgerRaced, NEW u \in CashOf(r.entry, cash')
          PROVE  \E f \in r.found : f.id = u.id
      <4>1. PICK v \in cash : v.id = u.id /\ v.entry = u.entry
        BY DEF CashOf
      <4>2. v \in CashOf(r.entry, cash)
        BY <4>1 DEF CashOf
      <4> QED
        BY <3>1, <3>3, <4>1, <4>2 DEF DeleteIsFresh
    <3> QED
      BY <2>2, <3>1, <3>2, <3>3 DEF RequestIsFresh, DeleteIsFresh, Made
  <2>3. CASE r.op = "list"
    <3>1. ASSUME NEW e, CashOf(e, cash) = {} PROVE CashOf(e, cash') = {}
      BY <3>1 DEF CashOf
    <3> QED
      BY <2>0, <2>3, <3>1 DEF RequestIsFresh, ListIsFresh, LiveEntries, Made
  <2> QED
    BY <2>1, <2>2, <2>3, LedgerRequestKind DEF RequestIsFresh, NoRequest
<1> QED
  BY <1>1, <1>2, <1>3 DEF LedgerInv

\* The user deletes a cash transaction: its entry is one of those touched by hand.
LEMMA DeleteCashKeeps ==
    ASSUME LedgerTypeOK, LedgerInv, NEW t \in cash, DeleteCash(t)
    PROVE  LedgerInv'
<1>1. cash' \subseteq cash /\ cash \ {t} \subseteq cash'
  BY DEF DeleteCash, Without, LedgerInv, CashIsKept
<1>2. \A e : e # t.entry => CashOf(e, cash') = CashOf(e, cash)
  BY <1>1 DEF CashOf
<1>3. \A u, v \in cash' : u.id = v.id => u = v
  BY <1>1 DEF LedgerInv, CashIsKept
<1> QED
  BY <1>1, <1>2, <1>3, TouchingKeeps DEF DeleteCash

\* The user edits one: its entry is touched by hand too, and has no second one.
LEMMA EditCashKeeps ==
    ASSUME LedgerTypeOK, LedgerInv, NEW t \in cash, NEW a \in LedgerAmount, EditCash(t, a)
    PROVE  LedgerInv'
<1> DEFINE edited == [t EXCEPT !.amount = a]
<1>1. edited.id = t.id /\ edited.entry = t.entry
  BY DEF LedgerTypeOK, CashRow
<1>2. cash' = (cash \ {t}) \union {edited}
  BY DEF EditCash
<1> HIDE DEF edited
<1>3. \A u \in cash' : \E v \in cash : v.id = u.id /\ v.entry = u.entry
  BY <1>1, <1>2
<1>4. \A e : e # t.entry => CashOf(e, cash') = CashOf(e, cash)
  BY <1>1, <1>2 DEF CashOf
<1>5. \A u, v \in cash' : u.id = v.id => u = v
  BY <1>1, <1>2 DEF LedgerInv, CashIsKept
<1> QED
  BY <1>3, <1>4, <1>5, TouchingKeeps DEF EditCash

\* What a commit about the entries `es` has to leave: the requests of others about them
\* are marked as raced, and those about other entries find them as they were.
CommitLeaves(es) ==
    /\ CashIsKept'
    /\ \A e \in es \ ledgerRaced' : Mirrored(e)'
    /\ \A e \in LedgerEntry \ es :
         /\ entries'[e] = entries[e]
         /\ CashOf(e, cash') = CashOf(e, cash)
         /\ e \in cashTouched => e \in cashTouched'
    /\ \A e \in LedgerEntry : Made(e) => Made(e)'
    /\ \A d \in Client : ledgerReq[d].op = "delete" =>
         \A f \in ledgerReq[d].found, u \in cash' :
            u.id = f.id => \E v \in cash : v.id = u.id /\ v.entry = u.entry

\* A commit that leaves its entries mirrored, and the requests about them raced, keeps the
\* rest.
LEMMA CommitKeeps ==
    ASSUME LedgerTypeOK, LedgerInv, NEW c \in Client, NEW es \in SUBSET LedgerEntry,
           EndLedger(c, es), CommitLeaves(es)
    PROVE  LedgerInv'
<1>0. /\ \A e \in LedgerEntry \ ledgerRaced : Mirrored(e)
      /\ \A d \in Client : RequestIsFresh(ledgerReq[d])
  BY DEF LedgerInv
<1>1. ASSUME NEW e \in LedgerEntry \ ledgerRaced' PROVE Mirrored(e)'
  <2>1. CASE e \in es
    BY <2>1 DEF CommitLeaves
  <2>2. CASE e \notin es
    BY <1>0, <2>2, UntouchedStaysMirrored DEF CommitLeaves, EndLedger
  <2> QED
    BY <2>1, <2>2
<1>2. ASSUME NEW d \in Client PROVE RequestIsFresh(ledgerReq[d])'
  <2>1. CASE d = c
    BY <2>1, NoneIsFresh DEF EndLedger, LedgerTypeOK
  <2>2. CASE d # c
    <3>1. ledgerReq'[d] = ledgerReq[d]
      BY <2>2 DEF EndLedger, LedgerTypeOK
    <3>2. \A e \in ConcernedBy(ledgerReq[d]) : e \in es => e \in ledgerRaced'
      BY <2>2 DEF EndLedger
    <3>3. ledgerRaced \subseteq ledgerRaced'
      BY DEF EndLedger
    <3>4. ConcernedBy(ledgerReq[d]) \subseteq LedgerEntry
      BY <1>0, ConcernedIsMade
    <3>5. \A e \in ConcernedBy(ledgerReq[d]) \ ledgerRaced' : e \in LedgerEntry \ es /\ e \notin ledgerRaced
      BY <3>2, <3>3, <3>4
    <3>6. ASSUME NEW e \in ConcernedBy(ledgerReq[d])
          PROVE  /\ Made(e) => Made(e)'
                 /\ e \notin ledgerRaced' =>
                      e \notin ledgerRaced /\ entries'[e] = entries[e] /\ CashOf(e, cash') \subseteq CashOf(e, cash)
      BY <3>4, <3>5 DEF CommitLeaves
    <3>7. StepSpares(ledgerReq[d])
      BY <3>6 DEF CommitLeaves, StepSpares
    <3> QED
      BY <1>0, <3>1, <3>7, SparedStaysFresh
  <2> QED
    BY <2>1, <2>2
<1> QED
  BY <1>1, <1>2 DEF LedgerInv, CommitLeaves

\* The edit of an entry: all its cash goes, if nobody raced for it, and one is recorded.
LEMMA CommitEntryUpdateKeeps ==
    ASSUME LedgerTypeOK, LedgerInv, NEW c \in Client, CommitEntryUpdate(c)
    PROVE  LedgerInv'
<1> DEFINE r == ledgerReq[c]
<1>2. r.entry \in LedgerEntry /\ r.loaded \in LedgerRow /\ r.computed \in LedgerRow
  BY LedgerRequestKind DEF CommitEntryUpdate, LedgerUpdate
<1> PICK e \in LedgerEntry : e = r.entry
  BY <1>2
<1>0. /\ \A x \in LedgerEntry \ ledgerRaced : Mirrored(x)
      /\ CashIsKept
      /\ UpdateIsFresh(r)
  BY DEF LedgerInv, RequestIsFresh, CommitEntryUpdate
<1>1. /\ entries' = [entries EXCEPT ![e] = Flush(@, r.loaded, r.computed)]
      /\ EndLedger(c, {e})
      /\ cashTouched' = cashTouched \ {e}
  BY DEF CommitEntryUpdate
<1>3. entries[e] \in LedgerRow /\ entries'[e] = Flush(entries[e], r.loaded, r.computed)
  BY <1>1, <1>2 DEF LedgerTypeOK
<1>4. entries'[e].status = entries[e].status /\ (e \notin ledgerRaced => entries'[e] = r.computed /\ r.computed.status = "live")
  BY <1>0, <1>2, <1>3, LedgerFlush DEF UpdateIsFresh
<1>5. PICK found \in FoundCash(e, cash) : cash' \in Ensured(e, r.computed, Without(cash, found))
  BY DEF CommitEntryUpdate, Rebuilt
<1> DEFINE rows == Without(cash, found)
<1>6. found \subseteq CashOf(e, cash) /\ (CashOf(e, cash) # {} => found # {})
  BY <1>5 DEF FoundCash, AnyOf
<1>7. rows \subseteq cash /\ \A x : x # e => CashOf(x, rows) = CashOf(x, cash)
  BY <1>0, <1>6 DEF Without, CashOf, CashIsKept
<1>8. e \notin ledgerRaced => CashOf(e, rows) = {}
  <2> SUFFICES ASSUME e \notin ledgerRaced, NEW t \in CashOf(e, rows) PROVE FALSE
    OBVIOUS
  <2>1. t \in CashOf(e, cash)
    BY <1>7 DEF CashOf
  <2>2. t \in found
    BY <1>0, <1>2, <1>6, <2>1 DEF Mirrored
  <2> QED
    BY <2>2 DEF CashOf, Without
<1>9. cash' \in Ensured(e, r.computed, rows)
  BY <1>5
<1>10. /\ \A x \in LedgerEntry \ {e} : entries'[x] = entries[x]
       /\ \A x \in LedgerEntry : Made(x) => Made(x)'
       /\ Made(e)
  BY <1>0, <1>1, <1>4 DEF LedgerTypeOK, Made, UpdateIsFresh
<1>11. ledgerRaced \subseteq ledgerRaced'
  BY <1>1 DEF EndLedger
<1> HIDE DEF rows, r
<1>12. CASE CashOf(e, rows) # {}
  <2>1. cash' = rows
    BY <1>9, <1>12 DEF Ensured
  <2>2. e \in ledgerRaced'
    BY <1>8, <1>11, <1>12
  <2>3. CashIsKept'
    <3>1. \A t \in cash : t.entry \in LedgerEntry
      BY DEF LedgerTypeOK, CashRow
    <3> QED
      BY <1>0, <1>7, <1>10, <2>1, <3>1 DEF CashIsKept, Made
  <2>4. CommitLeaves({e})
    BY <1>1, <1>7, <1>10, <2>1, <2>2, <2>3 DEF CommitLeaves
  <2> QED
    BY <1>1, <2>4, CommitKeeps
<1>13. CASE CashOf(e, rows) = {}
  <2>1. PICK t : /\ cash' = rows \union {t}
                 /\ t.entry = e /\ t.type = CashType(r.computed.direction) /\ t.amount = r.computed.amount
                 /\ t.id \in FreeCashIds(rows)
    BY <1>9, <1>13, EnsuredAdds
  <2>2. Records(e, t, rows)
    BY <1>7, <1>13, <2>1 DEF Records
  <2>3. /\ CashOf(e, cash') = {t}
        /\ \A x : x # e => CashOf(x, cash') = CashOf(x, rows)
        /\ \A u, v \in cash' : u.id = v.id => u = v
        /\ \A d \in Client : ledgerReq[d].op = "delete" =>
             \A f \in ledgerReq[d].found, u \in cash' :
                u.id = f.id => \E v \in cash : v.id = u.id /\ v.entry = u.entry
    BY <1>0, <2>2, NewCash
  <2>4. e \notin ledgerRaced' => Mirrored(e)'
    <3> SUFFICES ASSUME e \notin ledgerRaced' PROVE Mirrored(e)'
      OBVIOUS
    <3>1. entries'[e] = r.computed /\ r.computed.status = "live"
      BY <1>4, <1>11
    <3>2. \A u, v \in CashOf(e, cash') : u = v
      BY <2>3
    <3>3. t \in CashOf(e, cash') /\ t.type = CashType(entries'[e].direction) /\ t.amount = entries'[e].amount
      BY <2>1, <2>3, <3>1
    <3>4. e \in LiveEntries'
      BY <3>1 DEF LiveEntries
    <3> QED
      BY <3>2, <3>3, <3>4 DEF Mirrored
  <2>5. CashIsKept'
    <3>1. \A u \in cash : u.entry \in LedgerEntry
      BY DEF LedgerTypeOK, CashRow
    <3> QED
      BY <1>0, <1>7, <1>10, <2>1, <2>3, <3>1 DEF CashIsKept, Made
  <2>6. CommitLeaves({e})
    BY <1>1, <1>7, <1>10, <2>3, <2>4, <2>5 DEF CommitLeaves
  <2> QED
    BY <1>1, <2>6, CommitKeeps
<1> QED
  BY <1>12, <1>13

\* The deletion of an entry removes all its cash, if nobody raced for it.
LEMMA CommitEntryDeleteKeeps ==
    ASSUME LedgerTypeOK, LedgerInv, NEW c \in Client, CommitEntryDelete(c)
    PROVE  LedgerInv'
<1> DEFINE r == ledgerReq[c]
<1> PICK e \in LedgerEntry : e = r.entry
  BY LedgerRequestKind DEF CommitEntryDelete, LedgerDelete
<1>0. CashIsKept /\ DeleteIsFresh(r)
  BY DEF LedgerInv, RequestIsFresh, CommitEntryDelete
<1>1. /\ entries' = [entries EXCEPT ![e].status = "deleted"]
      /\ cash' = Without(cash, r.found)
      /\ EndLedger(c, {e})
      /\ cashTouched' = cashTouched
  BY DEF CommitEntryDelete
<1>3. /\ entries'[e].status = "deleted"
      /\ \A x \in LedgerEntry \ {e} : entries'[x] = entries[x]
      /\ \A x \in LedgerEntry : Made(x) => Made(x)'
  BY <1>1 DEF LedgerTypeOK, LedgerRow, Made
<1>4. cash' \subseteq cash /\ \A x : x # e => CashOf(x, cash') = CashOf(x, cash)
  BY <1>0, <1>1 DEF Without, CashOf, DeleteIsFresh
<1>5. e \notin ledgerRaced' => CashOf(e, cash') = {}
  BY <1>0, <1>1 DEF DeleteIsFresh, EndLedger, Without, CashOf
<1> HIDE DEF r
<1>6. e \notin ledgerRaced' => Mirrored(e)'
  <2>1. e \notin LiveEntries'
    BY <1>3 DEF LiveEntries
  <2> QED
    BY <1>5, <2>1 DEF Mirrored
<1>7. CashIsKept'
  <2>1. \A t \in cash : t.entry \in LedgerEntry
    BY DEF LedgerTypeOK, CashRow
  <2> QED
    BY <1>0, <1>3, <1>4, <2>1 DEF CashIsKept, Made
<1>8. CommitLeaves({e})
  BY <1>1, <1>3, <1>4, <1>6, <1>7 DEF CommitLeaves
<1> QED
  BY <1>1, <1>8, CommitKeeps

\* The backfill records what each entry it found without cash asks for.
LEMMA CommitBackfillKeeps ==
    ASSUME LedgerTypeOK, LedgerInv, NEW c \in Client, CommitBackfill(c)
    PROVE  LedgerInv'
<1> DEFINE r == ledgerReq[c]
<1>0. CashIsKept /\ ListIsFresh(r)
  BY DEF LedgerInv, RequestIsFresh, CommitBackfill
<1>1. PICK id \in [r.missing -> 1 .. LastCash] :
        /\ \A e \in r.missing : \A f \in r.missing \ {e} : id[e] # id[f]
        /\ \A e \in r.missing : id[e] \in FreeCashIds(cash)
        /\ cash' = cash \union
             {[id |-> id[e], entry |-> e, type |-> CashType(r.loaded[e].direction),
               amount |-> r.loaded[e].amount] : e \in r.missing}
  BY DEF CommitBackfill
<1>2. EndLedger(c, r.missing) /\ cashTouched' = cashTouched \ r.missing /\ entries' = entries
  BY DEF CommitBackfill
<1>3. r.missing \in SUBSET LedgerEntry
  BY LedgerRequestKind DEF CommitBackfill, LedgerList
<1> DEFINE new(e) == [id |-> id[e], entry |-> e, type |-> CashType(r.loaded[e].direction),
                      amount |-> r.loaded[e].amount]
           added == {new(e) : e \in r.missing}
<1>4. /\ cash' = cash \union added
      /\ \A t \in added : t.entry \in r.missing /\ t = new(t.entry) /\ t.id = id[t.entry]
      /\ \A e \in r.missing : new(e) \in added
  BY <1>1
<1>5. \A e \in r.missing : new(e).entry = e /\ new(e).type = CashType(r.loaded[e].direction)
                           /\ new(e).amount = r.loaded[e].amount
  OBVIOUS
<1>6. ledgerRaced \subseteq ledgerRaced'
  BY <1>2 DEF EndLedger
<1> HIDE DEF new, added, r
<1>7. \A t \in added : t.id \in FreeCashIds(cash)
  BY <1>1, <1>4
<1>8. \A u, v \in cash' : u.id = v.id => u = v
  <2>1. \A u, v \in added : u.id = v.id => u = v
    BY <1>1, <1>4
  <2>2. \A u \in added, v \in cash : u.id # v.id
    BY <1>7 DEF FreeCashIds
  <2> QED
    BY <1>0, <1>4, <2>1, <2>2 DEF CashIsKept
<1>9. CashIsKept'
  <2>1. \A t \in cash' : Made(t.entry)
    BY <1>0, <1>4 DEF CashIsKept, ListIsFresh
  <2> QED
    BY <1>2, <1>8, <2>1 DEF CashIsKept, Made
<1>10. \A e : e \notin r.missing => CashOf(e, cash') = CashOf(e, cash)
  BY <1>4 DEF CashOf
<1>11. ASSUME NEW e \in r.missing \ ledgerRaced' PROVE Mirrored(e)'
  <2>1. entries[e] = r.loaded[e] /\ e \in LiveEntries /\ CashOf(e, cash) = {}
    BY <1>0, <1>6 DEF ListIsFresh
  <2>2. CashOf(e, cash') = {new(e)}
    BY <1>4, <1>5, <2>1 DEF CashOf
  <2>3. /\ new(e) \in CashOf(e, cash')
        /\ new(e).type = CashType(entries'[e].direction) /\ new(e).amount = entries'[e].amount
    BY <1>2, <1>5, <2>1, <2>2
  <2>4. e \in LiveEntries'
    BY <1>2, <2>1 DEF LiveEntries
  <2> QED
    BY <2>2, <2>3, <2>4 DEF Mirrored
<1>12. \A d \in Client : ledgerReq[d].op = "delete" =>
         \A f \in ledgerReq[d].found, u \in cash' :
            u.id = f.id => \E v \in cash : v.id = u.id /\ v.entry = u.entry
  <2>1. \A d \in Client : ledgerReq[d].op = "delete" =>
          \A f \in ledgerReq[d].found, u \in added : u.id # f.id
    BY <1>7 DEF FreeCashIds
  <2> QED
    BY <1>4, <2>1
<1>13. CommitLeaves(r.missing)
  BY <1>2, <1>9, <1>10, <1>11, <1>12 DEF CommitLeaves, Made
<1> QED
  BY <1>2, <1>3, <1>13, CommitKeeps DEF r

\* Every step of a request, of the list or of the transaction endpoints keeps the invariant.
LEMMA LedgerInvStep == LedgerTypeOK /\ LedgerInv /\ [LedgerNext]_ledgerVars => LedgerInv'
<1> SUFFICES ASSUME LedgerTypeOK, LedgerInv, [LedgerNext]_ledgerVars PROVE LedgerInv'
  OBVIOUS
<1>1. ASSUME NEW e \in LedgerEntry, NEW d \in Direction, NEW a \in LedgerAmount, CreateEntry(e, d, a)
      PROVE  LedgerInv'
  BY <1>1, CreateEntryKeeps
<1>2. ASSUME NEW c \in Client, NEW e \in LedgerEntry, NEW d \in Direction, NEW a \in LedgerAmount,
             LoadEntryUpdate(c, e, d, a)
      PROVE  LedgerInv'
  BY <1>2, LoadEntryUpdateKeeps
<1>3. ASSUME NEW c \in Client, NEW e \in LedgerEntry, LoadEntryDelete(c, e) PROVE LedgerInv'
  BY <1>3, LoadEntryDeleteKeeps
<1>4. ASSUME NEW c \in Client, CommitEntryUpdate(c) PROVE LedgerInv'
  BY <1>4, CommitEntryUpdateKeeps
<1>5. ASSUME NEW c \in Client, CommitEntryDelete(c) PROVE LedgerInv'
  BY <1>5, CommitEntryDeleteKeeps
<1>6. ASSUME NEW c \in Client, LoadEntries(c) PROVE LedgerInv'
  BY <1>6, LoadEntriesKeeps
<1>7. ASSUME NEW c \in Client, CommitBackfill(c) PROVE LedgerInv'
  BY <1>7, CommitBackfillKeeps
<1>8. ASSUME NEW c \in Client, RollBackLedger(c) PROVE LedgerInv'
  BY <1>8, RollBackLedgerKeeps
<1>9. ASSUME NEW t \in cash, DeleteCash(t) PROVE LedgerInv'
  BY <1>9, DeleteCashKeeps
<1>10. ASSUME NEW t \in cash, NEW a \in LedgerAmount, EditCash(t, a) PROVE LedgerInv'
  BY <1>10, EditCashKeeps
<1>11. CASE UNCHANGED ledgerVars
  BY <1>11, ReadingKeeps DEF ledgerVars
<1> QED
  BY <1>1, <1>2, <1>3, <1>4, <1>5, <1>6, <1>7, <1>8, <1>9, <1>10, <1>11 DEF LedgerNext

\* One cash transaction is the effect of its entry.
LEMMA MirroredEffect ==
    ASSUME LedgerTypeOK, NEW e \in LedgerEntry, Mirrored(e)
    PROVE  /\ Cardinality(CashOf(e, cash)) <= 1
           /\ e \notin cashTouched =>
                CashEffect(e) = -(IF e \in LiveEntries THEN Receivable(entries[e]) ELSE 0)
<1> DEFINE effect == [t \in CashOf(e, cash) |-> IF t.type = "income" THEN t.amount ELSE -t.amount]
<1>0. CashEffect(e) = SumFunctionOnSet(effect, CashOf(e, cash))
  BY DEF CashEffect, SumFunction
<1>1. CASE CashOf(e, cash) = {}
  <2>1. Cardinality(CashOf(e, cash)) = 0 /\ CashEffect(e) = 0
    <3> HIDE DEF effect
    <3> QED
      BY <1>0, <1>1, FS_EmptySet, SumOfNone
  <2>2. e \notin cashTouched => e \notin LiveEntries
    BY <1>1 DEF Mirrored
  <2> DEFINE says == IF e \in LiveEntries THEN Receivable(entries[e]) ELSE 0
  <2>3. e \notin cashTouched => says = 0
    BY <2>2
  <2> HIDE DEF says
  <2>4. e \notin cashTouched => CashEffect(e) = -says
    <3>1. \A n, m \in Int : n + m = 0 => n = -m
      OBVIOUS
    <3>2. e \notin cashTouched => CashEffect(e) + says = 0 /\ CashEffect(e) \in Int /\ says \in Int
      BY <2>1, <2>3
    <3> QED
      BY <3>1, <3>2
  <2> QED
    BY <2>1, <2>4 DEF says
<1>2. ASSUME NEW t \in CashOf(e, cash)
      PROVE  /\ Cardinality(CashOf(e, cash)) <= 1
             /\ e \notin cashTouched =>
                  CashEffect(e) = -(IF e \in LiveEntries THEN Receivable(entries[e]) ELSE 0)
  <2>1. CashOf(e, cash) = {t}
    BY DEF Mirrored
  <2>2. t \in CashRow /\ t.amount \in Int
    BY DEF CashOf, LedgerTypeOK, CashRow
  <2>3. IsFiniteSet({t}) /\ Cardinality({t}) = 1
    BY FS_Singleton
  <2>4. CashEffect(e) = IF t.type = "income" THEN t.amount ELSE -t.amount
    <3>1. effect[t] = (IF t.type = "income" THEN t.amount ELSE -t.amount) /\ effect[t] \in Int
      BY <2>2
    <3> HIDE DEF effect
    <3>2. SumFunctionOnSet(effect, {t}) = effect[t] + SumFunctionOnSet(effect, {t} \ {t})
      BY <2>3, <3>1, SumTakeOut
    <3>3. SumFunctionOnSet(effect, {t} \ {t}) = 0
      BY SumOfNone
    <3> QED
      BY <1>0, <2>1, <3>1, <3>2, <3>3
  <2>5. ASSUME e \notin cashTouched
        PROVE  CashEffect(e) = -(IF e \in LiveEntries THEN Receivable(entries[e]) ELSE 0)
    <3>1. e \in LiveEntries /\ t.type = CashType(entries[e].direction) /\ t.amount = entries[e].amount
      BY <2>1, <2>5 DEF Mirrored
    <3>2. entries[e].direction \in Direction /\ entries[e].amount \in Int
      BY DEF LedgerTypeOK, LedgerRow
    <3> QED
      BY <2>4, <3>1, <3>2 DEF CashType, Receivable, Direction
  <2> QED
    BY <2>1, <2>3, <2>5
<1> QED
  BY <1>1, <1>2

\* In the beginning there are no entries and no cash.
LEMMA LedgerStarts == LedgerInit => LedgerTypeOK /\ LedgerInv
<1> SUFFICES ASSUME LedgerInit PROVE LedgerTypeOK /\ LedgerInv
  OBVIOUS
<1>0. LedgerTypeOK
  BY DEF LedgerInit, LedgerTypeOK, LedgerRow, Direction
<1>1. \A e \in LedgerEntry : Mirrored(e)
  BY DEF LedgerInit, Mirrored, LiveEntries, CashOf
<1>2. CashIsKept
  BY DEF LedgerInit, CashIsKept
<1>3. \A c \in Client : RequestIsFresh(ledgerReq[c])
  BY DEF LedgerInit, RequestIsFresh, NoRequest
<1> QED
  BY <1>0, <1>1, <1>2, <1>3 DEF LedgerInv

\* However requests, the transaction endpoints and the backfill interleave, an entry that
\* no two requests raced for has one cash transaction at most, and what it says a person
\* owes is what left the wallet.
THEOREM CashAlwaysMirrors == LedgerSpec => []CashMirrorsEntries
<1>1. LedgerInit => LedgerInv
  BY LedgerStarts
<1>2. LedgerTypeOK /\ LedgerInv => CashMirrorsEntries
  BY MirroredEffect DEF LedgerInv, CashMirrorsEntries
<1> QED
  BY <1>1, <1>2, LedgerInvStep, LedgerTypeCorrect, PTL DEF LedgerSpec

-----------------------------------------------------------------------------
(* Goals.                                                                  *)

\* A flush leaves a row a row.
LEMMA FlushGoal ==
    ASSUME NEW current \in GoalRow, NEW loaded \in GoalRow, NEW computed \in GoalRow
    PROVE  Flush(current, loaded, computed) \in GoalRow
BY DEF Flush, GoalRow

\* A flush over the row that was loaded writes what was computed, column by column.
LEMMA FlushGoalColumns ==
    ASSUME NEW current \in GoalRow, NEW loaded \in GoalRow, NEW computed \in GoalRow
    PROVE  LET row == Flush(current, loaded, computed)
           IN  /\ current.saved = loaded.saved => row.saved = computed.saved
               /\ current.target = loaded.target => row.target = computed.target
               /\ computed.status = loaded.status => row.status = current.status
<1>1. "saved" \in DOMAIN current /\ "target" \in DOMAIN current /\ "status" \in DOMAIN current
  BY DEF GoalRow
<1> QED
  BY <1>1 DEF Flush

\* A row as the columns keep it is a row, with its amounts rounded.
LEMMA StoredGoalRow ==
    ASSUME NEW row \in GoalRow
    PROVE  /\ StoredGoal(row) \in GoalRow
           /\ StoredGoal(row).saved = Stored(row.saved)
           /\ StoredGoal(row).target = Stored(row.target)
           /\ StoredGoal(row).status = row.status
           /\ Stored(row.saved) \in Int
           /\ row.saved <= row.target => Stored(row.saved) <= Stored(row.target)
<1>1. row.saved \in Nat /\ row.target \in Nat
  BY DEF GoalRow
<1>2. Stored(row.saved) \in Nat /\ Stored(row.target) \in Nat
  BY <1>1, StoredAmount
<1>3. row.saved <= row.target => Stored(row.saved) <= Stored(row.target)
  BY <1>1, StoredMonotone
<1>4. StoredGoal(row) \in GoalRow
  BY <1>2 DEF StoredGoal, GoalRow
<1>5. /\ StoredGoal(row).saved = Stored(row.saved)
      /\ StoredGoal(row).target = Stored(row.target)
      /\ StoredGoal(row).status = row.status
  BY DEF StoredGoal, GoalRow
<1> QED
  BY <1>2, <1>3, <1>4, <1>5

\* A request in flight is of the kind that its operation names.
LEMMA GoalRequestKind ==
    ASSUME GoalsTypeOK, NEW c \in Client
    PROVE  /\ goalReq[c].op = "create" => goalReq[c] \in GoalCreate
           /\ goalReq[c].op \in {"contribute", "update"} => goalReq[c] \in GoalWrite
           /\ goalReq[c] # NoRequest => goalReq[c].op \in {"create", "contribute", "update"}
<1>1. goalReq[c] \in {NoRequest} \union GoalWrite \union GoalCreate
  BY DEF GoalsTypeOK
<1>2. CASE goalReq[c] = NoRequest
  BY <1>2 DEF NoRequest
<1>3. CASE goalReq[c] \in GoalWrite
  <2>1. goalReq[c].op \in {"contribute", "update"}
    BY <1>3 DEF GoalWrite
  <2> QED
    BY <1>3, <2>1
<1>4. CASE goalReq[c] \in GoalCreate
  <2>1. goalReq[c].op = "create"
    BY <1>4 DEF GoalCreate
  <2> QED
    BY <1>4, <2>1
<1> QED
  BY <1>1, <1>2, <1>3, <1>4

\* The rows that requests write.
LEMMA NewRowType ==
    ASSUME NEW target \in GoalTarget, NEW saved \in {0} \union Saving
    PROVE  /\ NewGoalRow(target, saved, TRUE) \in GoalRow
           /\ NewGoalRow(target, saved, FALSE) \in GoalRow
           /\ saved \in Int
<1>1. target \in Nat /\ saved \in Nat
  BY GoalTargetAssumption, SavingAssumption
<1>2. NewGoalRow(target, saved, TRUE) \in GoalRow
  BY <1>1 DEF NewGoalRow, GoalRow
<1>3. NewGoalRow(target, saved, FALSE) \in GoalRow
  BY <1>1 DEF NewGoalRow, GoalRow
<1>4. saved \in Int
  BY <1>1
<1> QED
  BY <1>2, <1>3, <1>4

\* A contribution ends within the target where the goal began there.
LEMMA ContributedType ==
    ASSUME NEW row \in GoalRow, NEW amount \in Saving
    PROVE  /\ [row EXCEPT !.saved = Contributed(row, amount)] \in GoalRow
           /\ row.saved <= row.target => Contributed(row, amount) <= row.target
<1>1. amount \in Nat /\ row.saved \in Nat /\ row.target \in Nat
  BY SavingAssumption DEF GoalRow
<1>2. Contributed(row, amount) \in Nat
  BY <1>1 DEF Contributed
<1>3. [row EXCEPT !.saved = Contributed(row, amount)] \in GoalRow
  BY <1>2 DEF GoalRow
<1>4. row.saved <= row.target => Contributed(row, amount) <= row.target
  BY <1>1 DEF Contributed
<1> QED
  BY <1>3, <1>4

\* Every step of a request about goals keeps the type of the state.
LEMMA GoalsTypeStep == GoalsTypeOK /\ [GoalsNext]_goalVars => GoalsTypeOK'
<1> SUFFICES ASSUME GoalsTypeOK, [GoalsNext]_goalVars PROVE GoalsTypeOK'
  OBVIOUS
<1>0. /\ goals \in [Goal -> GoalRow]
      /\ goalReq \in [Client -> {NoRequest} \union GoalWrite \union GoalCreate]
      /\ credited \in [Goal -> Int]
      /\ goalsRaced \subseteq Goal
      /\ fundsRaced \in BOOLEAN
  BY DEF GoalsTypeOK
<1>1. ASSUME NEW g \in Goal, NEW target \in GoalTarget, NEW saved \in {0} \union Saving,
             CreateGoal(g, target, saved)
      PROVE  GoalsTypeOK'
  <2>1. StoredGoal(NewGoalRow(target, saved, FALSE)) \in GoalRow /\ Stored(saved) \in Int
    BY NewRowType, StoredGoalRow, StoredAmount
  <2>2. goals' \in [Goal -> GoalRow] /\ credited' \in [Goal -> Int]
    BY <1>0, <1>1, <2>1 DEF CreateGoal
  <2> QED
    BY <1>0, <1>1, <2>2 DEF CreateGoal, GoalsTypeOK
<1>2. ASSUME NEW c \in Client, NEW g \in Goal, NEW target \in GoalTarget,
             NEW saved \in {0} \union Saving, ClearEmergencyFlag(c, g, target, saved)
      PROVE  GoalsTypeOK'
  <2>1. NewGoalRow(target, saved, TRUE) \in GoalRow
    BY NewRowType
  <2>2. ClearsFlagOf \subseteq Goal
    BY DEF ClearsFlagOf, EmergencyFunds, LiveGoals
  <2>3. [op |-> "create", goal |-> g, cleared |-> ClearsFlagOf, computed |-> NewGoalRow(target, saved, TRUE)]
           \in GoalCreate
    BY <2>1, <2>2 DEF GoalCreate
  <2>4. goalReq' \in [Client -> {NoRequest} \union GoalWrite \union GoalCreate]
    BY <1>0, <1>2, <2>3 DEF ClearEmergencyFlag
  <2> QED
    BY <1>0, <1>2, <2>4 DEF ClearEmergencyFlag, GoalsTypeOK
<1>3. ASSUME NEW c \in Client, NEW g \in Goal, NEW amount \in Saving, LoadContribution(c, g, amount)
      PROVE  GoalsTypeOK'
  <2>1. goals[g] \in GoalRow /\ [goals[g] EXCEPT !.saved = Contributed(goals[g], amount)] \in GoalRow
    BY <1>0, ContributedType
  <2>2. [op |-> "contribute", goal |-> g, loaded |-> goals[g],
         computed |-> [goals[g] EXCEPT !.saved = Contributed(goals[g], amount)]] \in GoalWrite
    BY <2>1 DEF GoalWrite
  <2>3. goalReq' \in [Client -> {NoRequest} \union GoalWrite \union GoalCreate]
    BY <1>0, <1>3, <2>2 DEF LoadContribution, LoadGoal
  <2> QED
    BY <1>0, <1>3, <2>3 DEF LoadContribution, LoadGoal, GoalsTypeOK
<1>4. ASSUME NEW c \in Client, NEW g \in Goal, NEW target \in GoalTarget, LoadGoalUpdate(c, g, target)
      PROVE  GoalsTypeOK'
  <2>1. goals[g] \in GoalRow /\ [goals[g] EXCEPT !.target = target] \in GoalRow
    BY <1>0, GoalTargetAssumption DEF GoalRow
  <2>2. [op |-> "update", goal |-> g, loaded |-> goals[g],
         computed |-> [goals[g] EXCEPT !.target = target]] \in GoalWrite
    BY <2>1 DEF GoalWrite
  <2>3. goalReq' \in [Client -> {NoRequest} \union GoalWrite \union GoalCreate]
    BY <1>0, <1>4, <2>2 DEF LoadGoalUpdate, LoadGoal
  <2> QED
    BY <1>0, <1>4, <2>3 DEF LoadGoalUpdate, LoadGoal, GoalsTypeOK
<1>5. ASSUME NEW c \in Client, CommitEmergencyFund(c)
      PROVE  GoalsTypeOK'
  <2>1. /\ goalReq[c].goal \in Goal
        /\ goalReq[c].computed \in GoalRow
    BY <1>5, GoalRequestKind DEF CommitEmergencyFund, GoalCreate
  <2>5. StoredGoal(goalReq[c].computed) \in GoalRow /\ Stored(goalReq[c].computed.saved) \in Int
    BY <2>1, StoredGoalRow
  <2>2. ASSUME NEW g \in Goal
        PROVE  [goals[g] EXCEPT !.emergency = FALSE] \in GoalRow
    BY <1>0 DEF GoalRow
  <2>3. goals' \in [Goal -> GoalRow]
    BY <1>0, <1>5, <2>1, <2>2, <2>5 DEF CommitEmergencyFund
  <2>4. credited' \in [Goal -> Int] /\ goalReq' \in [Client -> {NoRequest} \union GoalWrite \union GoalCreate] /\ fundsRaced' \in BOOLEAN
    BY <1>0, <1>5, <2>1, <2>5 DEF CommitEmergencyFund
  <2> QED
    BY <1>0, <1>5, <2>3, <2>4 DEF CommitEmergencyFund, GoalsTypeOK
<1>6. ASSUME NEW c \in Client, CommitGoal(c)
      PROVE  GoalsTypeOK'
  <2>1. /\ goalReq[c].goal \in Goal
        /\ goalReq[c].loaded \in GoalRow /\ goalReq[c].computed \in GoalRow
    BY <1>6, GoalRequestKind DEF CommitGoal, GoalWrite
  <2>2. Stored(goalReq[c].computed.saved) - goalReq[c].loaded.saved \in Int
    BY <2>1, StoredGoalRow DEF GoalRow
  <2>3. goals' \in [Goal -> GoalRow]
    BY <1>0, <1>6, <2>1, FlushGoal, StoredGoalRow DEF CommitGoal
  <2>4. credited' \in [Goal -> Int]
    BY <1>0, <1>6, <2>1, <2>2 DEF CommitGoal
  <2>5. goalReq' \in [Client -> {NoRequest} \union GoalWrite \union GoalCreate] /\ goalsRaced' \subseteq Goal
    BY <1>0, <1>6, <2>1 DEF CommitGoal
  <2> QED
    BY <1>0, <1>6, <2>3, <2>4, <2>5 DEF CommitGoal, GoalsTypeOK
<1>7. ASSUME NEW c \in Client, RollBackGoal(c)
      PROVE  GoalsTypeOK'
  <2>1. goalReq' \in [Client -> {NoRequest} \union GoalWrite \union GoalCreate]
    BY <1>0, <1>7 DEF RollBackGoal
  <2> QED
    BY <1>0, <1>7, <2>1 DEF RollBackGoal, GoalsTypeOK
<1>8. ASSUME NEW g \in Goal, DeleteGoal(g)
      PROVE  GoalsTypeOK'
  <2>1. [goals[g] EXCEPT !.status = "deleted"] \in GoalRow
    BY <1>0 DEF GoalRow
  <2>2. goals' \in [Goal -> GoalRow]
    BY <1>0, <1>8, <2>1 DEF DeleteGoal
  <2> QED
    BY <1>0, <1>8, <2>2 DEF DeleteGoal, GoalsTypeOK
<1>9. CASE UNCHANGED goalVars
  BY <1>0, <1>9 DEF goalVars, GoalsTypeOK
<1> QED
  BY <1>1, <1>2, <1>3, <1>4, <1>5, <1>6, <1>7, <1>8, <1>9 DEF GoalsNext

\* So are the first goals.
LEMMA GoalsStart == GoalsInit => GoalsTypeOK
<1>1. [status |-> "absent", target |-> 0, saved |-> 0, emergency |-> FALSE] \in GoalRow
  BY DEF GoalRow
<1>2. GoalsInit => goals \in [Goal -> GoalRow]
  BY <1>1 DEF GoalsInit
<1>3. GoalsInit => goalReq \in [Client -> {NoRequest} \union GoalWrite \union GoalCreate]
  BY DEF GoalsInit
<1>4. GoalsInit => credited \in [Goal -> Int]
  BY DEF GoalsInit
<1>5. GoalsInit => goalsRaced \subseteq Goal
  BY DEF GoalsInit
<1>6. GoalsInit => fundsRaced \in BOOLEAN
  BY DEF GoalsInit
<1> QED
  BY <1>2, <1>3, <1>4, <1>5, <1>6 DEF GoalsTypeOK

-----------------------------------------------------------------------------

\* Type correctness: every reachable state of goals and requests has its type.
THEOREM GoalsTypeCorrect == GoalsSpec => []GoalsTypeOK
<1>1. GoalsInit => GoalsTypeOK
  BY GoalsStart
<1> QED
  BY <1>1, GoalsTypeStep, PTL DEF GoalsSpec

-----------------------------------------------------------------------------
(* Savings add up.                                                         *)

\* The inductive invariant.  What the goals' rows say is not inductive: a commit writes
\* what its request computed long ago.  A creation in flight is of a goal that is new and
\* its own; a write in flight of a goal that was not raced loaded the row as it still is.
CreationsAreNew ==
    \A c \in Client : goalReq[c].op = "create" =>
        /\ goals[goalReq[c].goal].status = "absent"
        /\ goalReq[c].computed.saved <= goalReq[c].computed.target
        /\ \A d \in Client \ {c} : goalReq[d].op = "create" => goalReq[d].goal # goalReq[c].goal

GoalWriteIsFresh(r) ==
    /\ goals[r.goal].status # "absent"
    /\ r.computed.status = r.loaded.status
    /\ r.goal \notin goalsRaced =>
         /\ r.loaded.saved = goals[r.goal].saved
         /\ r.loaded.target = goals[r.goal].target
         /\ r.computed.saved <= r.computed.target

GoalWritesAreFresh ==
    \A c \in Client : goalReq[c].op \in {"contribute", "update"} => GoalWriteIsFresh(goalReq[c])

GoalsInv == GoalsTypeOK /\ SavingsAddUp /\ CreationsAreNew /\ GoalWritesAreFresh

\* A new goal that no request is about keeps the invariant of all others.
LEMMA CreateGoalKeeps ==
    ASSUME GoalsInv, NEW g \in Goal, NEW target \in GoalTarget, NEW saved \in {0} \union Saving,
           CreateGoal(g, target, saved)
    PROVE  SavingsAddUp' /\ CreationsAreNew' /\ GoalWritesAreFresh'
<1>0. /\ goals \in [Goal -> GoalRow] /\ credited \in [Goal -> Int]
      /\ goals[g].status = "absent" /\ saved <= target
      /\ goals' = [goals EXCEPT ![g] = StoredGoal(NewGoalRow(target, saved, FALSE))]
      /\ credited' = [credited EXCEPT ![g] = Stored(saved)]
      /\ goalReq' = goalReq /\ goalsRaced' = goalsRaced
  BY DEF GoalsInv, GoalsTypeOK, CreateGoal, NewGoals
<1>1. ASSUME NEW c \in Client, goalReq[c] # NoRequest
      PROVE  goalReq[c].goal # g
  BY <1>1 DEF CreateGoal, NewGoals
<1>2. ASSUME NEW c \in Client, goalReq[c].op \in {"create", "contribute", "update"}
      PROVE  goals'[goalReq[c].goal] = goals[goalReq[c].goal]
  <2>1. goalReq[c] # NoRequest
    BY <1>2 DEF NoRequest
  <2>2. goalReq[c].goal \in Goal
    BY <1>2, GoalRequestKind DEF GoalsInv, GoalCreate, GoalWrite
  <2> QED
    BY <1>0, <1>1, <2>1, <2>2
<1>3. SavingsAddUp'
  <2> SUFFICES ASSUME NEW h \in Goal, goals'[h].status = "live", h \notin goalsRaced
               PROVE  goals'[h].saved <= goals'[h].target /\ goals'[h].saved = credited'[h]
    BY <1>0 DEF SavingsAddUp, LiveGoals
  <2>1. CASE h = g
    <3>1. goals'[h] = StoredGoal(NewGoalRow(target, saved, FALSE)) /\ credited'[h] = Stored(saved)
      BY <1>0, <2>1
    <3>2. /\ NewGoalRow(target, saved, FALSE) \in GoalRow
          /\ NewGoalRow(target, saved, FALSE).saved = saved
          /\ NewGoalRow(target, saved, FALSE).target = target
      BY NewRowType DEF NewGoalRow
    <3>3. PICK row \in GoalRow : /\ row = NewGoalRow(target, saved, FALSE)
                                 /\ row.saved = saved /\ row.target = target
      BY <3>2
    <3>4. /\ StoredGoal(row).saved = Stored(saved)
          /\ StoredGoal(row).saved <= StoredGoal(row).target
      BY <1>0, <3>3, StoredGoalRow
    <3>5. goals'[h] = StoredGoal(row) /\ credited'[h] = Stored(saved)
      BY <3>1, <3>3
    <3> QED
      BY <3>4, <3>5
  <2>2. CASE h # g
    BY <1>0, <2>2 DEF GoalsInv, SavingsAddUp, LiveGoals
  <2> QED
    BY <2>1, <2>2
<1>4. CreationsAreNew'
  BY <1>0, <1>2 DEF GoalsInv, CreationsAreNew
<1>5. GoalWritesAreFresh'
  BY <1>0, <1>2 DEF GoalsInv, GoalWritesAreFresh, GoalWriteIsFresh
<1> QED
  BY <1>3, <1>4, <1>5

\* The steps that only take up, or drop, one request: the tables stay as they are.
LEMMA GoalRequestKeeps ==
    ASSUME GoalsInv, NEW c \in Client, NEW r,
           goals' = goals, credited' = credited, goalsRaced' = goalsRaced,
           goalReq' = [goalReq EXCEPT ![c] = r],
           r.op = "create" =>
              /\ r.goal \in NewGoals
              /\ r.computed.saved <= r.computed.target,
           r.op \in {"contribute", "update"} => GoalWriteIsFresh(r)
    PROVE  SavingsAddUp' /\ CreationsAreNew' /\ GoalWritesAreFresh'
<1>0. goalReq'[c] = r /\ \A d \in Client \ {c} : goalReq'[d] = goalReq[d]
  BY DEF GoalsInv, GoalsTypeOK
<1>1. SavingsAddUp'
  BY DEF GoalsInv, SavingsAddUp, LiveGoals
<1>2. CreationsAreNew'
  <2> SUFFICES ASSUME NEW d \in Client, goalReq'[d].op = "create"
               PROVE  /\ goals[goalReq'[d].goal].status = "absent"
                      /\ goalReq'[d].computed.saved <= goalReq'[d].computed.target
                      /\ \A e \in Client \ {d} :
                           goalReq'[e].op = "create" => goalReq'[e].goal # goalReq'[d].goal
    BY DEF CreationsAreNew
  <2>1. ASSUME NEW e \in Client, goalReq[e].op = "create", r.op = "create"
        PROVE  goalReq[e].goal # r.goal
    <3>1. goalReq[e] # NoRequest
      BY <2>1 DEF NoRequest
    <3> QED
      BY <2>1, <3>1 DEF NewGoals
  <2>2. CASE d = c
    BY <1>0, <2>1, <2>2 DEF NewGoals
  <2>3. CASE d # c
    BY <1>0, <2>1, <2>3 DEF GoalsInv, CreationsAreNew
  <2> QED
    BY <2>2, <2>3
<1>3. GoalWritesAreFresh'
  <2>1. ASSUME NEW d \in Client, goalReq'[d].op \in {"contribute", "update"}
        PROVE  GoalWriteIsFresh(goalReq'[d])
    BY <1>0, <2>1 DEF GoalsInv, GoalWritesAreFresh
  <2> QED
    BY <2>1 DEF GoalWritesAreFresh, GoalWriteIsFresh
<1> QED
  BY <1>1, <1>2, <1>3

\* A commit of an emergency fund: the new goal is the request's own, and the flags it
\* clears are in no column that the invariant is about.
LEMMA CommitEmergencyFundKeeps ==
    ASSUME GoalsInv, NEW c \in Client, CommitEmergencyFund(c)
    PROVE  SavingsAddUp' /\ CreationsAreNew' /\ GoalWritesAreFresh'
<1> DEFINE k == goalReq[c].goal
<1>0. /\ goals \in [Goal -> GoalRow] /\ credited \in [Goal -> Int] /\ goalReq[c].op = "create"
      /\ k \in Goal /\ goalReq[c].computed \in GoalRow
      /\ goals[k].status = "absent"
      /\ goalReq[c].computed.saved <= goalReq[c].computed.target
  BY GoalRequestKind DEF GoalsInv, GoalsTypeOK, CommitEmergencyFund, GoalCreate, CreationsAreNew
<1>1. /\ goals'[k] = StoredGoal(goalReq[c].computed)
      /\ credited'[k] = Stored(goalReq[c].computed.saved)
      /\ goalReq'[c] = NoRequest /\ \A d \in Client \ {c} : goalReq'[d] = goalReq[d]
      /\ goalsRaced' = goalsRaced
  <2>1. goals'[k] = StoredGoal(goalReq[c].computed)
    BY <1>0 DEF CommitEmergencyFund
  <2> QED
    BY <1>0, <2>1 DEF GoalsInv, GoalsTypeOK, CommitEmergencyFund
<1>2. ASSUME NEW g \in Goal, g # k
      PROVE  /\ goals'[g].saved = goals[g].saved /\ goals'[g].target = goals[g].target
             /\ goals'[g].status = goals[g].status
             /\ credited'[g] = credited[g]
  <2>1. goals'[g] = goals[g] \/ goals'[g] = [goals[g] EXCEPT !.emergency = FALSE]
    BY <1>2 DEF CommitEmergencyFund
  <2>2. credited'[g] = credited[g]
    BY <1>0, <1>2 DEF CommitEmergencyFund
  <2> QED
    BY <1>0, <2>1, <2>2 DEF GoalRow
<1>3. ASSUME NEW d \in Client, d # c, goalReq[d].op \in {"create", "contribute", "update"}
      PROVE  goalReq[d].goal \in Goal /\ goalReq[d].goal # k
  <2>1. goalReq[d].goal \in Goal
    BY <1>3, GoalRequestKind DEF GoalsInv, GoalCreate, GoalWrite
  <2>2. CASE goalReq[d].op = "create"
    BY <1>0, <1>3, <2>1, <2>2 DEF GoalsInv, CreationsAreNew
  <2>3. CASE goalReq[d].op \in {"contribute", "update"}
    BY <1>0, <1>3, <2>1, <2>3 DEF GoalsInv, GoalWritesAreFresh, GoalWriteIsFresh
  <2> QED
    BY <1>3, <2>1, <2>2, <2>3
<1>4. NoRequest.op \notin {"create", "contribute", "update"}
  BY DEF NoRequest
<1>5. SavingsAddUp'
  <2> SUFFICES ASSUME NEW h \in Goal, goals'[h].status = "live", h \notin goalsRaced
               PROVE  goals'[h].saved <= goals'[h].target /\ goals'[h].saved = credited'[h]
    BY <1>1 DEF SavingsAddUp, LiveGoals
  <2>1. CASE h = k
    BY <1>0, <1>1, <2>1, StoredGoalRow
  <2>2. CASE h # k
    BY <1>2, <2>2 DEF GoalsInv, SavingsAddUp, LiveGoals
  <2> QED
    BY <2>1, <2>2
<1>6. CreationsAreNew'
  BY <1>1, <1>2, <1>3, <1>4 DEF GoalsInv, CreationsAreNew
<1>7. GoalWritesAreFresh'
  BY <1>1, <1>2, <1>3, <1>4 DEF GoalsInv, GoalWritesAreFresh, GoalWriteIsFresh
<1> QED
  BY <1>5, <1>6, <1>7

\* A commit of a write: its goal's row is what the request computed, and every other
\* request about the goal has made it a raced one.
LEMMA CommitGoalKeeps ==
    ASSUME GoalsInv, NEW c \in Client, CommitGoal(c)
    PROVE  SavingsAddUp' /\ CreationsAreNew' /\ GoalWritesAreFresh'
<1> DEFINE r == goalReq[c]
           k == goalReq[c].goal
<1>0. /\ goals \in [Goal -> GoalRow] /\ credited \in [Goal -> Int] /\ r.op \in {"contribute", "update"}
      /\ k \in Goal /\ r.loaded \in GoalRow /\ r.computed \in GoalRow
      /\ GoalWriteIsFresh(r)
  BY GoalRequestKind DEF GoalsInv, GoalsTypeOK, CommitGoal, GoalWrite, GoalWritesAreFresh
<1>1. /\ goals'[k] = StoredGoal(Flush(goals[k], r.loaded, r.computed))
      /\ \A g \in Goal \ {k} : goals'[g] = goals[g] /\ credited'[g] = credited[g]
      /\ credited'[k] = IF k \in goalsRaced' THEN 0
                        ELSE credited[k] + (Stored(r.computed.saved) - r.loaded.saved)
      /\ goalReq'[c] = NoRequest /\ \A d \in Client \ {c} : goalReq'[d] = goalReq[d]
      /\ goalsRaced' = IF GoalContended(c, k) THEN goalsRaced \union {k} ELSE goalsRaced
  BY <1>0 DEF GoalsInv, GoalsTypeOK, CommitGoal
<1>2. /\ goals[k].saved = r.loaded.saved => goals'[k].saved = Stored(r.computed.saved)
      /\ goals[k].target = r.loaded.target => goals'[k].target = Stored(r.computed.target)
      /\ goals'[k].status = goals[k].status
  <2>1. PICK row \in GoalRow : row = Flush(goals[k], r.loaded, r.computed)
    BY <1>0, FlushGoal
  <2>2. /\ goals[k].saved = r.loaded.saved => row.saved = r.computed.saved
        /\ goals[k].target = r.loaded.target => row.target = r.computed.target
        /\ row.status = goals[k].status
    BY <1>0, <2>1, FlushGoalColumns DEF GoalWriteIsFresh
  <2>3. goals'[k] = StoredGoal(row)
    BY <1>1, <2>1
  <2> QED
    BY <2>2, <2>3, StoredGoalRow
<1>3. ASSUME NEW d \in Client, d # c, goalReq[d].op \in {"create", "contribute", "update"},
             goalReq[d].goal = k
      PROVE  k \in goalsRaced'
  <2>1. goalReq[d] # NoRequest
    BY <1>3 DEF NoRequest
  <2> QED
    BY <1>1, <1>3, <2>1 DEF GoalContended
<1>4. NoRequest.op \notin {"create", "contribute", "update"}
  BY DEF NoRequest
<1>5. ASSUME NEW d \in Client, goalReq[d].op \in {"create", "contribute", "update"}
      PROVE  goalReq[d].goal \in Goal
  BY <1>5, GoalRequestKind DEF GoalsInv, GoalCreate, GoalWrite
<1>6. SavingsAddUp'
  <2> SUFFICES ASSUME NEW h \in Goal, goals'[h].status = "live", h \notin goalsRaced'
               PROVE  goals'[h].saved <= goals'[h].target /\ goals'[h].saved = credited'[h]
    BY DEF SavingsAddUp, LiveGoals
  <2>0. h \notin goalsRaced
    BY <1>1
  <2>1. CASE h = k
    <3>1. goals'[k].saved = Stored(r.computed.saved) /\ goals'[k].target = Stored(r.computed.target)
      BY <1>0, <1>2, <2>0, <2>1 DEF GoalWriteIsFresh
    <3>2. goals[k].saved = credited[k] /\ goals[k].saved = r.loaded.saved
      BY <1>0, <1>2, <2>0, <2>1 DEF GoalsInv, SavingsAddUp, LiveGoals, GoalWriteIsFresh
    <3>3. Stored(r.computed.saved) <= Stored(r.computed.target)
      BY <1>0, <2>0, <2>1, StoredGoalRow DEF GoalWriteIsFresh
    <3>4. credited'[k] = credited[k] + (Stored(r.computed.saved) - r.loaded.saved)
      BY <1>1, <2>1
    <3>5. Stored(r.computed.saved) \in Int /\ r.loaded.saved \in Int
      <4>1. Stored(r.computed.saved) \in Int
        BY <1>0, StoredGoalRow
      <4>2. r.loaded.saved \in Nat
        BY <1>0 DEF GoalRow
      <4> QED
        BY <4>1, <4>2
    <3>6. credited'[k] = r.loaded.saved + (Stored(r.computed.saved) - r.loaded.saved)
      BY <3>2, <3>4
    <3>7. credited'[k] = Stored(r.computed.saved)
      BY <3>5, <3>6, Difference
    <3> QED
      BY <2>1, <3>1, <3>3, <3>7
  <2>2. CASE h # k
    BY <1>1, <2>0, <2>2 DEF GoalsInv, SavingsAddUp, LiveGoals
  <2> QED
    BY <2>1, <2>2
<1>7. ASSUME NEW g \in Goal
      PROVE  goals'[g].status = goals[g].status
  BY <1>1, <1>2
<1>8. CreationsAreNew'
  BY <1>1, <1>4, <1>5, <1>7 DEF GoalsInv, CreationsAreNew
<1>9. GoalWritesAreFresh'
  <2> SUFFICES ASSUME NEW d \in Client, goalReq'[d].op \in {"contribute", "update"}
               PROVE  /\ goals'[goalReq'[d].goal].status # "absent"
                      /\ goalReq'[d].computed.status = goalReq'[d].loaded.status
                      /\ goalReq'[d].goal \notin goalsRaced' =>
                           /\ goalReq'[d].loaded.saved = goals'[goalReq'[d].goal].saved
                           /\ goalReq'[d].loaded.target = goals'[goalReq'[d].goal].target
                           /\ goalReq'[d].computed.saved <= goalReq'[d].computed.target
    BY DEF GoalWritesAreFresh, GoalWriteIsFresh
  <2>1. d # c /\ goalReq'[d] = goalReq[d]
    BY <1>1, <1>4
  <2>2. GoalWriteIsFresh(goalReq[d]) /\ goalReq[d].goal \in Goal
    BY <1>5, <2>1 DEF GoalsInv, GoalWritesAreFresh
  <2>3. CASE goalReq[d].goal = k
    BY <1>3, <1>7, <2>1, <2>2, <2>3 DEF GoalWriteIsFresh
  <2>4. CASE goalReq[d].goal # k
    BY <1>1, <2>1, <2>2, <2>4 DEF GoalWriteIsFresh
  <2> QED
    BY <2>3, <2>4
<1> QED
  BY <1>6, <1>8, <1>9

\* Deleting a goal takes it out of what the properties are about.
LEMMA DeleteGoalKeeps ==
    ASSUME GoalsInv, NEW g \in Goal, DeleteGoal(g)
    PROVE  SavingsAddUp' /\ CreationsAreNew' /\ GoalWritesAreFresh'
<1>0. /\ goals \in [Goal -> GoalRow] /\ goals[g].status = "live"
      /\ goalReq' = goalReq /\ credited' = credited /\ goalsRaced' = goalsRaced
  BY DEF GoalsInv, GoalsTypeOK, DeleteGoal, LiveGoals
<1>1. \A h \in Goal : /\ goals'[h].saved = goals[h].saved /\ goals'[h].target = goals[h].target
                      /\ goals'[h].status = IF h = g THEN "deleted" ELSE goals[h].status
  BY <1>0 DEF DeleteGoal, GoalRow
<1>2. ASSUME NEW c \in Client, goalReq[c].op \in {"create", "contribute", "update"}
      PROVE  goalReq[c].goal \in Goal
  BY <1>2, GoalRequestKind DEF GoalsInv, GoalCreate, GoalWrite
<1>3. SavingsAddUp'
  BY <1>0, <1>1 DEF GoalsInv, SavingsAddUp, LiveGoals
<1>4. CreationsAreNew'
  BY <1>0, <1>1, <1>2 DEF GoalsInv, CreationsAreNew
<1>5. GoalWritesAreFresh'
  BY <1>0, <1>1, <1>2 DEF GoalsInv, GoalWritesAreFresh, GoalWriteIsFresh
<1> QED
  BY <1>3, <1>4, <1>5

\* The invariant is inductive: one step per action.
LEMMA GoalsInvStep == GoalsInv /\ GoalsTypeOK' /\ [GoalsNext]_goalVars => GoalsInv'
<1> SUFFICES ASSUME GoalsInv, GoalsTypeOK', [GoalsNext]_goalVars
             PROVE  SavingsAddUp' /\ CreationsAreNew' /\ GoalWritesAreFresh'
  BY DEF GoalsInv
<1>0. goals \in [Goal -> GoalRow]
  BY DEF GoalsInv, GoalsTypeOK
<1>1. ASSUME NEW g \in Goal, NEW target \in GoalTarget, NEW saved \in {0} \union Saving,
             CreateGoal(g, target, saved)
      PROVE  SavingsAddUp' /\ CreationsAreNew' /\ GoalWritesAreFresh'
  BY <1>1, CreateGoalKeeps
<1>2. ASSUME NEW c \in Client, NEW g \in Goal, NEW target \in GoalTarget,
             NEW saved \in {0} \union Saving, ClearEmergencyFlag(c, g, target, saved)
      PROVE  SavingsAddUp' /\ CreationsAreNew' /\ GoalWritesAreFresh'
  <2> DEFINE r == [op |-> "create", goal |-> g, cleared |-> ClearsFlagOf,
                   computed |-> NewGoalRow(target, saved, TRUE)]
  <2>1. r.computed.saved <= r.computed.target /\ r.goal \in NewGoals
    BY <1>2 DEF ClearEmergencyFlag, NewGoalRow
  <2>2. /\ goals' = goals /\ credited' = credited /\ goalsRaced' = goalsRaced
        /\ goalReq' = [goalReq EXCEPT ![c] = r]
    BY <1>2 DEF ClearEmergencyFlag
  <2>3. r.op = "create"
    OBVIOUS
  <2> HIDE DEF r
  <2> QED
    BY <2>1, <2>2, <2>3, GoalRequestKeeps
<1>3. ASSUME NEW c \in Client, NEW g \in Goal, NEW amount \in Saving, LoadContribution(c, g, amount)
      PROVE  SavingsAddUp' /\ CreationsAreNew' /\ GoalWritesAreFresh'
  <2> DEFINE r == [op |-> "contribute", goal |-> g, loaded |-> goals[g],
                   computed |-> [goals[g] EXCEPT !.saved = Contributed(goals[g], amount)]]
  <2>1. /\ goals' = goals /\ credited' = credited /\ goalsRaced' = goalsRaced
        /\ goalReq' = [goalReq EXCEPT ![c] = r]
        /\ g \in LiveGoals
    BY <1>3 DEF LoadContribution, LoadGoal
  <2>2. /\ r.computed.saved = Contributed(goals[g], amount)
        /\ r.computed.target = goals[g].target /\ r.computed.status = goals[g].status
    BY <1>0 DEF GoalRow
  <2>3. g \notin goalsRaced => r.computed.saved <= r.computed.target
    BY <1>0, <2>1, <2>2, ContributedType DEF GoalsInv, SavingsAddUp
  <2>4. r.op = "contribute" /\ r.goal = g /\ r.loaded = goals[g]
    OBVIOUS
  <2> HIDE DEF r
  <2>5. GoalWriteIsFresh(r)
    BY <2>1, <2>2, <2>3, <2>4 DEF GoalWriteIsFresh, LiveGoals
  <2> QED
    BY <2>1, <2>4, <2>5, GoalRequestKeeps
<1>4. ASSUME NEW c \in Client, NEW g \in Goal, NEW target \in GoalTarget, LoadGoalUpdate(c, g, target)
      PROVE  SavingsAddUp' /\ CreationsAreNew' /\ GoalWritesAreFresh'
  <2> DEFINE r == [op |-> "update", goal |-> g, loaded |-> goals[g],
                   computed |-> [goals[g] EXCEPT !.target = target]]
  <2>1. /\ goals' = goals /\ credited' = credited /\ goalsRaced' = goalsRaced
        /\ goalReq' = [goalReq EXCEPT ![c] = r]
        /\ g \in LiveGoals /\ goals[g].saved <= target
    BY <1>4 DEF LoadGoalUpdate, LoadGoal
  <2>2. /\ r.computed.saved = goals[g].saved
        /\ r.computed.target = target /\ r.computed.status = goals[g].status
    BY <1>0 DEF GoalRow
  <2>3. r.op = "update" /\ r.goal = g /\ r.loaded = goals[g]
    OBVIOUS
  <2> HIDE DEF r
  <2>4. GoalWriteIsFresh(r)
    BY <2>1, <2>2, <2>3 DEF GoalWriteIsFresh, LiveGoals
  <2> QED
    BY <2>1, <2>3, <2>4, GoalRequestKeeps
<1>5. ASSUME NEW c \in Client, CommitEmergencyFund(c)
      PROVE  SavingsAddUp' /\ CreationsAreNew' /\ GoalWritesAreFresh'
  BY <1>5, CommitEmergencyFundKeeps
<1>6. ASSUME NEW c \in Client, CommitGoal(c)
      PROVE  SavingsAddUp' /\ CreationsAreNew' /\ GoalWritesAreFresh'
  BY <1>6, CommitGoalKeeps
<1>7. ASSUME NEW c \in Client, RollBackGoal(c)
      PROVE  SavingsAddUp' /\ CreationsAreNew' /\ GoalWritesAreFresh'
  <2>1. NoRequest.op = "none"
    BY DEF NoRequest
  <2>2. /\ goals' = goals /\ credited' = credited /\ goalsRaced' = goalsRaced
        /\ goalReq' = [goalReq EXCEPT ![c] = NoRequest]
    BY <1>7 DEF RollBackGoal
  <2> QED
    BY <2>1, <2>2, GoalRequestKeeps
<1>8. ASSUME NEW g \in Goal, DeleteGoal(g)
      PROVE  SavingsAddUp' /\ CreationsAreNew' /\ GoalWritesAreFresh'
  BY <1>8, DeleteGoalKeeps
<1>9. CASE UNCHANGED goalVars
  BY <1>9 DEF goalVars, GoalsInv, SavingsAddUp, LiveGoals, CreationsAreNew, GoalWritesAreFresh, GoalWriteIsFresh
<1> QED
  BY <1>1, <1>2, <1>3, <1>4, <1>5, <1>6, <1>7, <1>8, <1>9 DEF GoalsNext

\* Nothing is saved beyond a target, and what is saved is what the responses added up to,
\* for any number of goals and devices: but for goals that two requests wrote at once.
THEOREM SavingsAlwaysAddUp == GoalsSpec => []SavingsAddUp
<1>1. GoalsInit /\ GoalsTypeOK => GoalsInv
  BY DEF GoalsInit, GoalsInv, SavingsAddUp, LiveGoals, CreationsAreNew, GoalWritesAreFresh, NoRequest
<1>2. GoalsInv => SavingsAddUp
  BY DEF GoalsInv
<1>3. []GoalsTypeOK /\ [][GoalsNext]_goalVars /\ GoalsInv => []GoalsInv
  BY GoalsInvStep, PTL
<1> QED
  BY <1>1, <1>2, <1>3, GoalsTypeCorrect, PTL DEF GoalsSpec

-----------------------------------------------------------------------------
(* One emergency fund.                                                     *)

\* The inductive invariant.  While no two creations overlapped, the one in flight is about
\* to clear every flag there is; and a write never carries a flag that changed.
FundsAreCleared ==
    \A c \in Client : goalReq[c].op = "create" => EmergencyFunds \subseteq goalReq[c].cleared

WritesKeepFlags ==
    \A c \in Client : goalReq[c].op \in {"contribute", "update"} =>
        /\ goalReq[c].computed.emergency = goalReq[c].loaded.emergency
        /\ goalReq[c].computed.status = goalReq[c].loaded.status

FundInv ==
    /\ GoalsTypeOK
    /\ WritesKeepFlags
    /\ ~fundsRaced => FundsAreCleared /\ \A g, h \in EmergencyFunds : g = h

\* A set whose elements are all the same has at most one.
LEMMA AtMostOne ==
    ASSUME NEW S, \A g, h \in S : g = h
    PROVE  Cardinality(S) <= 1
<1>1. CASE S = {}
  BY <1>1, FS_EmptySet
<1>2. CASE S # {}
  <2>1. PICK g \in S : S = {g}
    BY <1>2
  <2> QED
    BY <2>1, FS_Singleton
<1> QED
  BY <1>1, <1>2

\* A step that takes up or drops no creation, gives no goal a flag, and brings none back.
LEMMA NoNewFund ==
    ASSUME FundInv, EmergencyFunds' \subseteq EmergencyFunds, fundsRaced' = fundsRaced,
           \A c \in Client : goalReq'[c].op = "create" => goalReq'[c] = goalReq[c]
    PROVE  ~fundsRaced' => FundsAreCleared' /\ \A g, h \in EmergencyFunds' : g = h
<1> SUFFICES ASSUME ~fundsRaced
             PROVE  FundsAreCleared' /\ \A g, h \in EmergencyFunds' : g = h
  OBVIOUS
<1>1. ASSUME NEW c \in Client, goalReq'[c].op = "create"
      PROVE  EmergencyFunds' \subseteq goalReq'[c].cleared
  BY <1>1 DEF FundInv, FundsAreCleared
<1>2. FundsAreCleared'
  BY <1>1 DEF FundsAreCleared
<1> QED
  BY <1>2 DEF FundInv

\* A load of a goal's row.
LEMMA LoadGoalKeepsFunds ==
    ASSUME FundInv, NEW c \in Client, NEW g \in Goal, NEW op \in {"contribute", "update"},
           NEW computed, LoadGoal(c, g, op, computed),
           computed.emergency = goals[g].emergency, computed.status = goals[g].status
    PROVE  WritesKeepFlags' /\ (~fundsRaced' => FundsAreCleared' /\ \A h, k \in EmergencyFunds' : h = k)
<1> DEFINE r == [op |-> op, goal |-> g, loaded |-> goals[g], computed |-> computed]
<1>1. /\ goalReq'[c] = r /\ \A d \in Client \ {c} : goalReq'[d] = goalReq[d]
      /\ goals' = goals /\ fundsRaced' = fundsRaced
  BY DEF FundInv, GoalsTypeOK, LoadGoal
<1>2. /\ r.op = op /\ r.computed.emergency = r.loaded.emergency
      /\ r.computed.status = r.loaded.status
  OBVIOUS
<1> HIDE DEF r
<1>3. WritesKeepFlags'
  BY <1>1, <1>2 DEF FundInv, WritesKeepFlags
<1>4. EmergencyFunds' \subseteq EmergencyFunds
  BY <1>1 DEF EmergencyFunds, LiveGoals
<1>5. ASSUME NEW d \in Client, goalReq'[d].op = "create"
      PROVE  goalReq'[d] = goalReq[d]
  BY <1>1, <1>2, <1>5
<1>6. ~fundsRaced' => FundsAreCleared' /\ \A h, k \in EmergencyFunds' : h = k
  BY <1>1, <1>4, <1>5, NoNewFund
<1> QED
  BY <1>3, <1>6

\* The commit of an emergency fund, which is the only one afterwards; any other creation
\* in flight has overlapped with it.
LEMMA CommitEmergencyFundKeepsFunds ==
    ASSUME FundInv, NEW c \in Client, CommitEmergencyFund(c)
    PROVE  WritesKeepFlags' /\ (~fundsRaced' => FundsAreCleared' /\ \A h, k \in EmergencyFunds' : h = k)
<1> DEFINE k == goalReq[c].goal
<1>1. goals \in [Goal -> GoalRow] /\ goalReq[c].op = "create"
  BY DEF FundInv, GoalsTypeOK, CommitEmergencyFund
<1>2. goalReq'[c] = NoRequest /\ \A d \in Client \ {c} : goalReq'[d] = goalReq[d]
  BY DEF FundInv, GoalsTypeOK, CommitEmergencyFund
<1>3. NoRequest.op \notin {"create", "contribute", "update"}
  BY DEF NoRequest
<1>4. WritesKeepFlags'
  BY <1>2, <1>3 DEF FundInv, WritesKeepFlags
<1>5. ASSUME ~fundsRaced'
      PROVE  FundsAreCleared' /\ \A g, h \in EmergencyFunds' : g = h
  <2>1. ~fundsRaced /\ \A d \in Client \ {c} : goalReq[d].op # "create"
    BY <1>5 DEF CommitEmergencyFund
  <2>2. EmergencyFunds \subseteq goalReq[c].cleared
    BY <1>1, <2>1 DEF FundInv, FundsAreCleared
  <2>3. ASSUME NEW g \in Goal, g # k, g \in EmergencyFunds'
        PROVE  FALSE
    <3>1. CASE g \in goalReq[c].cleared
      <4>1. goals'[g] = [goals[g] EXCEPT !.emergency = FALSE]
        BY <2>3, <3>1 DEF CommitEmergencyFund
      <4>2. goals'[g].emergency = FALSE
        BY <1>1, <4>1 DEF GoalRow
      <4> QED
        BY <2>3, <4>2 DEF EmergencyFunds
    <3>2. CASE g \notin goalReq[c].cleared
      <4>1. goals'[g] = goals[g]
        BY <2>3, <3>2 DEF CommitEmergencyFund
      <4>2. g \in EmergencyFunds
        BY <2>3, <4>1 DEF EmergencyFunds, LiveGoals
      <4> QED
        BY <2>2, <3>2, <4>2
    <3> QED
      BY <3>1, <3>2
  <2>4. EmergencyFunds' \subseteq Goal
    BY DEF EmergencyFunds, LiveGoals
  <2>5. \A g, h \in EmergencyFunds' : g = h
    BY <2>3, <2>4
  <2>6. FundsAreCleared'
    BY <1>2, <1>3, <2>1 DEF FundsAreCleared
  <2> QED
    BY <2>5, <2>6
<1> QED
  BY <1>4, <1>5

\* The commit of a write: it leaves flag and status as they are.
LEMMA CommitGoalKeepsFunds ==
    ASSUME FundInv, NEW c \in Client, CommitGoal(c)
    PROVE  WritesKeepFlags' /\ (~fundsRaced' => FundsAreCleared' /\ \A h, k \in EmergencyFunds' : h = k)
<1> DEFINE r == goalReq[c]
           k == goalReq[c].goal
<1>1. /\ goals \in [Goal -> GoalRow] /\ k \in Goal /\ r.loaded \in GoalRow /\ r.computed \in GoalRow
      /\ r.computed.emergency = r.loaded.emergency /\ r.computed.status = r.loaded.status
  BY GoalRequestKind DEF FundInv, GoalsTypeOK, CommitGoal, GoalWrite, WritesKeepFlags
<1>2. /\ goals'[k] = StoredGoal(Flush(goals[k], r.loaded, r.computed))
      /\ \A g \in Goal \ {k} : goals'[g] = goals[g]
      /\ goalReq'[c] = NoRequest /\ \A d \in Client \ {c} : goalReq'[d] = goalReq[d]
      /\ fundsRaced' = fundsRaced
  BY <1>1 DEF FundInv, GoalsTypeOK, CommitGoal
<1>3. goals'[k].emergency = goals[k].emergency /\ goals'[k].status = goals[k].status
  <2>1. "emergency" \in DOMAIN goals[k] /\ "status" \in DOMAIN goals[k]
    BY <1>1 DEF GoalRow
  <2>2. PICK row \in GoalRow : row = Flush(goals[k], r.loaded, r.computed)
    BY <1>1, FlushGoal
  <2>3. row.emergency = goals[k].emergency /\ row.status = goals[k].status
    BY <1>1, <2>1, <2>2 DEF Flush
  <2>4. StoredGoal(row).emergency = row.emergency /\ StoredGoal(row).status = row.status
    BY DEF StoredGoal, GoalRow
  <2>5. goals'[k] = StoredGoal(row)
    BY <1>2, <2>2
  <2> QED
    BY <2>3, <2>4, <2>5
<1>4. NoRequest.op \notin {"create", "contribute", "update"}
  BY DEF NoRequest
<1>5. WritesKeepFlags'
  BY <1>2, <1>4 DEF FundInv, WritesKeepFlags
<1>6. EmergencyFunds' \subseteq EmergencyFunds
  BY <1>2, <1>3 DEF EmergencyFunds, LiveGoals
<1>7. ASSUME NEW d \in Client, goalReq'[d].op = "create"
      PROVE  goalReq'[d] = goalReq[d]
  BY <1>2, <1>4, <1>7
<1>8. ~fundsRaced' => FundsAreCleared' /\ \A g, h \in EmergencyFunds' : g = h
  BY <1>2, <1>6, <1>7, NoNewFund
<1> QED
  BY <1>5, <1>8

\* The invariant is inductive: one step per action.
LEMMA FundStep == FundInv /\ GoalsTypeOK' /\ [GoalsNext]_goalVars => FundInv'
<1> DEFINE Kept == WritesKeepFlags' /\ (~fundsRaced' => FundsAreCleared' /\ \A h, k \in EmergencyFunds' : h = k)
<1> SUFFICES ASSUME FundInv, GoalsTypeOK', [GoalsNext]_goalVars
             PROVE  Kept
  BY DEF FundInv
<1>0. goals \in [Goal -> GoalRow] /\ goalReq \in [Client -> {NoRequest} \union GoalWrite \union GoalCreate]
  BY DEF FundInv, GoalsTypeOK
<1>1. ASSUME NEW g \in Goal, NEW target \in GoalTarget, NEW saved \in {0} \union Saving,
             CreateGoal(g, target, saved)
      PROVE  Kept
  <2>0. StoredGoal(NewGoalRow(target, saved, FALSE)).emergency = FALSE
    BY DEF StoredGoal, NewGoalRow
  <2>1. /\ goalReq' = goalReq /\ fundsRaced' = fundsRaced
        /\ goals'[g].emergency = FALSE /\ \A h \in Goal \ {g} : goals'[h] = goals[h]
    BY <1>0, <1>1, <2>0 DEF CreateGoal
  <2>2. EmergencyFunds' \subseteq EmergencyFunds
    BY <2>1 DEF EmergencyFunds, LiveGoals
  <2>3. WritesKeepFlags'
    BY <2>1 DEF FundInv, WritesKeepFlags
  <2> QED
    BY <2>1, <2>2, <2>3, NoNewFund
<1>2. ASSUME NEW c \in Client, NEW g \in Goal, NEW target \in GoalTarget,
             NEW saved \in {0} \union Saving, ClearEmergencyFlag(c, g, target, saved)
      PROVE  Kept
  <2> DEFINE r == [op |-> "create", goal |-> g, cleared |-> ClearsFlagOf,
                   computed |-> NewGoalRow(target, saved, TRUE)]
  <2>1. /\ goals' = goals /\ fundsRaced' = fundsRaced
        /\ goalReq'[c] = r /\ \A d \in Client \ {c} : goalReq'[d] = goalReq[d]
    BY <1>0, <1>2 DEF ClearEmergencyFlag
  <2>2. r.op = "create" /\ r.cleared = EmergencyFunds
    BY DEF ClearsFlagOf
  <2> HIDE DEF r
  <2>3. EmergencyFunds' = EmergencyFunds
    BY <2>1 DEF EmergencyFunds, LiveGoals
  <2>4. WritesKeepFlags'
    BY <2>1, <2>2 DEF FundInv, WritesKeepFlags
  <2>5. ASSUME ~fundsRaced, NEW d \in Client, goalReq'[d].op = "create"
        PROVE  EmergencyFunds' \subseteq goalReq'[d].cleared
    BY <2>1, <2>2, <2>3, <2>5 DEF FundInv, FundsAreCleared
  <2>6. ~fundsRaced => FundsAreCleared'
    BY <2>5 DEF FundsAreCleared
  <2> QED
    BY <2>1, <2>3, <2>4, <2>6 DEF FundInv
<1>3. ASSUME NEW c \in Client, NEW g \in Goal, NEW amount \in Saving, LoadContribution(c, g, amount)
      PROVE  Kept
  <2> DEFINE computed == [goals[g] EXCEPT !.saved = Contributed(goals[g], amount)]
  <2>1. computed.emergency = goals[g].emergency /\ computed.status = goals[g].status
    BY <1>0 DEF GoalRow
  <2>2. LoadGoal(c, g, "contribute", computed)
    BY <1>3 DEF LoadContribution
  <2> HIDE DEF computed
  <2> QED
    BY <2>1, <2>2, LoadGoalKeepsFunds
<1>4. ASSUME NEW c \in Client, NEW g \in Goal, NEW target \in GoalTarget, LoadGoalUpdate(c, g, target)
      PROVE  Kept
  <2> DEFINE computed == [goals[g] EXCEPT !.target = target]
  <2>1. computed.emergency = goals[g].emergency /\ computed.status = goals[g].status
    BY <1>0 DEF GoalRow
  <2>2. LoadGoal(c, g, "update", computed)
    BY <1>4 DEF LoadGoalUpdate
  <2> HIDE DEF computed
  <2> QED
    BY <2>1, <2>2, LoadGoalKeepsFunds
<1>5. ASSUME NEW c \in Client, CommitEmergencyFund(c)
      PROVE  Kept
  BY <1>5, CommitEmergencyFundKeepsFunds
<1>6. ASSUME NEW c \in Client, CommitGoal(c)
      PROVE  Kept
  BY <1>6, CommitGoalKeepsFunds
<1>7. ASSUME NEW c \in Client, RollBackGoal(c)
      PROVE  Kept
  <2>1. NoRequest.op \notin {"create", "contribute", "update"}
    BY DEF NoRequest
  <2>2. /\ goals' = goals /\ fundsRaced' = fundsRaced
        /\ goalReq'[c] = NoRequest /\ \A d \in Client \ {c} : goalReq'[d] = goalReq[d]
    BY <1>0, <1>7 DEF RollBackGoal
  <2>3. EmergencyFunds' \subseteq EmergencyFunds
    BY <2>2 DEF EmergencyFunds, LiveGoals
  <2>4. WritesKeepFlags'
    BY <2>1, <2>2 DEF FundInv, WritesKeepFlags
  <2>5. ASSUME NEW d \in Client, goalReq'[d].op = "create"
        PROVE  goalReq'[d] = goalReq[d]
    BY <2>1, <2>2, <2>5
  <2> QED
    BY <2>2, <2>3, <2>4, <2>5, NoNewFund
<1>8. ASSUME NEW g \in Goal, DeleteGoal(g)
      PROVE  Kept
  <2>1. /\ goalReq' = goalReq /\ fundsRaced' = fundsRaced
        /\ goals'[g].status = "deleted" /\ \A h \in Goal \ {g} : goals'[h] = goals[h]
    BY <1>0, <1>8 DEF DeleteGoal, GoalRow
  <2>2. EmergencyFunds' \subseteq EmergencyFunds
    BY <2>1 DEF EmergencyFunds, LiveGoals
  <2>3. WritesKeepFlags'
    BY <2>1 DEF FundInv, WritesKeepFlags
  <2> QED
    BY <2>1, <2>2, <2>3, NoNewFund
<1>9. CASE UNCHANGED goalVars
  BY <1>9 DEF goalVars, FundInv, WritesKeepFlags, FundsAreCleared, EmergencyFunds, LiveGoals
<1> QED
  BY <1>1, <1>2, <1>3, <1>4, <1>5, <1>6, <1>7, <1>8, <1>9 DEF GoalsNext

\* There is one emergency fund at most, for any number of goals and devices, unless two
\* creations of one overlapped.
THEOREM OneEmergencyFundAlways == GoalsSpec => []OneEmergencyFund
<1>1. GoalsInit /\ GoalsTypeOK => FundInv
  BY DEF GoalsInit, FundInv, WritesKeepFlags, FundsAreCleared, EmergencyFunds, LiveGoals, NoRequest
<1>2. FundInv => OneEmergencyFund
  BY AtMostOne DEF FundInv, OneEmergencyFund, GoalsTypeOK
<1>3. []GoalsTypeOK /\ [][GoalsNext]_goalVars /\ FundInv => []FundInv
  BY FundStep, PTL
<1> QED
  BY <1>1, <1>2, <1>3, GoalsTypeCorrect, PTL DEF GoalsSpec

-----------------------------------------------------------------------------
(* Loans.                                                                  *)

\* A flush leaves a row a row.
LEMMA FlushLoan ==
    ASSUME NEW current \in LoanRow, NEW loaded \in LoanRow, NEW computed \in LoanRow
    PROVE  Flush(current, loaded, computed) \in LoanRow
BY DEF Flush, LoanRow

\* A flush writes the balance that was computed, or leaves the row's if that did not change.
LEMMA FlushLoanColumns ==
    ASSUME NEW current \in LoanRow, NEW loaded \in LoanRow, NEW computed \in LoanRow
    PROVE  LET row == Flush(current, loaded, computed)
           IN  /\ row.outstanding = IF computed.outstanding = loaded.outstanding
                                      THEN current.outstanding
                                      ELSE computed.outstanding
               /\ computed.status = loaded.status => row.status = current.status
<1>1. "outstanding" \in DOMAIN current /\ "status" \in DOMAIN current
  BY DEF LoanRow
<1> QED
  BY <1>1 DEF Flush

\* A row as the column keeps it is a row, with its balance rounded.
LEMMA StoredLoanRow ==
    ASSUME NEW row \in LoanRow
    PROVE  /\ StoredLoan(row) \in LoanRow
           /\ StoredLoan(row).outstanding = Stored(row.outstanding)
           /\ StoredLoan(row).status = row.status
           /\ Stored(row.outstanding) \in Int
           /\ row.outstanding >= 0 => Stored(row.outstanding) >= 0
<1>1. row.outstanding \in Int
  BY DEF LoanRow
<1>2. Stored(row.outstanding) \in Int /\ (row.outstanding >= 0 => Stored(row.outstanding) >= 0)
  BY <1>1, StoredAmount
<1>3. StoredLoan(row) \in LoanRow
  BY <1>2 DEF StoredLoan, LoanRow
<1>4. StoredLoan(row).outstanding = Stored(row.outstanding) /\ StoredLoan(row).status = row.status
  BY DEF StoredLoan, LoanRow
<1> QED
  BY <1>2, <1>3, <1>4

\* A request in flight is a write of a loan's row.
LEMMA LoanRequestKind ==
    ASSUME LoansTypeOK, NEW c \in Client
    PROVE  /\ loanReq[c].op \in {"update", "prepay"} => loanReq[c] \in LoanWrite
           /\ loanReq[c] # NoRequest => loanReq[c].op \in {"update", "prepay"}
<1>1. loanReq[c] \in {NoRequest} \union LoanWrite
  BY DEF LoansTypeOK
<1>2. CASE loanReq[c] = NoRequest
  BY <1>2 DEF NoRequest
<1>3. CASE loanReq[c] \in LoanWrite
  <2>1. loanReq[c].op \in {"update", "prepay"}
    BY <1>3 DEF LoanWrite
  <2> QED
    BY <1>3, <2>1
<1> QED
  BY <1>1, <1>2, <1>3

-----------------------------------------------------------------------------
(* Type correctness.                                                       *)

\* Every load of a row takes up a request whose rows are of their type.
LEMMA LoadLoanType ==
    ASSUME LoansTypeOK, NEW c \in Client, NEW l \in Loan, NEW op \in {"update", "prepay"},
           NEW computed \in LoanRow, LoadLoan(c, l, op, computed)
    PROVE  LoansTypeOK'
<1>1. loans[l] \in LoanRow
  BY DEF LoansTypeOK
<1>2. [op |-> op, loan |-> l, loaded |-> loans[l], computed |-> computed] \in LoanWrite
  BY <1>1 DEF LoanWrite
<1>3. loanReq' \in [Client -> {NoRequest} \union LoanWrite]
  BY <1>2 DEF LoansTypeOK, LoadLoan
<1> QED
  BY <1>3 DEF LoansTypeOK, LoadLoan

\* Every step of a request about loans keeps the type of the state.
LEMMA LoansTypeStep == LoansTypeOK /\ [LoansNext]_loanVars => LoansTypeOK'
<1> SUFFICES ASSUME LoansTypeOK, [LoansNext]_loanVars PROVE LoansTypeOK'
  OBVIOUS
<1>0. /\ loans \in [Loan -> LoanRow]
      /\ loanReq \in [Client -> {NoRequest} \union LoanWrite]
      /\ month \in 0 .. LastMonth
      /\ owed \in [Loan -> Int]
      /\ openedBelow \subseteq Loan
      /\ loansRaced \subseteq Loan
  BY DEF LoansTypeOK
<1>1. ASSUME NEW l \in Loan, NEW opening \in Opening, NEW rate \in Rate, NEW tenure \in Tenure,
             NEW start \in 0 .. LastMonth, CreateLoan(l, opening, rate, tenure, start)
      PROVE  LoansTypeOK'
  <2>1. opening \in Int /\ Stored(opening) \in Int
    BY OpeningAssumption, StoredAmount
  <2>5. [status |-> "live", outstanding |-> opening, rate |-> rate, tenure |-> tenure,
         start |-> start] \in LoanRow
    BY <2>1 DEF LoanRow
  <2>2. StoredLoan([status |-> "live", outstanding |-> opening, rate |-> rate, tenure |-> tenure,
                    start |-> start]) \in LoanRow
    BY <2>5, StoredLoanRow
  <2>3. loans' \in [Loan -> LoanRow] /\ owed' \in [Loan -> Int]
    BY <1>0, <1>1, <2>1, <2>2 DEF CreateLoan
  <2>4. openedBelow' \subseteq Loan
    BY <1>0, <1>1 DEF CreateLoan
  <2> QED
    BY <1>0, <1>1, <2>3, <2>4 DEF CreateLoan, LoansTypeOK
<1>2. ASSUME NEW c \in Client, NEW l \in Loan, NEW rate \in Rate, NEW tenure \in Tenure,
             NEW start \in 0 .. LastMonth, LoadLoanUpdate(c, l, rate, tenure, start)
      PROVE  LoansTypeOK'
  <2>1. [loans[l] EXCEPT !.rate = rate, !.tenure = tenure, !.start = start] \in LoanRow
    BY <1>0 DEF LoanRow
  <2> QED
    BY <1>2, <2>1, LoadLoanType DEF LoadLoanUpdate
<1>3. ASSUME NEW c \in Client, NEW l \in Loan, NEW balance \in Opening, LoadLoanBalance(c, l, balance)
      PROVE  LoansTypeOK'
  <2>1. [loans[l] EXCEPT !.outstanding = balance] \in LoanRow
    BY <1>0, OpeningAssumption DEF LoanRow
  <2> QED
    BY <1>3, <2>1, LoadLoanType DEF LoadLoanBalance
<1>4. ASSUME NEW c \in Client, NEW l \in Loan, NEW amount \in Prepayment, LoadPrepayment(c, l, amount)
      PROVE  LoansTypeOK'
  <2>1. loans[l] \in LoanRow /\ amount \in Nat /\ amount <= loans[l].outstanding
    BY <1>0, <1>4, PrepaymentAssumption DEF LoadPrepayment, MayPrepay
  <2>2. loans[l].outstanding - amount \in Nat
    BY <2>1 DEF LoanRow
  <2>3. 10 * WholePaise(loans[l].outstanding - amount) \in Nat
    BY <2>2, WholePaiseRounds
  <2>4. [loans[l] EXCEPT !.outstanding = 10 * WholePaise(@ - amount)] \in LoanRow
    BY <2>1, <2>3 DEF LoanRow
  <2> QED
    BY <1>4, <2>4, LoadLoanType DEF LoadPrepayment
<1>5. ASSUME NEW c \in Client, CommitLoan(c)
      PROVE  LoansTypeOK'
  <2>1. loanReq[c].loan \in Loan /\ loanReq[c].loaded \in LoanRow /\ loanReq[c].computed \in LoanRow
    BY <1>5, LoanRequestKind DEF CommitLoan, LoanWrite
  <2>2. Stored(loanReq[c].computed.outstanding) - loanReq[c].loaded.outstanding \in Int
    BY <2>1, StoredLoanRow DEF LoanRow
  <2>3. loans' \in [Loan -> LoanRow]
    BY <1>0, <1>5, <2>1, FlushLoan, StoredLoanRow DEF CommitLoan
  <2>4. owed' \in [Loan -> Int]
    BY <1>0, <1>5, <2>1, <2>2 DEF CommitLoan
  <2>5. loanReq' \in [Client -> {NoRequest} \union LoanWrite] /\ loansRaced' \subseteq Loan
    BY <1>0, <1>5, <2>1 DEF CommitLoan
  <2> QED
    BY <1>0, <1>5, <2>3, <2>4, <2>5 DEF CommitLoan, LoansTypeOK
<1>6. ASSUME NEW c \in Client, RollBackLoan(c)
      PROVE  LoansTypeOK'
  <2>1. loanReq' \in [Client -> {NoRequest} \union LoanWrite]
    BY <1>0, <1>6 DEF RollBackLoan
  <2> QED
    BY <1>0, <1>6, <2>1 DEF RollBackLoan, LoansTypeOK
<1>7. ASSUME NEW l \in Loan, DeleteLoan(l)
      PROVE  LoansTypeOK'
  <2>1. [loans[l] EXCEPT !.status = "deleted"] \in LoanRow
    BY <1>0 DEF LoanRow
  <2>2. loans' \in [Loan -> LoanRow]
    BY <1>0, <1>7, <2>1 DEF DeleteLoan
  <2> QED
    BY <1>0, <1>7, <2>2 DEF DeleteLoan, LoansTypeOK
<1>8. ASSUME PassMonth
      PROVE  LoansTypeOK'
  <2>1. month < LastMonth /\ month' = month + 1
    BY <1>8 DEF PassMonth
  <2>2. month' \in 0 .. LastMonth
    BY <1>0, <2>1, TenureAssumption
  <2> QED
    BY <1>0, <1>8, <2>2 DEF PassMonth, LoansTypeOK
<1>9. CASE UNCHANGED loanVars
  BY <1>0, <1>9 DEF loanVars, LoansTypeOK
<1> QED
  BY <1>1, <1>2, <1>3, <1>4, <1>5, <1>6, <1>7, <1>8, <1>9 DEF LoansNext

\* So are the first loans.
LEMMA LoansStart == LoansInit => LoansTypeOK
<1> SUFFICES ASSUME LoansInit PROVE LoansTypeOK
  OBVIOUS
<1>1. (CHOOSE rate \in Rate : TRUE) \in Rate /\ (CHOOSE tenure \in Tenure : TRUE) \in Tenure
  BY TermsAssumption
<1>2. 0 \in 0 .. LastMonth
  BY TenureAssumption
<1>3. [status |-> "absent", outstanding |-> 0, rate |-> CHOOSE rate \in Rate : TRUE,
       tenure |-> CHOOSE tenure \in Tenure : TRUE, start |-> 0] \in LoanRow
  BY <1>1, <1>2 DEF LoanRow
<1>4. loans \in [Loan -> LoanRow]
  BY <1>3 DEF LoansInit
<1>5. loanReq \in [Client -> {NoRequest} \union LoanWrite]
  BY DEF LoansInit
<1>6. month \in 0 .. LastMonth /\ owed \in [Loan -> Int]
  BY <1>2 DEF LoansInit
<1>7. openedBelow \subseteq Loan /\ loansRaced \subseteq Loan
  BY DEF LoansInit
<1> QED
  BY <1>4, <1>5, <1>6, <1>7 DEF LoansTypeOK

\* Every reachable state of loans and requests has its type.
THEOREM LoansTypeCorrect == LoansSpec => []LoansTypeOK
<1>1. LoansInit => LoansTypeOK
  BY LoansStart
<1> QED
  BY <1>1, LoansTypeStep, PTL DEF LoansSpec

-----------------------------------------------------------------------------
(* Balances.                                                               *)

\* The inductive invariant.  What the rows say is not inductive: a commit writes what its
\* request computed from a row that it loaded long ago.  A request in flight computed a
\* balance that a row may have, and for a loan that was not raced it loaded the balance
\* that the row still has.
LoanWriteIsFresh(r) ==
    /\ loans[r.loan].status # "absent"
    /\ r.computed.status = r.loaded.status
    /\ r.computed.outstanding >= 0 \/ r.loan \in openedBelow
    /\ r.loan \in loansRaced \/ r.loaded.outstanding = loans[r.loan].outstanding

LoanWritesAreFresh ==
    \A c \in Client : loanReq[c].op \in {"update", "prepay"} => LoanWriteIsFresh(loanReq[c])

LoansInv == LoansTypeOK /\ LoanBalanceKept /\ LoanWritesAreFresh

\* A new loan, which no request is about.
LEMMA CreateLoanKeeps ==
    ASSUME LoansInv, NEW l \in Loan, NEW opening \in Opening, NEW rate \in Rate, NEW tenure \in Tenure,
           NEW start \in 0 .. LastMonth, CreateLoan(l, opening, rate, tenure, start)
    PROVE  LoanBalanceKept' /\ LoanWritesAreFresh'
<1>0. /\ loans \in [Loan -> LoanRow] /\ owed \in [Loan -> Int] /\ opening \in Int
      /\ loans[l].status = "absent"
      /\ loanReq' = loanReq /\ loansRaced' = loansRaced
      /\ openedBelow \subseteq openedBelow' /\ (opening < 0 => l \in openedBelow')
  BY OpeningAssumption DEF LoansInv, LoansTypeOK, CreateLoan
<1>1. /\ loans'[l].outstanding = Stored(opening) /\ owed'[l] = Stored(opening)
      /\ Stored(opening) >= 0 \/ l \in openedBelow'
      /\ \A k \in Loan \ {l} : loans'[k] = loans[k] /\ owed'[k] = owed[k]
  <2>1. Stored(opening) \in Int /\ (opening >= 0 => Stored(opening) >= 0)
    BY <1>0, StoredAmount
  <2>2. StoredLoan([status |-> "live", outstanding |-> opening, rate |-> rate, tenure |-> tenure,
                    start |-> start]).outstanding = Stored(opening)
    BY DEF StoredLoan
  <2>3. loans'[l].outstanding = Stored(opening) /\ owed'[l] = Stored(opening)
    BY <1>0, <2>2 DEF CreateLoan
  <2>4. \A k \in Loan \ {l} : loans'[k] = loans[k] /\ owed'[k] = owed[k]
    BY <1>0 DEF CreateLoan
  <2> QED
    BY <1>0, <2>1, <2>3, <2>4
<1>2. ASSUME NEW c \in Client, loanReq[c].op \in {"update", "prepay"}
      PROVE  loanReq[c].loan \in Loan /\ loanReq[c].loan # l
  <2>1. loanReq[c].loan \in Loan
    BY <1>2, LoanRequestKind DEF LoansInv, LoanWrite
  <2> QED
    BY <1>0, <1>2, <2>1 DEF LoansInv, LoanWritesAreFresh, LoanWriteIsFresh
<1>3. LoanBalanceKept'
  <2> SUFFICES ASSUME NEW k \in Loan, loans'[k].status = "live"
               PROVE  /\ loans'[k].outstanding >= 0 \/ k \in openedBelow'
                      /\ loans'[k].outstanding = owed'[k] \/ k \in loansRaced'
    BY DEF LoanBalanceKept, LiveLoans
  <2>1. CASE k = l
    BY <1>0, <1>1, <2>1
  <2>2. CASE k # l
    BY <1>0, <1>1, <2>2 DEF LoansInv, LoanBalanceKept, LiveLoans
  <2> QED
    BY <2>1, <2>2
<1>4. LoanWritesAreFresh'
  BY <1>0, <1>1, <1>2 DEF LoansInv, LoanWritesAreFresh, LoanWriteIsFresh
<1> QED
  BY <1>3, <1>4

\* The steps that only take up, or drop, one request: the tables stay as they are.
LEMMA LoanRequestKeeps ==
    ASSUME LoansInv, NEW c \in Client, NEW r,
           loans' = loans, owed' = owed, openedBelow' = openedBelow, loansRaced' = loansRaced,
           loanReq' = [loanReq EXCEPT ![c] = r],
           r.op \in {"update", "prepay"} => LoanWriteIsFresh(r)
    PROVE  LoanBalanceKept' /\ LoanWritesAreFresh'
<1>1. loanReq'[c] = r /\ \A d \in Client \ {c} : loanReq'[d] = loanReq[d]
  BY DEF LoansInv, LoansTypeOK
<1>2. LoanBalanceKept'
  BY DEF LoansInv, LoanBalanceKept, LiveLoans
<1>3. ASSUME NEW d \in Client, loanReq'[d].op \in {"update", "prepay"}
      PROVE  LoanWriteIsFresh(loanReq'[d])
  BY <1>1, <1>3 DEF LoansInv, LoanWritesAreFresh
<1>4. LoanWritesAreFresh'
  BY <1>3 DEF LoanWritesAreFresh, LoanWriteIsFresh
<1> QED
  BY <1>2, <1>4

\* Every load of a live row, with a balance that a row may have.
LEMMA LoadLoanKeeps ==
    ASSUME LoansInv, NEW c \in Client, NEW l \in Loan, NEW op \in {"update", "prepay"},
           NEW computed \in LoanRow, LoadLoan(c, l, op, computed),
           computed.status = loans[l].status,
           computed.outstanding >= 0 \/ l \in openedBelow
    PROVE  LoanBalanceKept' /\ LoanWritesAreFresh'
<1> DEFINE r == [op |-> op, loan |-> l, loaded |-> loans[l], computed |-> computed]
<1>1. /\ loans' = loans /\ owed' = owed /\ openedBelow' = openedBelow /\ loansRaced' = loansRaced
      /\ loanReq' = [loanReq EXCEPT ![c] = r]
      /\ loans[l].status = "live"
  BY DEF LoadLoan, LiveLoans
<1>2. LoanWriteIsFresh(r)
  BY <1>1 DEF LoanWriteIsFresh
<1> HIDE DEF r
<1> QED
  BY <1>1, <1>2, LoanRequestKeeps

\* A commit: the row's balance is what the request computed, or stays, and every other
\* request about the loan has made it a raced one.
LEMMA CommitLoanKeeps ==
    ASSUME LoansInv, NEW c \in Client, CommitLoan(c)
    PROVE  LoanBalanceKept' /\ LoanWritesAreFresh'
<1> DEFINE r == loanReq[c]
           k == loanReq[c].loan
<1>0. /\ loans \in [Loan -> LoanRow] /\ owed \in [Loan -> Int] /\ r.op \in {"update", "prepay"}
      /\ k \in Loan /\ r.loaded \in LoanRow /\ r.computed \in LoanRow
      /\ LoanWriteIsFresh(r)
  BY LoanRequestKind DEF LoansInv, LoansTypeOK, CommitLoan, LoanWrite, LoanWritesAreFresh
<1>1. /\ loans'[k] = StoredLoan(Flush(loans[k], r.loaded, r.computed))
      /\ \A l \in Loan \ {k} : loans'[l] = loans[l] /\ owed'[l] = owed[l]
      /\ owed'[k] = IF k \in loansRaced' THEN 0
                      ELSE owed[k] + (Stored(r.computed.outstanding) - r.loaded.outstanding)
      /\ loanReq'[c] = NoRequest /\ \A d \in Client \ {c} : loanReq'[d] = loanReq[d]
      /\ loansRaced' = IF LoanContended(c, k) THEN loansRaced \union {k} ELSE loansRaced
      /\ openedBelow' = openedBelow
  BY <1>0 DEF LoansInv, LoansTypeOK, CommitLoan
<1>2. /\ loans'[k].outstanding = IF r.computed.outstanding = r.loaded.outstanding
                                    THEN Stored(loans[k].outstanding)
                                    ELSE Stored(r.computed.outstanding)
      /\ loans'[k].status = loans[k].status
  <2>1. PICK row \in LoanRow : row = Flush(loans[k], r.loaded, r.computed)
    BY <1>0, FlushLoan
  <2>2. /\ row.outstanding = IF r.computed.outstanding = r.loaded.outstanding
                                THEN loans[k].outstanding
                                ELSE r.computed.outstanding
        /\ row.status = loans[k].status
    <3>1. loans[k] \in LoanRow /\ r.computed.status = r.loaded.status
      BY <1>0 DEF LoanWriteIsFresh
    <3> HIDE DEF r, k
    <3> QED
      BY <1>0, <2>1, <3>1, FlushLoanColumns
  <2>3. loans'[k] = StoredLoan(row)
    BY <1>1, <2>1
  <2>4. loans'[k].outstanding = Stored(row.outstanding) /\ loans'[k].status = row.status
    BY <2>3, StoredLoanRow
  <2> QED
    BY <2>2, <2>4
<1>3. ASSUME NEW d \in Client, d # c, loanReq[d].op \in {"update", "prepay"}, loanReq[d].loan = k
      PROVE  k \in loansRaced'
  <2>1. loanReq[d] # NoRequest
    BY <1>3 DEF NoRequest
  <2> QED
    BY <1>1, <1>3, <2>1 DEF LoanContended
<1>4. NoRequest.op \notin {"update", "prepay"}
  BY DEF NoRequest
<1>5. loansRaced \subseteq loansRaced'
  BY <1>1
<1>6. LoanBalanceKept'
  <2> SUFFICES ASSUME NEW l \in Loan, loans'[l].status = "live"
               PROVE  /\ loans'[l].outstanding >= 0 \/ l \in openedBelow'
                      /\ loans'[l].outstanding = owed'[l] \/ l \in loansRaced'
    BY DEF LoanBalanceKept, LiveLoans
  <2>1. CASE l = k
    <3>1. /\ loans[k].outstanding >= 0 \/ k \in openedBelow
          /\ loans[k].outstanding = owed[k] \/ k \in loansRaced
      BY <1>0, <1>2, <2>1 DEF LoansInv, LoanBalanceKept, LiveLoans
    <3>2. loans'[k].outstanding >= 0 \/ k \in openedBelow'
      BY <1>0, <1>1, <1>2, <3>1, StoredLoanRow DEF LoanWriteIsFresh
    <3>3. CASE k \notin loansRaced'
      <4>1. Stored(r.computed.outstanding) \in Int /\ r.loaded.outstanding \in Int
        BY <1>0, StoredLoanRow DEF LoanRow
      <4>2. r.loaded.outstanding = loans[k].outstanding /\ loans[k].outstanding = owed[k]
        BY <1>0, <1>5, <3>1, <3>3 DEF LoanWriteIsFresh
      <4>3. loans'[k].outstanding = Stored(r.computed.outstanding)
        BY <1>2, <4>2
      <4>4. owed'[k] = r.loaded.outstanding + (Stored(r.computed.outstanding) - r.loaded.outstanding)
        BY <1>1, <3>3, <4>2
      <4> QED
        BY <2>1, <3>2, <4>1, <4>3, <4>4, Difference
    <3> QED
      BY <2>1, <3>2, <3>3
  <2>2. CASE l # k
    BY <1>1, <1>5, <2>2 DEF LoansInv, LoanBalanceKept, LiveLoans
  <2> QED
    BY <2>1, <2>2
<1>7. LoanWritesAreFresh'
  <2> SUFFICES ASSUME NEW d \in Client, loanReq'[d].op \in {"update", "prepay"}
               PROVE  /\ loans'[loanReq'[d].loan].status # "absent"
                      /\ loanReq'[d].computed.status = loanReq'[d].loaded.status
                      /\ loanReq'[d].computed.outstanding >= 0 \/ loanReq'[d].loan \in openedBelow'
                      /\ loanReq'[d].loan \in loansRaced' \/
                           loanReq'[d].loaded.outstanding = loans'[loanReq'[d].loan].outstanding
    BY DEF LoanWritesAreFresh, LoanWriteIsFresh
  <2>1. d # c /\ loanReq'[d] = loanReq[d]
    BY <1>1, <1>4
  <2>2. LoanWriteIsFresh(loanReq[d]) /\ loanReq[d].loan \in Loan
    BY <2>1, LoanRequestKind DEF LoansInv, LoanWritesAreFresh, LoanWrite
  <2>3. CASE loanReq[d].loan = k
    BY <1>1, <1>2, <1>3, <2>1, <2>2, <2>3 DEF LoanWriteIsFresh
  <2>4. CASE loanReq[d].loan # k
    BY <1>1, <1>5, <2>1, <2>2, <2>4 DEF LoanWriteIsFresh
  <2> QED
    BY <2>3, <2>4
<1> QED
  BY <1>6, <1>7

\* Deleting a loan takes it out of what the balances are about.
LEMMA DeleteLoanKeeps ==
    ASSUME LoansInv, NEW l \in Loan, DeleteLoan(l)
    PROVE  LoanBalanceKept' /\ LoanWritesAreFresh'
<1>0. /\ loans \in [Loan -> LoanRow]
      /\ loanReq' = loanReq /\ owed' = owed /\ openedBelow' = openedBelow /\ loansRaced' = loansRaced
  BY DEF LoansInv, LoansTypeOK, DeleteLoan
<1>1. \A k \in Loan : /\ loans'[k].outstanding = loans[k].outstanding
                      /\ loans'[k].status = IF k = l THEN "deleted" ELSE loans[k].status
  BY <1>0 DEF DeleteLoan, LoanRow
<1>2. ASSUME NEW c \in Client, loanReq[c].op \in {"update", "prepay"}
      PROVE  loanReq[c].loan \in Loan
  BY <1>2, LoanRequestKind DEF LoansInv, LoanWrite
<1>3. LoanBalanceKept'
  BY <1>0, <1>1 DEF LoansInv, LoanBalanceKept, LiveLoans
<1>4. LoanWritesAreFresh'
  BY <1>0, <1>1, <1>2 DEF LoansInv, LoanWritesAreFresh, LoanWriteIsFresh
<1> QED
  BY <1>3, <1>4

\* The invariant is inductive: one step per action.
LEMMA LoansInvStep == LoansInv /\ LoansTypeOK' /\ [LoansNext]_loanVars => LoansInv'
<1> SUFFICES ASSUME LoansInv, LoansTypeOK', [LoansNext]_loanVars
             PROVE  LoanBalanceKept' /\ LoanWritesAreFresh'
  BY DEF LoansInv
<1>0. loans \in [Loan -> LoanRow]
  BY DEF LoansInv, LoansTypeOK
<1>1. ASSUME NEW l \in Loan, NEW opening \in Opening, NEW rate \in Rate, NEW tenure \in Tenure,
             NEW start \in 0 .. LastMonth, CreateLoan(l, opening, rate, tenure, start)
      PROVE  LoanBalanceKept' /\ LoanWritesAreFresh'
  BY <1>1, CreateLoanKeeps
<1>2. ASSUME NEW c \in Client, NEW l \in Loan, NEW rate \in Rate, NEW tenure \in Tenure,
             NEW start \in 0 .. LastMonth, LoadLoanUpdate(c, l, rate, tenure, start)
      PROVE  LoanBalanceKept' /\ LoanWritesAreFresh'
  <2> DEFINE computed == [loans[l] EXCEPT !.rate = rate, !.tenure = tenure, !.start = start]
  <2>1. /\ computed \in LoanRow /\ computed.status = loans[l].status
        /\ computed.outstanding = loans[l].outstanding
    BY <1>0 DEF LoanRow
  <2>2. LoadLoan(c, l, "update", computed)
    BY <1>2 DEF LoadLoanUpdate
  <2> HIDE DEF computed
  <2>3. computed.outstanding >= 0 \/ l \in openedBelow
    BY <2>1, <2>2 DEF LoadLoan, LoansInv, LoanBalanceKept
  <2> QED
    BY <2>1, <2>2, <2>3, LoadLoanKeeps
<1>3. ASSUME NEW c \in Client, NEW l \in Loan, NEW balance \in Opening, LoadLoanBalance(c, l, balance)
      PROVE  LoanBalanceKept' /\ LoanWritesAreFresh'
  <2> DEFINE computed == [loans[l] EXCEPT !.outstanding = balance]
  <2>1. /\ computed \in LoanRow /\ computed.status = loans[l].status
        /\ computed.outstanding = balance
    BY <1>0, OpeningAssumption DEF LoanRow
  <2>2. LoadLoan(c, l, "update", computed) /\ balance >= 0
    BY <1>3 DEF LoadLoanBalance
  <2> HIDE DEF computed
  <2> QED
    BY <2>1, <2>2, LoadLoanKeeps
<1>4. ASSUME NEW c \in Client, NEW l \in Loan, NEW amount \in Prepayment, LoadPrepayment(c, l, amount)
      PROVE  LoanBalanceKept' /\ LoanWritesAreFresh'
  <2> DEFINE computed == [loans[l] EXCEPT !.outstanding = 10 * WholePaise(@ - amount)]
  <2>0. loans[l] \in LoanRow /\ amount \in Nat
    BY <1>0, PrepaymentAssumption
  <2>2. LoadLoan(c, l, "prepay", computed) /\ amount <= loans[l].outstanding
    BY <1>4 DEF LoadPrepayment, MayPrepay
  <2>3. loans[l].outstanding - amount \in Nat
    BY <2>0, <2>2 DEF LoanRow
  <2>5. 10 * WholePaise(loans[l].outstanding - amount) \in Nat
    BY <2>3, WholePaiseRounds
  <2>1. /\ computed \in LoanRow /\ computed.status = loans[l].status
        /\ computed.outstanding = 10 * WholePaise(loans[l].outstanding - amount)
    BY <2>0, <2>5 DEF LoanRow
  <2> HIDE DEF computed
  <2>4. computed.outstanding >= 0
    BY <2>1, <2>5
  <2> QED
    BY <2>1, <2>2, <2>4, LoadLoanKeeps
<1>5. ASSUME NEW c \in Client, CommitLoan(c)
      PROVE  LoanBalanceKept' /\ LoanWritesAreFresh'
  BY <1>5, CommitLoanKeeps
<1>6. ASSUME NEW c \in Client, RollBackLoan(c)
      PROVE  LoanBalanceKept' /\ LoanWritesAreFresh'
  <2>1. NoRequest.op = "none"
    BY DEF NoRequest
  <2>2. /\ loans' = loans /\ owed' = owed /\ openedBelow' = openedBelow /\ loansRaced' = loansRaced
        /\ loanReq' = [loanReq EXCEPT ![c] = NoRequest]
    BY <1>6 DEF RollBackLoan
  <2> QED
    BY <2>1, <2>2, LoanRequestKeeps
<1>7. ASSUME NEW l \in Loan, DeleteLoan(l)
      PROVE  LoanBalanceKept' /\ LoanWritesAreFresh'
  BY <1>7, DeleteLoanKeeps
<1>8. CASE PassMonth \/ UNCHANGED loanVars
  <2>1. /\ loans' = loans /\ loanReq' = loanReq /\ owed' = owed
        /\ openedBelow' = openedBelow /\ loansRaced' = loansRaced
    BY <1>8 DEF PassMonth, loanVars
  <2> QED
    BY <2>1 DEF LoansInv, LoanBalanceKept, LiveLoans, LoanWritesAreFresh, LoanWriteIsFresh
<1> QED
  BY <1>1, <1>2, <1>3, <1>4, <1>5, <1>6, <1>7, <1>8 DEF LoansNext

\* No request takes a balance below zero, whatever the order of loads and commits, and
\* none loses what another one's response said was left: but for loans that were entered
\* below zero, and those that two requests wrote at once.
THEOREM BalancesAreKept == LoansSpec => []LoanBalanceKept
<1>1. LoansInit /\ LoansTypeOK => LoansInv
  BY DEF LoansInit, LoansInv, LoanBalanceKept, LiveLoans, LoanWritesAreFresh, NoRequest
<1>2. LoansInv => LoanBalanceKept
  BY DEF LoansInv
<1>3. []LoansTypeOK /\ [][LoansNext]_loanVars /\ LoansInv => []LoansInv
  BY LoansInvStep, PTL
<1> QED
  BY <1>1, <1>2, <1>3, LoansTypeCorrect, PTL DEF LoansSpec

-----------------------------------------------------------------------------
(* Schedules.                                                              *)

\* The schedule of any row repays it.
LEMMA ScheduleOfRow ==
    ASSUME LoansTypeOK, NEW l \in Loan
    PROVE  LET rows   == ScheduleOf(loans[l])
               repaid == SumFunction([row \in rows |-> row.principal])
               months == RemainingMonths(loans[l])
           IN  /\ \A row \in rows : row.balance >= 0 /\ row.principal >= 0
               /\ rows # {} => /\ Paise(loans[l]) - repaid >= 0
                               /\ PaisaAMonth(Paise(loans[l]) - repaid, loans[l].rate, months)
               /\ \A row, next \in rows :
                    next.month = row.month + 1 =>
                       next.balance = row.balance - next.principal /\ next.interest <= row.interest
<1> DEFINE P == Paise(loans[l])
           rate == loans[l].rate
           n == RemainingMonths(loans[l])
           rows == Schedule(P, rate, n)
           repaid == SumFunction([row \in rows |-> row.principal])
<1>1. P \in Int /\ rate \in RateRecord
  BY RateAssumption DEF LoansTypeOK, LoanRow, RateRecord, Paise
<1>2. n \in Int
  <2>1. /\ loans[l].tenure \in Nat /\ loans[l].start \in 0 .. LastMonth /\ month \in 0 .. LastMonth
        /\ LastMonth \in Nat
    BY TenureAssumption DEF LoansTypeOK, LoanRow
  <2>2. month - loans[l].start \in Int
    BY <2>1
  <2> QED
    BY <2>1, <2>2 DEF RemainingMonths, PaidMonths
<1>3. ScheduleOf(loans[l]) = rows
  BY DEF ScheduleOf
<1> HIDE DEF P, rate, n
<1>4. CASE n <= 0 \/ P <= 0
  <2>1. rows = {}
    BY <1>4 DEF Schedule
  <2> QED
    BY <1>3, <2>1 DEF P, rate, n
<1>5. CASE n > 0 /\ P > 0
  <2>1. n \in Nat \ {0} /\ P \in Nat \ {0} /\ P \in Nat
    BY <1>1, <1>2, <1>5
  <2>2. \A row \in rows : row.balance >= 0 /\ row.principal >= 0
    <3> SUFFICES ASSUME NEW row \in rows PROVE row.balance >= 0 /\ row.principal >= 0
      OBVIOUS
    <3>1. PICK k \in Repays(P, rate, n) : row = RowOf(P, rate, n, k)
      BY <1>1, <2>1, ScheduleRows
    <3>2. k \in 1 .. n /\ BalanceAfter(P, rate, n)[k - 1] > 0
      BY DEF Repays
    <3>3. row.balance \in Nat /\ row.principal \in Nat
      BY <1>1, <2>1, <3>1, <3>2, RowFacts
    <3> QED
      BY <3>3
  <2>3. repaid = P - BalanceAfter(P, rate, n)[n]
    BY <1>1, <2>1, ScheduleAddsUp
  <2>4. PICK left : left = BalanceAfter(P, rate, n)[n]
    OBVIOUS
  <2>5. left \in Nat /\ PaisaAMonth(left, rate, n)
    BY <1>1, <2>1, <2>4, LeftAtTheEnd DEF PaisaAMonth
  <2>6. P - repaid = left
    BY <2>1, <2>3, <2>4, <2>5
  <2>7. P - repaid >= 0 /\ PaisaAMonth(P - repaid, rate, n)
    BY <2>5, <2>6
  <2>8. \A row, next \in rows :
          next.month = row.month + 1 =>
             next.balance = row.balance - next.principal /\ next.interest <= row.interest
    BY <1>1, <2>1, ScheduleSteps
  <2> HIDE DEF repaid
  <2>9. repaid = SumFunction([row \in rows |-> row.principal])
    BY DEF repaid
  <2> HIDE DEF rows
  <2>10. /\ \A row \in rows : row.balance >= 0 /\ row.principal >= 0
         /\ rows # {} => /\ P - SumFunction([row \in rows |-> row.principal]) >= 0
                         /\ PaisaAMonth(P - SumFunction([row \in rows |-> row.principal]), rate, n)
         /\ \A row, next \in rows :
              next.month = row.month + 1 =>
                 next.balance = row.balance - next.principal /\ next.interest <= row.interest
    BY <2>2, <2>7, <2>8, <2>9
  <2>11. rows = ScheduleOf(loans[l]) /\ P = Paise(loans[l]) /\ rate = loans[l].rate
         /\ n = RemainingMonths(loans[l])
    BY <1>3 DEF P, rate, n, rows
  <2> QED
    BY <2>10, <2>11
<1> QED
  BY <1>1, <1>2, <1>4, <1>5

\* The schedule of every loan, at any rate, for any number of months, repays it: nothing
\* is repaid twice or left out, and only rounding is left.
THEOREM SchedulesRepay == LoansSpec => []ScheduleRepays
<1>1. LoansTypeOK => ScheduleRepays
  BY ScheduleOfRow DEF ScheduleRepays, LiveLoans
<1> QED
  BY <1>1, LoansTypeCorrect, PTL

-----------------------------------------------------------------------------
(* Net worth: what the sources come to.                                    *)

\* What the tables hold, by the assumption that they are finite.
LEMMA FiniteTables ==
    /\ IsFiniteSet(Client) /\ IsFiniteSet(LedgerEntry) /\ IsFiniteSet(Goal) /\ IsFiniteSet(Loan)
    /\ IsFiniteSet(Holding)
BY TablesAreFinite

\* The books of a ledger that no requests raced in.
BooksAreMirrored ==
    /\ LedgerTypeOK
    /\ LedgerInv
    /\ ledgerRaced = {}

\* An entry has one cash transaction at most, whose effect is a number.
LEMMA EffectIsNumber ==
    ASSUME BooksAreMirrored, NEW e \in LedgerEntry
    PROVE  /\ CashEffect(e) \in Int
           /\ e \notin cashTouched =>
                CashEffect(e) = -(IF e \in LiveEntries THEN Receivable(entries[e]) ELSE 0)
<1> DEFINE effect == [t \in CashOf(e, cash) |-> IF t.type = "income" THEN t.amount ELSE -t.amount]
<1>1. CashEffect(e) = SumFunctionOnSet(effect, CashOf(e, cash))
  BY DEF CashEffect, SumFunction
<1>2. Mirrored(e)
  BY DEF BooksAreMirrored, LedgerInv
<1>3. IsFiniteSet(CashOf(e, cash))
  <2>1. CashOf(e, cash) = {} \/ \E t : CashOf(e, cash) = {t}
    BY <1>2 DEF Mirrored
  <2> QED
    BY <2>1, FS_EmptySet, FS_Singleton
<1>4. \A t \in CashOf(e, cash) : effect[t] \in Int
  <2>1. \A t \in CashOf(e, cash) : t.amount \in Int
    BY DEF BooksAreMirrored, LedgerTypeOK, CashOf, CashRow
  <2> QED
    BY <2>1
<1>5. CashEffect(e) \in Int
  <2> HIDE DEF effect
  <2> QED
    BY <1>1, <1>3, <1>4, SumType
<1> QED
  BY <1>2, <1>5, MirroredEffect DEF BooksAreMirrored

\* What an entry says the person owes.
Says(e) == IF e \in LiveEntries THEN Receivable(entries[e]) ELSE 0

\* What a person owes for an entry is a number, of either sign.
LEMMA ReceivableIsNumber ==
    ASSUME LedgerTypeOK, NEW e \in LedgerEntry
    PROVE  Receivable(entries[e]) \in Int /\ Says(e) \in Int
<1>1. entries[e].amount \in Int
  BY DEF LedgerTypeOK, LedgerRow
<1>2. Receivable(entries[e]) \in Int
  BY <1>1 DEF Receivable
<1> QED
  BY <1>2 DEF Says

\* Cash and people together come to the cash of other transactions, and to what someone
\* did by hand to the cash of entries: lending and borrowing make no money.
LEMMA CashAndPeople ==
    ASSUME BooksAreMirrored
    PROVE  LET cashed == [e \in LedgerEntry |-> CashEffect(e)]
               owes == [e \in LiveEntries |-> Receivable(entries[e])]
               touched == [e \in cashTouched |->
                             CashEffect(e) + (IF e \in LiveEntries THEN Receivable(entries[e]) ELSE 0)]
           IN  /\ SumFunction(cashed) \in Int /\ SumFunction(owes) \in Int
               /\ SumFunction(cashed) + SumFunction(owes) = SumFunction(touched)
<1> DEFINE cashed == [e \in LedgerEntry |-> CashEffect(e)]
           owes == [e \in LiveEntries |-> Receivable(entries[e])]
           touched == [e \in cashTouched |->
                         CashEffect(e) + (IF e \in LiveEntries THEN Receivable(entries[e]) ELSE 0)]
           says == [e \in LedgerEntry |-> Says(e)]
           both == [e \in LedgerEntry |-> CashEffect(e) + Says(e)]
<1>1. /\ SumFunction(cashed) = SumFunctionOnSet(cashed, LedgerEntry)
      /\ SumFunction(owes) = SumFunctionOnSet(owes, LiveEntries)
      /\ SumFunction(touched) = SumFunctionOnSet(touched, cashTouched)
  BY DEF SumFunction
<1>2. LiveEntries \in SUBSET LedgerEntry /\ cashTouched \in SUBSET LedgerEntry
  BY DEF BooksAreMirrored, LedgerTypeOK, LiveEntries
<1>3. \A e \in LedgerEntry : /\ cashed[e] \in Int /\ says[e] \in Int /\ both[e] = cashed[e] + says[e]
                             /\ both[e] \in Int
  BY EffectIsNumber, ReceivableIsNumber DEF BooksAreMirrored
<1>4. /\ \A e \in LiveEntries : says[e] = owes[e] /\ owes[e] \in Int
      /\ \A e \in LedgerEntry \ LiveEntries : says[e] = 0
  BY <1>2, <1>3 DEF Says
<1>5. \A e \in cashTouched : both[e] = touched[e] /\ touched[e] \in Int
  BY <1>2, <1>3 DEF Says
<1>6. \A e \in LedgerEntry \ cashTouched : both[e] = 0
  <2> SUFFICES ASSUME NEW e \in LedgerEntry \ cashTouched PROVE both[e] = 0
    OBVIOUS
  <2>1. CashEffect(e) = -Says(e)
    BY EffectIsNumber DEF Says
  <2>2. CashEffect(e) \in Int /\ Says(e) \in Int
    BY EffectIsNumber, ReceivableIsNumber DEF BooksAreMirrored
  <2>3. CashEffect(e) + Says(e) = 0
    BY <2>1, <2>2
  <2> QED
    BY <2>3
<1> HIDE DEF cashed, owes, touched, says, both
<1>7. SumFunctionOnSet(says, LedgerEntry) = SumFunctionOnSet(owes, LiveEntries)
  BY <1>2, <1>4, FiniteTables, SumExtends
<1>8. SumFunctionOnSet(both, LedgerEntry) = SumFunctionOnSet(touched, cashTouched)
  BY <1>2, <1>5, <1>6, FiniteTables, SumExtends
<1>9. SumFunctionOnSet(both, LedgerEntry) = SumFunctionOnSet(cashed, LedgerEntry) + SumFunctionOnSet(says, LedgerEntry)
  BY <1>3, FiniteTables, SumPlus
<1>10. SumFunctionOnSet(cashed, LedgerEntry) \in Int /\ SumFunctionOnSet(says, LedgerEntry) \in Int
  BY <1>3, FiniteTables, SumType
<1>11. /\ SumFunction(cashed) \in Int /\ SumFunction(owes) \in Int
       /\ SumFunction(cashed) + SumFunction(owes) = SumFunction(touched)
  BY <1>1, <1>7, <1>8, <1>9, <1>10
<1> QED
  BY <1>11 DEF cashed, owes, touched

\* Investments and assets are the two kinds of holdings.
LEMMA HoldingsAddUp ==
    ASSUME holdings \in [Holding -> HoldingRow]
    PROVE  /\ SumOfHoldings("investments") \in Int /\ SumOfHoldings("assets") \in Int
           /\ SumOfHoldings("investments") + SumOfHoldings("assets")
                = SumFunction([h \in LiveHoldings |-> holdings[h].value])
<1>1. \A h \in Holding : holdings[h].value \in Int /\ holdings[h].kind \in {"investments", "assets"}
  <2> SUFFICES ASSUME NEW h \in Holding
               PROVE  holdings[h].value \in Int /\ holdings[h].kind \in {"investments", "assets"}
    OBVIOUS
  <2>1. holdings[h] \in HoldingRow
    OBVIOUS
  <2>2. holdings[h].value \in Worth /\ holdings[h].kind \in {"investments", "assets"}
    BY <2>1 DEF HoldingRow
  <2>3. \A v \in Worth : v \in Int
    BY WorthAssumption
  <2> QED
    BY <2>2, <2>3, Zenon
<1> DEFINE Of(kind) == {g \in LiveHoldings : holdings[g].kind = kind}
           Values(kind) == [h \in Of(kind) |-> holdings[h].value]
           Column(kind) == [h \in Holding |-> IF h \in Of(kind) THEN holdings[h].value ELSE 0]
           live == [h \in LiveHoldings |-> holdings[h].value]
           all == [h \in Holding |-> IF h \in LiveHoldings THEN holdings[h].value ELSE 0]
<1>2. ASSUME NEW kind
      PROVE  /\ SumOfHoldings(kind) = SumFunctionOnSet(Column(kind), Holding)
             /\ SumOfHoldings(kind) \in Int
  <2> PICK of : of = Of(kind)
    OBVIOUS
  <2> PICK values : values = Values(kind)
    OBVIOUS
  <2> PICK column : column = Column(kind)
    OBVIOUS
  <2>1. SumOfHoldings(kind) = SumFunctionOnSet(values, of)
    BY DEF SumOfHoldings, SumFunction
  <2>2. of \in SUBSET Holding
    BY DEF LiveHoldings
  <2>3. /\ \A h \in of : column[h] = values[h] /\ values[h] \in Int
        /\ \A h \in Holding \ of : column[h] = 0
        /\ \A h \in Holding : column[h] \in Int
    BY <1>1, <2>2
  <2>4. SumFunctionOnSet(column, Holding) = SumFunctionOnSet(values, of)
    BY <2>2, <2>3, FiniteTables, SumExtends
  <2>5. SumFunctionOnSet(column, Holding) \in Int
    BY <2>3, FiniteTables, SumType
  <2> QED
    BY <2>1, <2>4, <2>5
<1>3. SumFunction(live) = SumFunctionOnSet(all, Holding)
  <2>1. SumFunction(live) = SumFunctionOnSet(live, LiveHoldings)
    BY DEF SumFunction
  <2>2. LiveHoldings \in SUBSET Holding
    BY DEF LiveHoldings
  <2>3. /\ \A h \in LiveHoldings : all[h] = live[h] /\ live[h] \in Int
        /\ \A h \in Holding \ LiveHoldings : all[h] = 0
    BY <1>1, <2>2
  <2> HIDE DEF all, live
  <2> QED
    BY <2>1, <2>2, <2>3, FiniteTables, SumExtends
<1> PICK x : x = Column("investments")
  OBVIOUS
<1> PICK y : y = Column("assets")
  OBVIOUS
<1>4. \A h \in Holding : x[h] \in Int /\ y[h] \in Int /\ all[h] = x[h] + y[h]
  BY <1>1 DEF LiveHoldings
<1>5. SumFunctionOnSet(all, Holding) = SumFunctionOnSet(x, Holding) + SumFunctionOnSet(y, Holding)
  <2> HIDE DEF all
  <2> QED
    BY <1>4, FiniteTables, SumPlus
<1> QED
  BY <1>2, <1>3, <1>5

\* Sums of columns.
LEMMA ColumnsAreNumbers ==
    ASSUME GoalsTypeOK, LoansTypeOK
    PROVE  /\ SumFunction([g \in LiveGoals |-> goals[g].saved]) \in Int
           /\ SumFunction([l \in LiveLoans |-> loans[l].outstanding]) \in Int
<1> DEFINE saved == [g \in LiveGoals |-> goals[g].saved]
           left == [l \in LiveLoans |-> loans[l].outstanding]
<1>1. SumFunction(saved) = SumFunctionOnSet(saved, LiveGoals) /\ SumFunction(left) = SumFunctionOnSet(left, LiveLoans)
  BY DEF SumFunction
<1>2. IsFiniteSet(LiveGoals) /\ IsFiniteSet(LiveLoans)
  BY FiniteTables, FS_Subset DEF LiveGoals, LiveLoans
<1>3. (\A g \in LiveGoals : saved[g] \in Int) /\ (\A l \in LiveLoans : left[l] \in Int)
  BY DEF GoalsTypeOK, LoansTypeOK, GoalRow, LoanRow, LiveGoals, LiveLoans
<1>4. SumFunctionOnSet(saved, LiveGoals) \in Int /\ SumFunctionOnSet(left, LiveLoans) \in Int
  <2> HIDE DEF saved, left
  <2> QED
    BY <1>2, <1>3, SumType
<1> QED
  BY <1>1, <1>4

-----------------------------------------------------------------------------
(* What a reader has read and what it has not, as functions of the place   *)
(* of a source in the order of the queries.                                *)

Signed(source) == IF IsLiability(source) THEN -Found(source) ELSE Found(source)

Parts == [i \in 1 .. 7 |-> Signed(Source[i])]

\* What the places after `n` come to.
Unread(x, n, i) == IF i > n THEN x[i] ELSE 0
Rest(x, n) ==
    Unread(x, n, 1) + Unread(x, n, 2) + Unread(x, n, 3) + Unread(x, n, 4)
      + Unread(x, n, 5) + Unread(x, n, 6) + Unread(x, n, 7)

\* The seven queries in their order.
LEMMA Sources ==
    /\ Source[1] = "investments" /\ Source[2] = "assets" /\ Source[3] = "goals" /\ Source[4] = "loans"
    /\ Source[5] = "cards" /\ Source[6] = "cash" /\ Source[7] = "people"
    /\ Len(Source) = 7 /\ DOMAIN Source = 1 .. 7
BY DEF Source

\* One query further, one place less is left.
LEMMA RestOfOne ==
    ASSUME NEW x \in [1 .. 7 -> Int], NEW n \in 0 .. 6
    PROVE  /\ Rest(x, n) \in Int /\ Rest(x, n + 1) \in Int
           /\ Rest(x, n) = x[n + 1] + Rest(x, n + 1)
<1>0. \A i \in 1 .. 7 : x[i] \in Int
  OBVIOUS
<1>1. n = 0 \/ n = 1 \/ n = 2 \/ n = 3 \/ n = 4 \/ n = 5 \/ n = 6
  OBVIOUS
<1> QED
  BY <1>0, <1>1 DEF Rest, Unread

\* In the end nothing is left.
LEMMA RestOfAll == ASSUME NEW x PROVE Rest(x, 7) = 0
BY DEF Rest, Unread

\* If one place changes, what is left either stays or changes by as much as the whole.
LEMMA RestChanges ==
    ASSUME NEW x \in [1 .. 7 -> Int], NEW y \in [1 .. 7 -> Int], NEW i \in 1 .. 7,
           \A j \in 1 .. 7 : j # i => y[j] = x[j], NEW n \in 0 .. 7
    PROVE  /\ Rest(y, 0) = Rest(x, 0) + (y[i] - x[i])
           /\ Rest(y, n) = Rest(x, n) \/ Rest(y, n) = Rest(x, n) + (y[i] - x[i])
<1> PICK d : d = y[i] - x[i]
  OBVIOUS
<1>0. \A j \in 1 .. 7 : x[j] \in Int /\ y[j] \in Int
  OBVIOUS
<1>1. d \in Int /\ y[i] = x[i] + d
  BY <1>0
<1>2. \A m \in 0 .. 7 : /\ m < i => Rest(y, m) = Rest(x, m) + d
                        /\ ~(m < i) => Rest(y, m) = Rest(x, m)
  <2> SUFFICES ASSUME NEW m \in 0 .. 7
               PROVE  /\ m < i => Rest(y, m) = Rest(x, m) + d
                      /\ ~(m < i) => Rest(y, m) = Rest(x, m)
    OBVIOUS
  <2>1. \A j \in 1 .. 7 : /\ Unread(x, m, j) \in Int
                          /\ Unread(y, m, j) = Unread(x, m, j) + (IF j = i /\ m < i THEN d ELSE 0)
    BY <1>0, <1>1 DEF Unread
  <2>2. PICK u : u = [j \in 1 .. 7 |-> Unread(x, m, j)]
    OBVIOUS
  <2>3. PICK v : v = [j \in 1 .. 7 |-> Unread(y, m, j)]
    OBVIOUS
  <2>4. /\ Rest(x, m) = u[1] + u[2] + u[3] + u[4] + u[5] + u[6] + u[7]
        /\ Rest(y, m) = v[1] + v[2] + v[3] + v[4] + v[5] + v[6] + v[7]
    BY <2>2, <2>3 DEF Rest
  <2>5. \A j \in 1 .. 7 : u[j] \in Int /\ v[j] = u[j] + (IF j = i /\ m < i THEN d ELSE 0)
    BY <2>1, <2>2, <2>3
  <2>6. i = 1 \/ i = 2 \/ i = 3 \/ i = 4 \/ i = 5 \/ i = 6 \/ i = 7
    OBVIOUS
  <2> QED
    BY <1>1, <2>4, <2>5, <2>6
<1>3. Rest(y, 0) = Rest(x, 0) + d
  <2>1. 0 \in 0 .. 7 /\ 0 < i
    OBVIOUS
  <2> QED
    BY <1>2, <2>1
<1>4. Rest(y, n) = Rest(x, n) \/ Rest(y, n) = Rest(x, n) + d
  BY <1>2
<1> QED
  BY <1>3, <1>4

\* The sum of the seven, with the signs taken out.
LEMMA SevenTerms ==
    ASSUME NEW inv \in Int, NEW ass \in Int, NEW sav \in Int, NEW lent \in Int, NEW cards \in Int,
           NEW other \in Int, NEW cashed \in Int, NEW owes \in Int
    PROVE  inv + ass + sav + (-lent) + (-cards) + (other + cashed) + owes
             = inv + ass + sav - lent - cards + other + cashed + owes
OBVIOUS

\* The types that the sums rest on.
WealthIsKept ==
    /\ BooksAreMirrored
    /\ GoalsTypeOK /\ LoansTypeOK
    /\ holdings \in [Holding -> HoldingRow]
    /\ totals \in [{"cards", "cash"} -> Worth]

\* What the queries find are numbers, and together they are the net worth.
LEMMA WholeIsNetWorth ==
    ASSUME WealthIsKept
    PROVE  /\ Parts \in [1 .. 7 -> Int]
           /\ \A i \in 1 .. 7 : Found(Source[i]) \in Int
           /\ Rest(Parts, 0) = NetWorthNow
           /\ NetWorthNow \in Int
<1> PICK inv, ass, sav, lent, cards, other : /\ inv = SumOfHoldings("investments") /\ ass = SumOfHoldings("assets")
                            /\ sav = SumFunction([g \in LiveGoals |-> goals[g].saved])
                            /\ lent = SumFunction([l \in LiveLoans |-> loans[l].outstanding])
                            /\ cards = totals["cards"] /\ other = totals["cash"]
  OBVIOUS
<1> PICK cashed, owes, touched, live :
            /\ cashed = SumFunction([e \in LedgerEntry |-> CashEffect(e)])
            /\ owes = SumFunction([e \in LiveEntries |-> Receivable(entries[e])])
            /\ touched = SumFunction([e \in cashTouched |->
                           CashEffect(e) + (IF e \in LiveEntries THEN Receivable(entries[e]) ELSE 0)])
            /\ live = SumFunction([h \in LiveHoldings |-> holdings[h].value])
  OBVIOUS
<1>1. inv \in Int /\ ass \in Int /\ inv + ass = live
  BY HoldingsAddUp DEF WealthIsKept
<1>2. sav \in Int /\ lent \in Int
  BY ColumnsAreNumbers DEF WealthIsKept
<1>3. cards \in Int /\ other \in Int
  <2>1. cards \in Worth /\ other \in Worth
    BY DEF WealthIsKept
  <2> QED
    BY <2>1, WorthAssumption
<1>4. cashed \in Int /\ owes \in Int /\ cashed + owes = touched
  BY CashAndPeople DEF WealthIsKept
<1>5. /\ Found("investments") = inv /\ Found("assets") = ass /\ Found("goals") = sav /\ Found("loans") = lent
      /\ Found("cards") = cards /\ Found("cash") = other + cashed /\ Found("people") = owes
  BY DEF Found, CashTotal, PeopleTotal
<1>6. \A i \in 1 .. 7 : Found(Source[i]) \in Int
  <2>1. \A i \in 1 .. 7 : i = 1 \/ i = 2 \/ i = 3 \/ i = 4 \/ i = 5 \/ i = 6 \/ i = 7
    OBVIOUS
  <2> QED
    BY <1>1, <1>2, <1>3, <1>4, <1>5, <2>1, Sources
<1>7. /\ Parts[1] = inv /\ Parts[2] = ass /\ Parts[3] = sav /\ Parts[4] = -lent /\ Parts[5] = -cards
      /\ Parts[6] = other + cashed /\ Parts[7] = owes
  BY <1>5, Sources DEF Parts, Signed, IsLiability
<1>8. Parts \in [1 .. 7 -> Int]
  <2>1. \A i \in 1 .. 7 : Signed(Source[i]) \in Int
    BY <1>6 DEF Signed
  <2> QED
    BY <2>1 DEF Parts
<1>9. Rest(Parts, 0) = inv + ass + sav - lent - cards + other + cashed + owes
  <2>1. Rest(Parts, 0) = Parts[1] + Parts[2] + Parts[3] + Parts[4] + Parts[5] + Parts[6] + Parts[7]
    BY DEF Rest, Unread
  <2>2. Rest(Parts, 0) = inv + ass + sav + (-lent) + (-cards) + (other + cashed) + owes
    BY <1>7, <2>1
  <2>3. inv + ass + sav + (-lent) + (-cards) + (other + cashed) + owes
          = inv + ass + sav - lent - cards + other + cashed + owes
    BY <1>1, <1>2, <1>3, <1>4, SevenTerms
  <2> QED
    BY <2>2, <2>3
<1>10. NetWorthNow = live + sav + other - cards - lent + touched
  BY DEF NetWorthNow
<1>11. Rest(Parts, 0) = NetWorthNow /\ NetWorthNow \in Int
  BY <1>1, <1>2, <1>3, <1>4, <1>9, <1>10
<1> QED
  BY <1>6, <1>8, <1>11

\* So they are after a step that keeps the types.
WholeIsRight ==
    /\ Parts \in [1 .. 7 -> Int]
    /\ Rest(Parts, 0) = NetWorthNow
    /\ NetWorthNow \in Int

\* The same after a step.
LEMMA WholeIsNetWorthNext == WealthIsKept' => WholeIsRight'
<1>1. WealthIsKept => WholeIsRight
  BY WholeIsNetWorth DEF WholeIsRight
<1> QED
  BY <1>1, PTL

-----------------------------------------------------------------------------
(* Net worth: the types, and what a step of a component changes.           *)

\* The writers: at most one has a request of the ledger in flight, so no requests race there.
OneInLedger == \A c, d \in Client : ledgerReq[c] # NoRequest /\ ledgerReq[d] # NoRequest => c = d

\* One writer among all components is one in the ledger.
LEMMA OneWriterIsOne == ASSUME OneWriter PROVE OneInLedger
<1> DEFINE busy == {c \in Client : {ledgerReq[c], goalReq[c], loanReq[c]} # {NoRequest}}
<1>1. IsFiniteSet(busy) /\ Cardinality(busy) <= 1
  BY FiniteTables, FS_Subset DEF OneWriter
<1>2. \A c \in Client : ledgerReq[c] # NoRequest => c \in busy
  OBVIOUS
<1> HIDE DEF busy
<1>3. \A c, d \in busy : c = d
  <2> SUFFICES ASSUME NEW c \in busy, NEW d \in busy, c # d PROVE FALSE
    OBVIOUS
  <2>1. {c, d} \subseteq busy
    OBVIOUS
  <2>2. Cardinality({c, d}) <= Cardinality(busy) /\ Cardinality({c, d}) \in Nat /\ Cardinality(busy) \in Nat
    BY <1>1, <2>1, FS_Subset, FS_CardinalityType
  <2>3. IsFiniteSet({c}) /\ Cardinality({c}) = 1
    BY FS_Singleton
  <2>4. Cardinality({c} \union {d}) = Cardinality({c}) + 1
    BY <2>3, FS_AddElement
  <2>5. {c} \union {d} = {c, d}
    OBVIOUS
  <2> QED
    BY <1>1, <2>2, <2>3, <2>4, <2>5
<1> QED
  BY <1>2, <1>3 DEF OneInLedger

\* A request that ends while no other is in flight marks nothing as raced for.
LEMMA NothingRaces ==
    ASSUME LedgerTypeOK, OneInLedger, ledgerRaced = {}, [LedgerNext]_ledgerVars
    PROVE  ledgerRaced' = {}
<1>1. ASSUME NEW c \in Client, NEW es, EndLedger(c, es), ledgerReq[c] # NoRequest PROVE ledgerRaced' = {}
  <2>1. \A d \in Client \ {c} : ledgerReq[d] = NoRequest
    BY <1>1 DEF OneInLedger
  <2>2. \A d \in Client \ {c} : ConcernedBy(ledgerReq[d]) = {}
    BY <2>1 DEF ConcernedBy, NoRequest
  <2>3. UNION {ConcernedBy(ledgerReq[d]) : d \in Client \ {c}} = {}
    BY <2>2
  <2> QED
    BY <1>1, <2>3 DEF EndLedger
<1>2. ASSUME NEW c \in Client, CommitEntryUpdate(c) \/ CommitEntryDelete(c) \/ CommitBackfill(c)
      PROVE  ledgerRaced' = {}
  <2>1. ledgerReq[c] # NoRequest
    BY <1>2 DEF CommitEntryUpdate, CommitEntryDelete, CommitBackfill, NoRequest
  <2> QED
    BY <1>1, <1>2, <2>1 DEF CommitEntryUpdate, CommitEntryDelete, CommitBackfill
<1>3. CASE UNCHANGED ledgerRaced
  BY <1>3
<1> QED
  BY <1>2, <1>3 DEF LedgerNext, ledgerVars, CreateEntry, LoadEntryUpdate, LoadEntryDelete, LoadEntries,
                    RollBackLedger, DeleteCash, EditCash

\* The inductive invariant without the reader.
WealthIsSound == WealthIsKept /\ OneWriter

\* A step of one of the components, or of what NetWorth itself keeps.
ComponentStep ==
    /\ [LedgerNext]_ledgerVars
    /\ [GoalsNext]_goalVars
    /\ [LoansNext]_loanVars
    /\ \/ UNCHANGED <<holdings, totals>>
       \/ \E h \in Holding, kind \in {"investments", "assets"}, value \in Worth : SaveHolding(h, kind, value)
       \/ \E h \in Holding : DeleteHolding(h)
       \/ \E t \in {"cards", "cash"}, value \in Worth : ChangeTotal(t, value)

\* A step of a component keeps the books, and moves the sources that the invariant says it
\* may.
LEMMA ComponentKeeps ==
    ASSUME WealthIsSound, ComponentStep
    PROVE  WealthIsKept'
<1>1. BooksAreMirrored'
  <2>1. LedgerTypeOK' /\ LedgerInv'
    BY LedgerTypeStep, LedgerInvStep DEF WealthIsSound, WealthIsKept, BooksAreMirrored, ComponentStep
  <2>2. ledgerRaced' = {}
    BY NothingRaces, OneWriterIsOne DEF WealthIsSound, WealthIsKept, BooksAreMirrored, ComponentStep
  <2> QED
    BY <2>1, <2>2 DEF BooksAreMirrored
<1>2. GoalsTypeOK' /\ LoansTypeOK'
  BY GoalsTypeStep, LoansTypeStep DEF WealthIsSound, WealthIsKept, ComponentStep
<1>3. /\ holdings' \in [Holding -> HoldingRow]
      /\ totals' \in [{"cards", "cash"} -> Worth]
  <2>1. holdings \in [Holding -> HoldingRow] /\ totals \in [{"cards", "cash"} -> Worth]
    BY DEF WealthIsSound, WealthIsKept
  <2>2. CASE UNCHANGED <<holdings, totals>>
    BY <2>1, <2>2
  <2>3. ASSUME NEW h \in Holding, NEW kind \in {"investments", "assets"}, NEW value \in Worth, SaveHolding(h, kind, value)
        PROVE  <1>3
    <3>1. [status |-> "live", kind |-> kind, value |-> value] \in HoldingRow
      BY DEF HoldingRow
    <3> QED
      BY <2>1, <2>3, <3>1 DEF SaveHolding
  <2>4. ASSUME NEW h \in Holding, DeleteHolding(h) PROVE <1>3
    <3>1. [holdings[h] EXCEPT !.status = "deleted"] \in HoldingRow
      BY <2>1 DEF HoldingRow
    <3> QED
      BY <2>1, <2>4, <3>1 DEF DeleteHolding
  <2>5. ASSUME NEW t \in {"cards", "cash"}, NEW value \in Worth, ChangeTotal(t, value) PROVE <1>3
    BY <2>1, <2>5 DEF ChangeTotal
  <2> QED
    BY <2>2, <2>3, <2>4, <2>5 DEF ComponentStep
<1> QED
  BY <1>1, <1>2, <1>3 DEF WealthIsKept

\* The steps of the composition are those of the components, counted, or of the reader.
LEMMA StepsOfWealth ==
    ASSUME [WealthNext]_wealthVars
    PROVE  \/ ComponentStep /\ CountChanges
           \/ /\ ReadSource \/ StoreSnapshot
              /\ UNCHANGED <<ledgerVars, goalVars, loanVars, holdings, totals, commits>>
           \/ UNCHANGED wealthVars
BY DEF WealthNext, ComponentStep, SaveHolding, DeleteHolding, ChangeTotal

\* A step that changes no source keeps them so.
LEMMA UntouchedStaysSound ==
    ASSUME WealthIsSound, UNCHANGED <<ledgerVars, goalVars, loanVars, holdings, totals>>
    PROVE  WealthIsSound'
<1>1. ComponentStep
  BY DEF ComponentStep
<1>2. OneWriter'
  BY DEF WealthIsSound, OneWriter, ledgerVars, goalVars, loanVars
<1> QED
  BY <1>1, <1>2, ComponentKeeps DEF WealthIsSound

-----------------------------------------------------------------------------
(* Net worth: the reader.                                                  *)

\* The rest of the types.
ReaderTypeOK == reader \in Reader /\ snapshot \in Snapshot /\ commits \in 0 .. MaxCommits

\* The net worth as it is now is what was read and what is left to read, if nothing
\* changed; if one source did, that is the net worth of now or of the beginning, according
\* to whether it had been read.
ReaderIsRight ==
    /\ reader.done < 7
    /\ reader.done = 0 => reader = Idle
    /\ reader.done > 0 /\ reader.changes = 0 => reader.begin = NetWorthNow
    /\ reader.done > 0 /\ reader.changes <= 1 =>
         reader.assets - reader.liabilities + Rest(Parts, reader.done) \in {reader.begin, NetWorthNow}

WealthInv == WealthIsSound /\ ReaderTypeOK /\ ReaderIsRight /\ SnapshotsAreReal

\* Which sources a step changes, and how many.
LEMMA ChangedSources ==
    /\ IsFiniteSet(Changed) /\ Cardinality(Changed) \in Nat
    /\ Cardinality(Changed) = 0 => Parts' = Parts
    /\ Cardinality(Changed) = 1 => \E i \in 1 .. 7 : \A j \in 1 .. 7 : j # i => Parts'[j] = Parts[j]
<1> DEFINE names == {Source[i] : i \in 1 .. 7}
<1>1. IsFiniteSet(names)
  <2>1. names = {"investments", "assets", "goals", "loans", "cards", "cash", "people"}
    <3>1. \A i \in 1 .. 7 : i = 1 \/ i = 2 \/ i = 3 \/ i = 4 \/ i = 5 \/ i = 6 \/ i = 7
      OBVIOUS
    <3> QED
      BY <3>1, Sources
  <2>2. IsFiniteSet({"investments"} \union {"assets"} \union {"goals"} \union {"loans"} \union {"cards"}
                      \union {"cash"} \union {"people"})
    <3> PICK one, two, three, four, five, six :
             /\ one = {"investments"} /\ two = one \union {"assets"} /\ three = two \union {"goals"}
             /\ four = three \union {"loans"} /\ five = four \union {"cards"} /\ six = five \union {"cash"}
      OBVIOUS
    <3>1. IsFiniteSet(one) /\ IsFiniteSet(two) /\ IsFiniteSet(three)
      BY FS_Singleton, FS_AddElement
    <3>2. IsFiniteSet(four) /\ IsFiniteSet(five) /\ IsFiniteSet(six)
      BY <3>1, FS_AddElement
    <3>3. IsFiniteSet(six \union {"people"})
      BY <3>2, FS_AddElement
    <3> QED
      BY <3>3
  <2>3. names = {"investments"} \union {"assets"} \union {"goals"} \union {"loans"} \union {"cards"}
                      \union {"cash"} \union {"people"}
    BY <2>1
  <2> HIDE DEF names
  <2> QED
    BY <2>2, <2>3
<1>2. Changed = {source \in names : Found(source)' # Found(source)}
  BY Sources DEF Changed
<1> PICK changed : changed = Changed
  OBVIOUS
<1>3. changed \subseteq names
  BY <1>2
<1>4. IsFiniteSet(changed) /\ Cardinality(changed) \in Nat
  <2> HIDE DEF names
  <2> QED
    BY <1>1, <1>3, FS_Subset, FS_CardinalityType
<1>5. \A i \in 1 .. 7 : Source[i] \notin changed => Parts'[i] = Parts[i]
  <2> SUFFICES ASSUME NEW i \in 1 .. 7, Source[i] \notin changed PROVE Parts'[i] = Parts[i]
    OBVIOUS
  <2>1. Found(Source[i])' = Found(Source[i])
    BY <1>2
  <2>2. Parts[i] = Signed(Source[i]) /\ Parts'[i] = Signed(Source[i])'
    BY DEF Parts
  <2> QED
    BY <2>1, <2>2 DEF Signed
<1>6. ASSUME Cardinality(changed) = 0 PROVE Parts' = Parts
  <2>1. changed = {}
    BY <1>4, <1>6, FS_EmptySet
  <2> QED
    BY <1>5, <2>1 DEF Parts
<1>7. ASSUME Cardinality(changed) = 1
      PROVE  \E i \in 1 .. 7 : \A j \in 1 .. 7 : j # i => Parts'[j] = Parts[j]
  <2>1. \E s : changed = {s}
    BY <1>4, <1>7, FS_Singleton
  <2>2. PICK s : changed = {s}
    BY <2>1
  <2>3. PICK i \in 1 .. 7 : s = Source[i]
    BY <1>3, <2>2
  <2>4. \A j \in 1 .. 7 : j # i => Source[j] # Source[i]
    <3>1. \A j \in 1 .. 7 : j = 1 \/ j = 2 \/ j = 3 \/ j = 4 \/ j = 5 \/ j = 6 \/ j = 7
      OBVIOUS
    <3> QED
      BY <3>1, Sources
  <2> QED
    BY <1>5, <2>2, <2>3, <2>4
<1> QED
  BY <1>4, <1>6, <1>7

\* A step that changes a source leaves the reader right.
LEMMA CountedChangesKeep ==
    ASSUME WealthInv, ComponentStep, CountChanges
    PROVE  WealthInv'
<1>1. WealthIsSound'
  BY ComponentKeeps DEF WealthInv, WealthIsSound, CountChanges
<1>2. WealthIsKept /\ WealthIsKept'
  BY <1>1 DEF WealthInv, WealthIsSound
<1> PICK k : k = Cardinality(Changed)
  OBVIOUS
<1>3. /\ k \in Nat
      /\ k = 0 => Parts' = Parts
      /\ k = 1 => \E i \in 1 .. 7 : \A j \in 1 .. 7 : j # i => Parts'[j] = Parts[j]
  BY ChangedSources
<1>4. /\ reader \in Reader
      /\ reader' = IF reader.done = 0 THEN reader ELSE [reader EXCEPT !.changes = @ + k]
      /\ snapshot' = snapshot
      /\ commits' \in 0 .. MaxCommits
  <2>1. reader' = IF reader.done = 0 THEN reader ELSE [reader EXCEPT !.changes = @ + k]
    BY DEF CountChanges
  <2>2. commits < MaxCommits /\ commits' \in {commits, commits + 1} /\ snapshot' = snapshot
    BY DEF CountChanges, WealthInv, ReaderTypeOK
  <2>3. commits' \in 0 .. MaxCommits
    BY <2>2, WorthAssumption DEF WealthInv, ReaderTypeOK
  <2> QED
    BY <2>1, <2>2, <2>3 DEF WealthInv, ReaderTypeOK
<1>5. reader.changes \in Nat /\ reader.done \in 0 .. 7 /\ reader.assets \in Int /\ reader.liabilities \in Int
      /\ reader.begin \in Int
  BY <1>4, Sources DEF Reader
<1>6. SnapshotsAreReal'
  BY <1>4 DEF WealthInv, SnapshotsAreReal
<1>7. CASE reader.done = 0
  <2>1. reader' = reader
    BY <1>4, <1>7
  <2> QED
    BY <1>1, <1>4, <1>6, <1>7, <2>1 DEF WealthInv, ReaderTypeOK, ReaderIsRight
<1>8. CASE reader.done # 0
  <2> PICK done, owns, owes, begin, changes :
           /\ done = reader.done /\ owns = reader.assets /\ owes = reader.liabilities
           /\ begin = reader.begin /\ changes = reader.changes
    OBVIOUS
  <2>1. /\ reader' \in Reader
        /\ reader'.done = done /\ reader'.assets = owns /\ reader'.liabilities = owes
        /\ reader'.begin = begin /\ reader'.changes = changes + k
    <3>1. changes + k \in Nat
      BY <1>3, <1>5
    <3>2. reader' = [reader EXCEPT !.changes = changes + k]
      BY <1>4, <1>8
    <3> QED
      BY <1>4, <3>1, <3>2 DEF Reader
  <2>2. ReaderTypeOK'
    BY <1>4, <2>1 DEF WealthInv, ReaderTypeOK
  <2> PICK x, now, next : x = Parts /\ now = NetWorthNow /\ next = NetWorthNow'
    OBVIOUS
  <2> PICK y : y = Parts'
    OBVIOUS
  <2>3. /\ x \in [1 .. 7 -> Int] /\ Rest(x, 0) = now /\ now \in Int
        /\ y \in [1 .. 7 -> Int] /\ Rest(y, 0) = next /\ next \in Int
    <3>1. x \in [1 .. 7 -> Int] /\ Rest(x, 0) = now /\ now \in Int
      BY <1>2, WholeIsNetWorth
    <3>2. WholeIsRight'
      BY <1>2, WholeIsNetWorthNext
    <3>3. y \in [1 .. 7 -> Int] /\ Rest(y, 0) = next /\ next \in Int
      BY <3>2 DEF WholeIsRight
    <3> QED
      BY <3>1, <3>3
  <2>4. /\ done \in 1 .. 6
        /\ changes = 0 => begin = now
        /\ changes <= 1 => owns - owes + Rest(x, done) \in {begin, now}
    BY <1>5, <1>8 DEF WealthInv, ReaderIsRight
  <2>5. Rest(x, done) \in Int /\ Rest(y, done) \in Int
    BY <2>3, <2>4, RestOfOne
  <2>6. CASE k = 0
    <3>1. y = x /\ next = now /\ changes + k = changes
      BY <1>3, <1>5, <2>3, <2>6
    <3> QED
      BY <1>1, <1>6, <2>1, <2>2, <2>4, <3>1 DEF WealthInv, ReaderIsRight
  <2>7. CASE k = 1 /\ changes = 0
    <3>1. PICK i \in 1 .. 7 : \A j \in 1 .. 7 : j # i => y[j] = x[j]
      BY <1>3, <2>7
    <3> PICK d : d = y[i] - x[i]
      OBVIOUS
    <3>2. d \in Int
      BY <2>3
    <3>3. /\ Rest(y, 0) = Rest(x, 0) + d
          /\ Rest(y, done) = Rest(x, done) \/ Rest(y, done) = Rest(x, done) + d
      BY <2>3, <2>4, <3>1, RestChanges
    <3>4. next = now + d
      BY <2>3, <3>3
    <3>5. owns - owes + Rest(x, done) = now /\ begin = now
      BY <2>4, <2>7
    <3>6. owns - owes + Rest(y, done) \in {begin, next}
      BY <1>5, <2>3, <2>5, <3>2, <3>3, <3>4, <3>5
    <3>7. done < 7 /\ changes + k = 1
      BY <2>4, <2>7
    <3> QED
      BY <1>1, <1>6, <2>1, <2>2, <2>4, <3>6, <3>7 DEF WealthInv, ReaderIsRight
  <2>8. CASE changes + k > 1
    <3>1. done < 7 /\ done # 0 /\ ~(changes + k <= 1) /\ changes + k # 0
      BY <1>3, <1>5, <2>4, <2>8
    <3> QED
      BY <1>1, <1>6, <2>1, <2>2, <2>8, <3>1 DEF WealthInv, ReaderIsRight
  <2> QED
    BY <1>3, <1>5, <2>6, <2>7, <2>8
<1> QED
  BY <1>7, <1>8

\* Another query finds what was left of its source.
LEMMA QueriesKeep ==
    ASSUME WealthInv, ReadSource \/ StoreSnapshot,
           UNCHANGED <<ledgerVars, goalVars, loanVars, holdings, totals, commits>>
    PROVE  WealthInv'
<1>1. WealthIsSound' /\ WealthIsKept
  BY UntouchedStaysSound DEF WealthInv, WealthIsSound
<1> PICK done, owns, owes, begin, changes :
         /\ done = reader.done /\ owns = reader.assets /\ owes = reader.liabilities
         /\ begin = reader.begin /\ changes = reader.changes
  OBVIOUS
<1>2. /\ reader \in Reader /\ snapshot \in Snapshot /\ commits \in 0 .. MaxCommits
      /\ done \in 0 .. 6 /\ changes \in Nat /\ owns \in Int /\ owes \in Int /\ begin \in Int
  <2>1. done \in 0 .. 7 /\ changes \in Nat /\ owns \in Int /\ owes \in Int /\ begin \in Int
    BY Sources DEF WealthInv, ReaderTypeOK, Reader
  <2> QED
    BY <2>1 DEF WealthInv, ReaderTypeOK, ReaderIsRight
<1> PICK x, now : x = Parts /\ now = NetWorthNow
  OBVIOUS
<1>3. x \in [1 .. 7 -> Int] /\ Rest(x, 0) = now /\ now \in Int /\ \A i \in 1 .. 7 : Found(Source[i]) \in Int
  BY <1>1, WholeIsNetWorth
<1>4. /\ done = 0 => owns = 0 /\ owes = 0 /\ changes = 0
      /\ done > 0 /\ changes = 0 => begin = now
      /\ done > 0 /\ changes <= 1 => owns - owes + Rest(x, done) \in {begin, now}
  BY DEF WealthInv, ReaderIsRight, Idle
<1> PICK f : f = Found(Source[done + 1])
  OBVIOUS
<1> PICK owes2 : owes2 = IF IsLiability(Source[done + 1]) THEN owes + f ELSE owes
  OBVIOUS
<1> PICK owns2 : owns2 = IF IsLiability(Source[done + 1]) THEN owns ELSE owns + f
  OBVIOUS
<1> PICK begin2 : begin2 = IF done = 0 THEN now ELSE begin
  OBVIOUS
<1>5. /\ done + 1 \in 1 .. 7 /\ f \in Int /\ owes2 \in Int /\ owns2 \in Int /\ begin2 \in Int
      /\ owns2 - owes2 = (owns - owes) + x[done + 1]
  <2>1. done + 1 \in 1 .. 7 /\ f \in Int
    BY <1>2, <1>3
  <2>2. x[done + 1] = IF IsLiability(Source[done + 1]) THEN -f ELSE f
    BY <2>1 DEF Parts, Signed
  <2> QED
    BY <1>2, <1>3, <2>1, <2>2
<1>6. /\ WithNext \in Reader
      /\ WithNext.done = done + 1 /\ WithNext.assets = owns2 /\ WithNext.liabilities = owes2
      /\ WithNext.begin = begin2 /\ WithNext.changes = changes
  <2>1. WithNext = [reader EXCEPT !.done = done + 1, !.begin = begin2, !.assets = owns2, !.liabilities = owes2]
    BY DEF WithNext
  <2>2. WithNext.done = done + 1 /\ WithNext.begin = begin2
    BY <1>2, <2>1 DEF Reader
  <2>3. WithNext.assets = owns2 /\ WithNext.liabilities = owes2 /\ WithNext.changes = changes
    BY <1>2, <2>1 DEF Reader
  <2>4. WithNext \in Reader
    <3> PICK last : last = Len(Source)
      OBVIOUS
    <3>1. done + 1 \in 0 .. last
      BY <1>5, Sources
    <3>2. reader \in [done : 0 .. last, assets : Int, liabilities : Int, begin : Int, changes : Nat]
      BY <1>2 DEF Reader
    <3>3. owes2 \in Int /\ owns2 \in Int /\ begin2 \in Int
      BY <1>5
    <3>4. WithNext \in [done : 0 .. last, assets : Int, liabilities : Int, begin : Int, changes : Nat]
      BY <2>1, <3>1, <3>2, <3>3
    <3> QED
      BY <3>4 DEF Reader
  <2> QED
    BY <2>2, <2>3, <2>4
<1>7. /\ changes = 0 => begin2 = now
      /\ changes <= 1 => owns2 - owes2 + Rest(x, done + 1) \in {begin2, now}
  <2>1. Rest(x, done) = x[done + 1] + Rest(x, done + 1) /\ Rest(x, done) \in Int /\ Rest(x, done + 1) \in Int
    BY <1>2, <1>3, RestOfOne
  <2>2. x[done + 1] \in Int
    BY <1>3, <1>5
  <2>3. owns2 - owes2 + Rest(x, done + 1) = owns - owes + Rest(x, done)
    BY <1>2, <1>5, <2>1, <2>2
  <2>4. CASE done = 0
    <3>1. owns - owes + Rest(x, done) = now /\ begin2 = now
      BY <1>3, <1>4, <2>4
    <3> QED
      BY <2>3, <3>1
  <2>5. CASE done > 0
    <3>1. begin2 = begin
      BY <2>5
    <3> QED
      BY <1>4, <2>3, <2>5, <3>1
  <2> QED
    BY <1>2, <2>4, <2>5
<1>8. /\ NetWorthNow' = now /\ Parts' = x
  BY DEF NetWorthNow, Parts, Signed, Found, SumOfHoldings, LiveHoldings, CashTotal, CashEffect, CashOf,
         PeopleTotal, LiveEntries, LiveGoals, LiveLoans, ledgerVars, goalVars, loanVars
<1>9. CASE ReadSource
  <2>1. reader' = WithNext /\ snapshot' = snapshot /\ done + 1 < 7
    BY <1>9, Sources DEF ReadSource
  <2>2. ReaderTypeOK'
    BY <1>2, <1>6, <2>1 DEF ReaderTypeOK
  <2>3. done + 1 # 0
    BY <1>5
  <2>4. ReaderIsRight'
    BY <1>6, <1>7, <1>8, <2>1, <2>3 DEF ReaderIsRight
  <2>5. SnapshotsAreReal'
    BY <2>1 DEF WealthInv, SnapshotsAreReal
  <2> QED
    BY <1>1, <2>2, <2>4, <2>5 DEF WealthInv
<1>10. CASE StoreSnapshot
  <2>1. done = 6
    BY <1>2, <1>10, Sources DEF StoreSnapshot
  <2> PICK s : s = [stored |-> TRUE, worth |-> owns2 - owes2, begin |-> begin, end |-> now, changes |-> changes]
    OBVIOUS
  <2>2. snapshot' = s /\ reader' = Idle
    BY <1>6, <1>10 DEF StoreSnapshot
  <2>3. s \in Snapshot
    BY <1>2, <1>3, <1>5 DEF Snapshot
  <2>4. Idle \in Reader /\ Idle.done = 0
    BY Sources DEF Idle, Reader
  <2>5. ReaderTypeOK'
    BY <1>2, <2>2, <2>3, <2>4 DEF ReaderTypeOK
  <2>6. ReaderIsRight'
    BY <2>2, <2>4 DEF ReaderIsRight
  <2>7. begin2 = begin /\ done + 1 = 7 /\ Rest(x, done + 1) = 0
    BY <2>1, RestOfAll
  <2>8. changes <= 1 => owns2 - owes2 \in {begin, now}
    BY <1>5, <1>7, <2>7
  <2>9. s.changes = changes /\ s.worth = owns2 - owes2 /\ s.begin = begin /\ s.end = now
    OBVIOUS
  <2>10. SnapshotsAreReal'
    BY <2>2, <2>8, <2>9 DEF SnapshotsAreReal
  <2> QED
    BY <1>1, <2>5, <2>6, <2>10 DEF WealthInv
<1> QED
  BY <1>9, <1>10

\* A step that leaves every variable keeps the invariant.
LEMMA StillWealth == ASSUME WealthInv, UNCHANGED wealthVars PROVE WealthInv'
<1>1. WealthIsSound'
  BY UntouchedStaysSound DEF WealthInv, wealthVars
<1>2. /\ UNCHANGED <<reader, snapshot, commits>>
      /\ UNCHANGED <<ledgerVars, goalVars, loanVars, holdings, totals>>
  BY DEF wealthVars
<1>3. ReaderTypeOK' /\ SnapshotsAreReal'
  BY <1>2 DEF WealthInv, ReaderTypeOK, SnapshotsAreReal
<1>4. NetWorthNow' = NetWorthNow /\ Parts' = Parts
  BY <1>2 DEF NetWorthNow, Parts, Signed, Found, SumOfHoldings, LiveHoldings, CashTotal, CashEffect, CashOf,
              PeopleTotal, LiveEntries, LiveGoals, LiveLoans, ledgerVars, goalVars, loanVars
<1>5. ReaderIsRight'
  BY <1>2, <1>4 DEF WealthInv, ReaderIsRight
<1> QED
  BY <1>1, <1>3, <1>5 DEF WealthInv

\* Every step of a component and of the reader keeps the invariant.
LEMMA WealthInvStep == WealthInv /\ [WealthNext]_wealthVars => WealthInv'
BY StepsOfWealth, CountedChangesKeep, QueriesKeep, StillWealth

\* In the beginning there is nothing.
LEMMA WealthInvInit == WealthInit => WealthInv
<1> SUFFICES ASSUME WealthInit PROVE WealthInv
  OBVIOUS
<1>1. BooksAreMirrored
  <2>1. LedgerTypeOK /\ LedgerInv
    BY LedgerStarts DEF WealthInit
  <2> QED
    BY <2>1 DEF BooksAreMirrored, WealthInit, LedgerInit
<1>2. GoalsTypeOK /\ LoansTypeOK
  BY GoalsStart, LoansStart DEF WealthInit
<1>3. holdings \in [Holding -> HoldingRow] /\ totals \in [{"cards", "cash"} -> Worth]
  <2>1. [status |-> "absent", kind |-> "assets", value |-> 0] \in HoldingRow
    BY WorthAssumption DEF HoldingRow
  <2> QED
    BY <2>1, WorthAssumption DEF WealthInit
<1>4. OneWriter
  <2>1. \A c \in Client : ledgerReq[c] = NoRequest /\ goalReq[c] = NoRequest /\ loanReq[c] = NoRequest
    BY DEF WealthInit, LedgerInit, GoalsInit, LoansInit
  <2>2. {c \in Client : {ledgerReq[c], goalReq[c], loanReq[c]} # {NoRequest}} = {}
    BY <2>1
  <2>3. \A c \in Client : {ledgerReq[c], goalReq[c], loanReq[c]} \ {NoRequest} = {}
    BY <2>1
  <2>4. Cardinality({}) = 0
    BY FS_EmptySet
  <2> QED
    BY <2>2, <2>3, <2>4 DEF OneWriter
<1>5. ReaderTypeOK
  <2>1. Idle \in Reader /\ NoSnapshot \in Snapshot
    BY Sources DEF Idle, NoSnapshot, Reader, Snapshot
  <2> QED
    BY <2>1, WorthAssumption DEF WealthInit, ReaderTypeOK
<1>6. ReaderIsRight
  <2>1. reader = Idle /\ reader.done = 0
    BY DEF WealthInit, Idle
  <2> QED
    BY <2>1 DEF ReaderIsRight
<1>7. SnapshotsAreReal
  BY DEF WealthInit, NoSnapshot, SnapshotsAreReal
<1> QED
  BY <1>1, <1>2, <1>3, <1>4, <1>5, <1>6, <1>7 DEF WealthInv, WealthIsSound, WealthIsKept

\* The invariant holds in every reachable state.
LEMMA WealthIsRight == WealthSpec => []WealthInv
BY WealthInvInit, WealthInvStep, PTL DEF WealthSpec

\* Every reachable state of the composed components, the reader and the snapshot has its
\* type.
THEOREM WealthTypeCorrect == WealthSpec => []WealthTypeOK
<1>1. WealthInv => WealthTypeOK
  BY DEF WealthInv, WealthIsSound, WealthIsKept, BooksAreMirrored, ReaderTypeOK, WealthTypeOK
<1> QED
  BY <1>1, WealthIsRight, PTL

\* A stored net worth is one the user had when the request began or when it ended, if one
\* source at most changed meanwhile: each of the seven queries is counted once and with
\* its sign, and what was lent is in cash and people with opposite ones.
THEOREM SnapshotsAreAlwaysReal == WealthSpec => []SnapshotsAreReal
<1>1. WealthInv => SnapshotsAreReal
  BY DEF WealthInv
<1> QED
  BY <1>1, WealthIsRight, PTL

-----------------------------------------------------------------------------
(* Amounts and shares.                                                     *)

\* Shares of `quotient` paise, of which the first `rest` get one more.
ShareIn(quotient, rest) == [i \in Nat |-> 10 * (quotient + (IF i <= rest THEN 1 ELSE 0))]

\* What the first n of them add up to.
LEMMA FirstShares ==
    ASSUME NEW quotient \in Nat, NEW rest \in Nat
    PROVE  \A n \in Nat : SumFunctionOnSet(ShareIn(quotient, rest), 1 .. n) =
                            10 * (quotient * n + (IF n <= rest THEN n ELSE rest))
<1> DEFINE share == ShareIn(quotient, rest)
<1>0. \A i \in Nat : share[i] = 10 * (quotient + (IF i <= rest THEN 1 ELSE 0)) /\ share[i] \in Nat
  BY DEF ShareIn
<1> HIDE DEF share
<1> DEFINE P == {n \in Nat : SumFunctionOnSet(share, 1 .. n) =
                               10 * (quotient * n + (IF n <= rest THEN n ELSE rest))}
<1>1. 0 \in P
  <2>1. 1 .. 0 = {}
    OBVIOUS
  <2>2. SumFunctionOnSet(share, 1 .. 0) = 0
    BY <2>1, SumOfNone
  <2>3. quotient * 0 = 0
    OBVIOUS
  <2> QED
    BY <2>2, <2>3
<1>2. ASSUME NEW n \in Nat, n \in P PROVE n + 1 \in P
  <2>1. (1 .. n) \union {n + 1} = 1 .. (n + 1) /\ n + 1 \notin 1 .. n
    OBVIOUS
  <2>2. \A i \in (1 .. n) \union {n + 1} : share[i] \in Int
    BY <1>0
  <2>3. SumFunctionOnSet(share, 1 .. (n + 1)) = share[n + 1] + SumFunctionOnSet(share, 1 .. n)
    <3>1. IsFiniteSet(1 .. n)
      BY FS_Interval
    <3>2. SumFunctionOnSet(share, (1 .. n) \union {n + 1}) = share[n + 1] + SumFunctionOnSet(share, 1 .. n)
      BY <2>1, <2>2, <3>1, SumAdd
    <3> QED
      BY <2>1, <3>2
  <2>4. quotient * (n + 1) = quotient * n + quotient /\ quotient * n \in Int
    OBVIOUS
  <2>5. share[n + 1] = 10 * (quotient + (IF n + 1 <= rest THEN 1 ELSE 0))
    BY <1>0
  <2>6. SumFunctionOnSet(share, 1 .. n) = 10 * (quotient * n + (IF n <= rest THEN n ELSE rest))
    BY <1>2
  <2>7. CASE n + 1 <= rest
    BY <2>3, <2>4, <2>5, <2>6, <2>7
  <2>8. CASE ~ (n + 1 <= rest)
    BY <2>3, <2>4, <2>5, <2>6, <2>8
  <2> QED
    BY <2>7, <2>8
<1> HIDE DEF P
<1>3. \A n \in Nat : n \in P
  BY <1>1, <1>2, NumberInduction
<1> QED
  BY <1>3 DEF P, share

\* The total of shares depends on their amounts only.
LEMMA SplitTotalType ==
    ASSUME NEW splits \in Seq(Split)
    PROVE  SplitTotal(splits) \in Int /\ IsFiniteSet(DOMAIN splits)
<1> DEFINE amounts == [i \in DOMAIN splits |-> splits[i].amount]
<1>1. DOMAIN splits = 1 .. Len(splits) /\ Len(splits) \in Nat
  OBVIOUS
<1>2. IsFiniteSet(DOMAIN splits)
  BY <1>1, FS_Interval
<1>3. \A i \in DOMAIN splits : amounts[i] \in Int
  <2>1. \A i \in DOMAIN splits : splits[i] \in Split
    BY <1>1
  <2> QED
    BY <2>1 DEF Split
<1>4. SumFunctionOnSet(amounts, DOMAIN splits) \in Int
  <2> HIDE DEF amounts
  <2> QED
    BY <1>2, <1>3, SumType
<1> QED
  BY <1>2, <1>4 DEF SplitTotal, SumFunction

\* The shares of the server: whole paise that differ by one at most, and that add up to
\* the amount, rounded to paise.
LEMMA EqualSharesAddUp ==
    ASSUME NEW amount \in Nat, NEW list \in Seq(Person), list # << >>
    PROVE  LET splits == EqualShares(amount, list)
           IN  /\ splits \in Seq(Split)
               /\ splits # << >>
               /\ SplitTotal(splits) = 10 * WholePaise(amount)
               /\ \A i, j \in DOMAIN splits : splits[i].amount <= splits[j].amount + 10
<1> DEFINE paise == WholePaise(amount)
           n == Len(list)
           q == paise \div n
           r == paise % n
           splits == EqualShares(amount, list)
           share == ShareIn(q, r)
<1>0. paise \in Nat
  BY WholePaiseRounds
<1>1. n \in Nat \ {0} /\ DOMAIN list = 1 .. n
  OBVIOUS
<1>2. q \in Nat /\ r \in Nat /\ r < n /\ paise = q * n + r
  <2> HIDE DEF paise, n
  <2> QED
    BY <1>0, <1>1
<1>3. splits = [i \in 1 .. n |-> [member |-> list[i], amount |-> share[i]]]
  <2>1. splits = [i \in 1 .. n |-> [member |-> list[i], amount |-> 10 * (q + (IF i <= r THEN 1 ELSE 0))]]
    BY <1>1 DEF EqualShares
  <2>2. \A i \in 1 .. n : share[i] = 10 * (q + (IF i <= r THEN 1 ELSE 0))
    BY DEF ShareIn
  <2> HIDE DEF splits, q, r, share
  <2> QED
    BY <2>1, <2>2
<1>4. \A i \in 1 .. n : share[i] \in Nat /\ \A j \in 1 .. n : share[i] <= share[j] + 10
  <2> HIDE DEF q, r, n
  <2> QED
    BY <1>2 DEF ShareIn
<1>5. SumFunctionOnSet(share, 1 .. n) = 10 * paise
  <2>1. SumFunctionOnSet(share, 1 .. n) = 10 * (q * n + (IF n <= r THEN n ELSE r))
    <3> HIDE DEF q, r, n
    <3> QED
      BY <1>1, <1>2, FirstShares
  <2> HIDE DEF share, q, r, n, paise
  <2> QED
    BY <1>0, <1>1, <1>2, <2>1
<1>6. splits \in Seq(Split)
  <2>1. \A i \in 1 .. n : list[i] \in Person
    BY <1>1
  <2>2. \A i \in 1 .. n : [member |-> list[i], amount |-> share[i]] \in Split
    BY <1>4, <2>1 DEF Split
  <2> HIDE DEF splits, share, n
  <2> QED
    BY <1>1, <1>3, <2>2
<1>7. splits # << >> /\ DOMAIN splits = 1 .. n
  <2> HIDE DEF splits, share, n
  <2> QED
    BY <1>1, <1>3
<1>8. \A i \in 1 .. n : splits[i].amount = share[i]
  <2> HIDE DEF splits, share, n
  <2> QED
    BY <1>3
<1>9. SplitTotal(splits) = SumFunctionOnSet(share, 1 .. n)
  <2> DEFINE amounts == [i \in DOMAIN splits |-> splits[i].amount]
  <2>1. SplitTotal(splits) = SumFunctionOnSet(amounts, 1 .. n)
    BY <1>7 DEF SplitTotal, SumFunction
  <2>2. \A i \in 1 .. n : amounts[i] = share[i]
    BY <1>7, <1>8
  <2>3. IsFiniteSet(1 .. n)
    BY <1>1, FS_Interval
  <2> HIDE DEF amounts, share, splits, n
  <2> QED
    BY <2>1, <2>2, <2>3, SumSame
<1> HIDE DEF splits, share, n, paise
<1>10. \A i, j \in DOMAIN splits : splits[i].amount <= splits[j].amount + 10
  BY <1>4, <1>7, <1>8
<1> QED
  BY <1>5, <1>6, <1>7, <1>9, <1>10 DEF splits, paise

-----------------------------------------------------------------------------
(* Type correctness.                                                       *)

\* The shares that are stored are shares.
LEMMA StoredSplits ==
    ASSUME GroupsTypeOK, NEW equal \in BOOLEAN, NEW amount \in GroupAmount, NEW sent \in ClientSplits
    PROVE  SplitsToStore(equal, amount, sent) \in Seq(Split)
<1>1. sent \in Seq(Split)
  BY ClientSplitsAssumption DEF Split
<1>2. amount \in Nat /\ members \in Seq(Person)
  BY GroupAmountAssumption, MemberListAssumption DEF GroupsTypeOK
<1>3. CASE equal /\ members # << >>
  BY <1>2, <1>3, EqualSharesAddUp DEF SplitsToStore
<1>4. CASE ~ (equal /\ members # << >>)
  BY <1>1, <1>4 DEF SplitsToStore
<1> QED
  BY <1>3, <1>4

\* Every reachable state of a group has its type.
THEOREM GroupsTypeCorrect == GroupsSpec => []GroupsTypeOK
<1>1. GroupsInit => GroupsTypeOK
  <2> SUFFICES ASSUME GroupsInit PROVE GroupsTypeOK
    OBVIOUS
  <2>1. members \in Seq(Person) /\ members # << >>
    BY MemberListAssumption DEF GroupsInit
  <2>2. members[1] \in Person
    BY <2>1
  <2>3. (CHOOSE p \in Person : TRUE) \in Person
    BY <2>2
  <2>4. << >> \in Seq(Split)
    OBVIOUS
  <2>5. NoExpense \in ExpenseRow
    BY <2>3, <2>4 DEF NoExpense, ExpenseRow
  <2>6. LegacyRow \subseteq ExpenseRow
    <3>1. \A a \in GroupAmount : Stored(a) \in Nat
      BY GroupAmountAssumption, StoredRounds
    <3> QED
      BY <2>4, <3>1 DEF LegacyRow, ExpenseRow
  <2>7. expenses \in [GroupExpense -> ExpenseRow]
    BY <2>5, <2>6 DEF GroupsInit
  <2> QED
    BY <2>7 DEF GroupsInit, GroupsTypeOK
<1>2. GroupsTypeOK /\ [GroupsNext]_groupVars => GroupsTypeOK'
  <2> SUFFICES ASSUME GroupsTypeOK, [GroupsNext]_groupVars PROVE GroupsTypeOK'
    OBVIOUS
  <2>0. /\ members \in MemberList
        /\ expenses \in [GroupExpense -> ExpenseRow]
        /\ settlements \subseteq Settlement
        /\ roundedOff \subseteq GroupExpense
        /\ unshared \subseteq GroupExpense
    BY DEF GroupsTypeOK
  <2>1. ASSUME NEW list \in MemberList, UpdateMembers(list) PROVE GroupsTypeOK'
    BY <2>0, <2>1 DEF UpdateMembers, GroupsTypeOK
  <2>2. ASSUME NEW x \in GroupExpense, NEW payer \in Person, NEW amount \in GroupAmount,
               NEW equal \in BOOLEAN, NEW sent \in ClientSplits, AddExpense(x, payer, amount, equal, sent)
        PROVE  GroupsTypeOK'
    <3> DEFINE row == [status |-> "live", payer |-> payer, amount |-> Stored(amount), equal |-> equal,
                       splits |-> SplitsToStore(equal, amount, sent)]
    <3>1. Stored(amount) \in Nat
      BY GroupAmountAssumption, StoredRounds
    <3>2. row \in ExpenseRow
      BY <3>1, StoredSplits DEF ExpenseRow
    <3>3. expenses' = [expenses EXCEPT ![x] = row]
      BY <2>2 DEF AddExpense
    <3>4. expenses' \in [GroupExpense -> ExpenseRow]
      <4> HIDE DEF row
      <4> QED
        BY <2>0, <3>2, <3>3
    <3>5. roundedOff' \subseteq GroupExpense /\ unshared' \subseteq GroupExpense
      BY <2>0, <2>2 DEF AddExpense
    <3> QED
      BY <2>0, <2>2, <3>4, <3>5 DEF AddExpense, GroupsTypeOK
  <2>3. ASSUME NEW x \in GroupExpense, DeleteExpense(x) PROVE GroupsTypeOK'
    <3>1. [expenses[x] EXCEPT !.status = "deleted"] \in ExpenseRow
      BY <2>0 DEF ExpenseRow
    <3> QED
      BY <2>0, <2>3, <3>1 DEF DeleteExpense, GroupsTypeOK
  <2>4. ASSUME NEW s \in Settlement, AddSettlement(s) PROVE GroupsTypeOK'
    BY <2>0, <2>4 DEF AddSettlement, GroupsTypeOK
  <2>5. ASSUME NEW s \in Settlement, DeleteSettlement(s) PROVE GroupsTypeOK'
    BY <2>0, <2>5 DEF DeleteSettlement, GroupsTypeOK
  <2>6. CASE UNCHANGED groupVars
    BY <2>0, <2>6 DEF groupVars, GroupsTypeOK
  <2> QED
    BY <2>1, <2>2, <2>3, <2>4, <2>5, <2>6 DEF GroupsNext
<1> QED
  BY <1>1, <1>2, PTL DEF GroupsSpec

-----------------------------------------------------------------------------
(* What is stored with an expense.  What the members owe follows from the  *)
(* rows alone once the rows are known to say how they were split.          *)

\* Shares add up to the amount, the rounding of parts of a paisa aside.
Covers(amount, total, rounded) ==
    /\ total \in Int
    /\ IF rounded THEN amount - total \in -10 .. 10 ELSE amount = total

\* The shares are those that the server works out for some amount and some members.
Fair(splits) ==
    \E amount \in Nat, list \in Seq(Person) : list # << >> /\ splits = EqualShares(amount, list)

\* A row was split when it was added, or the group had no members then.
IsSplit(row, rounded, waits) ==
    /\ row.amount % 10 = 0
    /\ ~ row.equal => row.splits # << >> /\ Covers(row.amount, SplitTotal(row.splits), rounded)
    /\ row.equal /\ ~ waits =>
         Fair(row.splits) /\ Covers(row.amount, SplitTotal(row.splits), rounded)

RowIsSplit(x) == IsSplit(expenses[x], x \in roundedOff, x \in unshared)

RowsAreSplit ==
    /\ \A x \in GroupExpense : expenses[x].status # "absent" => RowIsSplit(x)
    /\ IsFiniteSet(settlements)

\* A new row is split.
LEMMA AddExpenseSplits ==
    ASSUME GroupsTypeOK, NEW x \in GroupExpense, NEW payer \in Person, NEW amount \in GroupAmount,
           NEW equal \in BOOLEAN, NEW sent \in ClientSplits, AddExpense(x, payer, amount, equal, sent)
    PROVE  RowIsSplit(x)'
<1>1. PICK row : row = expenses'[x]
  OBVIOUS
<1> PICK splits : splits = SplitsToStore(equal, amount, sent)
  OBVIOUS
<1>2. row.amount = Stored(amount) /\ row.equal = equal /\ row.splits = splits
  BY <1>1 DEF AddExpense, GroupsTypeOK
<1>3. amount \in Nat /\ members \in Seq(Person)
  BY GroupAmountAssumption, MemberListAssumption DEF GroupsTypeOK
<1>4. PICK stored : stored = Stored(amount)
  OBVIOUS
<1>5. /\ stored \in Nat /\ stored % 10 = 0
      /\ stored - amount \in -5 .. 5
      /\ amount % 10 = 0 => stored = amount
  BY <1>3, <1>4, StoredRounds
<1>6. amount % 10 = 0 \/ x \in roundedOff'
  BY DEF AddExpense
<1>7. ASSUME NEW total \in Int, total - amount \in -5 .. 5, amount % 10 = 0 => total = amount
      PROVE  Covers(stored, total, x \in roundedOff')
  <2>1. stored - total \in -10 .. 10
    BY <1>3, <1>5, <1>7
  <2>2. amount % 10 = 0 => stored = total
    BY <1>5, <1>7
  <2> QED
    BY <1>6, <2>1, <2>2 DEF Covers
<1>8. CASE ~ equal
  <2>1. splits # << >> /\ SplitTotal(splits) = amount
    BY <1>8 DEF AddExpense, SplitsToStore
  <2>2. Covers(stored, amount, x \in roundedOff')
    BY <1>3, <1>7
  <2> QED
    BY <1>1, <1>2, <1>4, <1>5, <1>8, <2>1, <2>2 DEF RowIsSplit, IsSplit
<1>9. CASE equal /\ x \in unshared'
  BY <1>1, <1>2, <1>4, <1>5, <1>9 DEF RowIsSplit, IsSplit
<1>10. CASE equal /\ x \notin unshared'
  <2>1. members # << >>
    BY <1>10 DEF AddExpense
  <2>2. PICK list \in Seq(Person) : list = members
    BY <1>3
  <2>3. splits = EqualShares(amount, list)
    BY <1>10, <2>1, <2>2 DEF SplitsToStore
  <2>4. SplitTotal(splits) = 10 * WholePaise(amount)
    BY <1>3, <2>1, <2>2, <2>3, EqualSharesAddUp
  <2>5. Fair(splits)
    BY <1>3, <2>1, <2>2, <2>3 DEF Fair
  <2>6. PICK paise \in Nat : paise = WholePaise(amount)
    BY <1>3, WholePaiseRounds
  <2>7. 10 * paise - amount \in -5 .. 5 /\ (amount % 10 = 0 => 10 * paise = amount)
    BY <1>3, <2>6, WholePaiseRounds
  <2>8. Covers(stored, 10 * paise, x \in roundedOff')
    BY <1>3, <1>7, <2>7
  <2> QED
    BY <1>1, <1>2, <1>4, <1>5, <1>10, <2>4, <2>5, <2>6, <2>8 DEF RowIsSplit, IsSplit
<1> QED
  BY <1>8, <1>9, <1>10

\* The rows stay split, whatever is added, deleted or settled and whoever comes or goes.
LEMMA RowsStaySplit == GroupsSpec => [](GroupsTypeOK /\ RowsAreSplit)
<1>1. GroupsInit => RowsAreSplit
  <2> SUFFICES ASSUME GroupsInit PROVE RowsAreSplit
    OBVIOUS
  <2>1. ASSUME NEW x \in GroupExpense, expenses[x].status # "absent" PROVE RowIsSplit(x)
    <3>1. PICK row \in {NoExpense} \union LegacyRow : row = expenses[x]
      BY DEF GroupsInit
    <3>2. row \in LegacyRow
      BY <2>1, <3>1 DEF NoExpense
    <3>3. row.status = "live" /\ row.equal = TRUE /\ \E a \in GroupAmount : row.amount = Stored(a)
      BY <3>2 DEF LegacyRow
    <3>4. row.amount % 10 = 0
      BY <3>3, GroupAmountAssumption, StoredRounds
    <3>5. x \in unshared
      BY <3>1, <3>3 DEF GroupsInit
    <3>6. row.equal
      BY <3>3
    <3> QED
      BY <3>1, <3>4, <3>5, <3>6 DEF RowIsSplit, IsSplit
  <2> QED
    BY <2>1, FS_EmptySet DEF GroupsInit, RowsAreSplit
<1>2. GroupsTypeOK /\ RowsAreSplit /\ [GroupsNext]_groupVars => RowsAreSplit'
  <2> SUFFICES ASSUME GroupsTypeOK, RowsAreSplit, [GroupsNext]_groupVars PROVE RowsAreSplit'
    OBVIOUS
  <2>0. ASSUME NEW y \in GroupExpense, expenses[y].status # "absent",
               expenses'[y].amount = expenses[y].amount, expenses'[y].equal = expenses[y].equal,
               expenses'[y].splits = expenses[y].splits,
               y \in roundedOff' <=> y \in roundedOff, y \in unshared' <=> y \in unshared
        PROVE  RowIsSplit(y)'
    <3>1. PICK row : row = expenses'[y]
      OBVIOUS
    <3>2. PICK old : old = expenses[y]
      OBVIOUS
    <3>3. IsSplit(old, y \in roundedOff, y \in unshared)
      BY <2>0, <3>2 DEF RowsAreSplit, RowIsSplit
    <3>4. IsSplit(row, y \in roundedOff', y \in unshared')
      <4>1. row.amount = old.amount /\ row.equal = old.equal /\ row.splits = old.splits
        BY <2>0, <3>1, <3>2
      <4> QED
        BY <2>0, <3>3, <4>1 DEF IsSplit, Covers
    <3> QED
      BY <3>1, <3>4 DEF RowIsSplit
  <2>1. ASSUME UNCHANGED <<expenses, roundedOff, unshared>>, IsFiniteSet(settlements')
        PROVE  RowsAreSplit'
    BY <2>0, <2>1 DEF RowsAreSplit
  <2>2. ASSUME NEW list \in MemberList, UpdateMembers(list) PROVE RowsAreSplit'
    BY <2>1, <2>2 DEF UpdateMembers, RowsAreSplit
  <2>3. ASSUME NEW x \in GroupExpense, NEW payer \in Person, NEW amount \in GroupAmount,
               NEW equal \in BOOLEAN, NEW sent \in ClientSplits, AddExpense(x, payer, amount, equal, sent)
        PROVE  RowsAreSplit'
    <3>1. RowIsSplit(x)'
      BY <2>3, AddExpenseSplits
    <3>2. ASSUME NEW y \in GroupExpense, y # x, expenses'[y].status # "absent" PROVE RowIsSplit(y)'
      <4>1. expenses'[y] = expenses[y]
        BY <2>3, <3>2 DEF AddExpense, GroupsTypeOK
      <4>2. (y \in roundedOff' <=> y \in roundedOff) /\ (y \in unshared' <=> y \in unshared)
        BY <2>3, <3>2 DEF AddExpense
      <4> QED
        BY <2>0, <3>2, <4>1, <4>2
    <3>3. settlements' = settlements
      BY <2>3 DEF AddExpense
    <3> QED
      BY <3>1, <3>2, <3>3 DEF RowsAreSplit
  <2>4. ASSUME NEW x \in GroupExpense, DeleteExpense(x) PROVE RowsAreSplit'
    <3>1. expenses[x].status = "live" /\ expenses' = [expenses EXCEPT ![x].status = "deleted"]
      BY <2>4 DEF DeleteExpense, LiveExpenses
    <3>2. UNCHANGED <<settlements, roundedOff, unshared>>
      BY <2>4 DEF DeleteExpense
    <3>3. ASSUME NEW y \in GroupExpense, expenses'[y].status # "absent" PROVE RowIsSplit(y)'
      <4>0. expenses[y] \in ExpenseRow
        BY DEF GroupsTypeOK
      <4>1. /\ expenses[y].status # "absent"
            /\ expenses'[y].amount = expenses[y].amount
            /\ expenses'[y].equal = expenses[y].equal
            /\ expenses'[y].splits = expenses[y].splits
        BY <3>1, <3>3, <4>0 DEF GroupsTypeOK, ExpenseRow
      <4> QED
        BY <2>0, <3>2, <4>1
    <3> QED
      BY <3>2, <3>3 DEF RowsAreSplit
  <2>5. ASSUME NEW s \in Settlement, AddSettlement(s) PROVE RowsAreSplit'
    BY <2>1, <2>5, FS_AddElement DEF AddSettlement, RowsAreSplit
  <2>6. ASSUME NEW s \in Settlement, DeleteSettlement(s) PROVE RowsAreSplit'
    BY <2>1, <2>6, FS_Subset DEF DeleteSettlement, RowsAreSplit
  <2>7. CASE UNCHANGED groupVars
    BY <2>1, <2>7 DEF groupVars, RowsAreSplit
  <2> QED
    BY <2>2, <2>3, <2>4, <2>5, <2>6, <2>7 DEF GroupsNext
<1>3. GroupsInit /\ [][GroupsNext]_groupVars /\ []GroupsTypeOK => []RowsAreSplit
  BY <1>1, <1>2, PTL
<1> QED
  BY <1>3, GroupsTypeCorrect, PTL DEF GroupsSpec

\* The shares the balances read, of a row whose shares the server worked out or checked.
LEMMA ShownSplits ==
    ASSUME GroupsTypeOK, RowsAreSplit, NEW x \in LiveExpenses \ (ClientShares \union Unsplit)
    PROVE  /\ SplitsOf(expenses[x]) \in Seq(Split)
           /\ expenses[x].amount \in Nat
           /\ expenses[x].equal => Fair(SplitsOf(expenses[x]))
           /\ Covers(expenses[x].amount, SplitTotal(SplitsOf(expenses[x])), x \in roundedOff)
<1>1. PICK row : row = expenses[x]
  OBVIOUS
<1>2. x \in GroupExpense /\ row.status = "live" /\ IsSplit(row, x \in roundedOff, x \in unshared)
  BY <1>1 DEF LiveExpenses, RowsAreSplit, RowIsSplit
<1>3. row \in ExpenseRow /\ members \in Seq(Person)
  BY <1>1, <1>2, MemberListAssumption DEF GroupsTypeOK
<1>4. row.amount \in Nat /\ row.equal \in BOOLEAN /\ row.splits \in Seq(Split)
  BY <1>3 DEF ExpenseRow
<1>5. SplitsOf(row) # << >>
  BY <1>1 DEF Unsplit
<1>6. CASE row.splits = << >>
  <2>1. row.equal /\ members # << >> /\ SplitsOf(row) = EqualShares(row.amount, members)
    BY <1>5, <1>6 DEF SplitsOf
  <2>2. SplitsOf(row) \in Seq(Split) /\ SplitTotal(SplitsOf(row)) = 10 * WholePaise(row.amount)
    BY <1>3, <1>4, <2>1, EqualSharesAddUp
  <2>3. 10 * WholePaise(row.amount) = row.amount
    BY <1>2, <1>4, WholePaiseRounds DEF IsSplit
  <2>4. Covers(row.amount, row.amount, x \in roundedOff)
    BY <1>4 DEF Covers
  <2>5. Fair(SplitsOf(row))
    BY <1>3, <1>4, <2>1 DEF Fair
  <2> QED
    BY <1>1, <1>4, <2>2, <2>3, <2>4, <2>5
<1>7. CASE row.splits # << >>
  <2>1. SplitsOf(row) = row.splits
    BY <1>7 DEF SplitsOf
  <2>2. x \notin unshared
    BY <1>1, <1>7 DEF ClientShares
  <2> QED
    BY <1>1, <1>2, <1>4, <2>1, <2>2 DEF IsSplit
<1> QED
  BY <1>6, <1>7

\* Equal shares are fair: whole paise that differ by one at most and add up to the amount.
THEOREM SharesAreFair == GroupsSpec => []EqualSharesFair
<1>1. GroupsTypeOK /\ RowsAreSplit => EqualSharesFair
  <2> SUFFICES ASSUME GroupsTypeOK, RowsAreSplit,
                      NEW x \in LiveExpenses \ (ClientShares \union Unsplit), expenses[x].equal
               PROVE  LET splits == SplitsOf(expenses[x]) IN
                      /\ x \notin roundedOff => SplitTotal(splits) = expenses[x].amount
                      /\ \A i, j \in DOMAIN splits : splits[i].amount <= splits[j].amount + 10
    BY DEF EqualSharesFair
  <2>1. PICK splits : splits = SplitsOf(expenses[x])
    OBVIOUS
  <2>2. Fair(splits) /\ Covers(expenses[x].amount, SplitTotal(splits), x \in roundedOff)
    BY <2>1, ShownSplits
  <2>3. \A i, j \in DOMAIN splits : splits[i].amount <= splits[j].amount + 10
    BY <2>2, EqualSharesAddUp DEF Fair
  <2> QED
    BY <2>1, <2>2, <2>3 DEF Covers
<1> QED
  BY <1>1, RowsStaySplit, PTL

-----------------------------------------------------------------------------
(* Balances.                                                               *)

\* Every share is some person's.
LEMMA SharesAddUp ==
    ASSUME NEW splits \in Seq(Split)
    PROVE  /\ \A p \in Person : ShareOf(p, splits) \in Int
           /\ SumFunctionOnSet([p \in Person |-> ShareOf(p, splits)], Person) = SplitTotal(splits)
<1> DEFINE D == DOMAIN splits
           amounts == [i \in D |-> splits[i].amount]
           holder == [i \in D |-> splits[i].member]
           Mine(p) == {i \in D : holder[i] = p}
<1>1. IsFiniteSet(D)
  BY SplitTotalType
<1>2. \A i \in D : amounts[i] \in Int /\ holder[i] \in Person
  <2>1. \A i \in D : splits[i] \in Split
    OBVIOUS
  <2> QED
    BY <2>1 DEF Split
<1>3. SplitTotal(splits) = SumFunctionOnSet(amounts, D)
  BY DEF SplitTotal, SumFunction
<1>4. ASSUME NEW p \in Person PROVE ShareOf(p, splits) = SumFunctionOnSet(amounts, Mine(p))
  <2> DEFINE mine == [i \in {j \in D : splits[j].member = p} |-> splits[i].amount]
  <2>1. {j \in D : splits[j].member = p} = Mine(p)
    OBVIOUS
  <2>2. ShareOf(p, splits) = SumFunctionOnSet(mine, Mine(p))
    BY <2>1 DEF ShareOf, SumFunction
  <2>3. IsFiniteSet(Mine(p)) /\ \A i \in Mine(p) : mine[i] = amounts[i]
    BY <1>1, FS_Subset
  <2> HIDE DEF mine, amounts, Mine
  <2> QED
    BY <2>2, <2>3, SumSame
<1>5. \A p \in Person : IsFiniteSet(Mine(p)) /\ Mine(p) \subseteq D
  BY <1>1, FS_Subset
<1> HIDE DEF D, amounts, holder
<1>6. \A p \in Person : SumFunctionOnSet(amounts, Mine(p)) \in Int
  BY <1>2, <1>5, SumType
<1>7. SumFunctionOnSet([p \in Person |-> SumFunctionOnSet(amounts, Mine(p))], Person)
        = SumFunctionOnSet(amounts, D)
  BY <1>1, <1>2, FiniteAssumption, SumFibers
<1>8. [p \in Person |-> ShareOf(p, splits)] = [p \in Person |-> SumFunctionOnSet(amounts, Mine(p))]
  BY <1>4
<1> QED
  BY <1>3, <1>4, <1>6, <1>7, <1>8

\* Sums over all rows and over some of them differ by what the other rows come to.
LEMMA OthersStay ==
    ASSUME NEW S, IsFiniteSet(S), NEW T \in SUBSET S, NEW f, NEW g,
           \A x \in S : f[x] \in Int /\ g[x] \in Int,
           \A x \in S \ T : f[x] = g[x]
    PROVE  /\ SumFunctionOnSet(f, S) \in Int /\ SumFunctionOnSet(f, T) \in Int
           /\ SumFunctionOnSet(g, S) \in Int /\ SumFunctionOnSet(g, T) \in Int
           /\ SumFunctionOnSet(f, S) - SumFunctionOnSet(f, T) = SumFunctionOnSet(g, S) - SumFunctionOnSet(g, T)
<1>1. IsFiniteSet(T) /\ IsFiniteSet(S \ T) /\ T \intersect (S \ T) = {} /\ T \union (S \ T) = S
  BY FS_Subset
<1>2. /\ SumFunctionOnSet(f, S) = SumFunctionOnSet(f, T) + SumFunctionOnSet(f, S \ T)
      /\ SumFunctionOnSet(g, S) = SumFunctionOnSet(g, T) + SumFunctionOnSet(g, S \ T)
  BY <1>1, SumUnion
<1>3. SumFunctionOnSet(f, S \ T) = SumFunctionOnSet(g, S \ T)
  BY <1>1, SumSame
<1>4. /\ SumFunctionOnSet(f, T) \in Int /\ SumFunctionOnSet(f, S \ T) \in Int
      /\ SumFunctionOnSet(g, T) \in Int /\ SumFunctionOnSet(g, S \ T) \in Int
  BY <1>1, SumType
<1> QED
  BY <1>2, <1>3, <1>4

\* What a person paid, and got in settlements, are numbers.
LEMMA PaidIsNumber ==
    ASSUME GroupsTypeOK, RowsAreSplit, NEW p \in Person
    PROVE  /\ PaidBy(p) \in Int
           /\ SumFunction([s \in {t \in settlements : t.to = p} |-> s.amount]) \in Int
<1> DEFINE L == {y \in LiveExpenses : expenses[y].payer = p}
           gave == {t \in settlements : t.from = p}
           got == {t \in settlements : t.to = p}
           paid == [x \in L |-> expenses[x].amount]
           out == [s \in gave |-> s.amount]
           in == [s \in got |-> s.amount]
<1>1. IsFiniteSet(L) /\ IsFiniteSet(gave) /\ IsFiniteSet(got)
  <2>1. IsFiniteSet(LiveExpenses) /\ IsFiniteSet(settlements)
    BY FiniteAssumption, FS_Subset DEF LiveExpenses, RowsAreSplit
  <2> QED
    BY <2>1, FS_Subset
<1>2. \A x \in L : paid[x] \in Int
  <2>1. \A x \in L : expenses[x] \in ExpenseRow
    BY DEF LiveExpenses, GroupsTypeOK
  <2> QED
    BY <2>1 DEF ExpenseRow
<1>3. \A s \in settlements : s.amount \in Int
  <2>1. \A s \in settlements : s \in Settlement
    BY DEF GroupsTypeOK
  <2>2. \A s \in Settlement : s.amount \in Settled
    BY DEF Settlement
  <2>3. \A a \in Settled : a \in Int
    BY SettledAssumption
  <2> QED
    BY <2>1, <2>2, <2>3
<1>4. (\A s \in gave : out[s] \in Int) /\ (\A s \in got : in[s] \in Int)
  BY <1>3
<1>5. /\ PaidBy(p) = SumFunctionOnSet(paid, L) + SumFunctionOnSet(out, gave)
      /\ SumFunction([s \in {t \in settlements : t.to = p} |-> s.amount]) = SumFunctionOnSet(in, got)
  BY DEF PaidBy, SumFunction
<1> HIDE DEF L, gave, got, paid, out, in
<1>6. /\ SumFunctionOnSet(paid, L) \in Int /\ SumFunctionOnSet(out, gave) \in Int
      /\ SumFunctionOnSet(in, got) \in Int
  BY <1>1, <1>2, <1>4, SumType
<1> QED
  BY <1>5, <1>6

\* The shares of a row, whoever the members are.
LEMMA SplitsType ==
    ASSUME NEW row \in ExpenseRow, NEW list \in MemberList
    PROVE  (IF row.splits = << >> /\ row.equal /\ list # << >>
              THEN EqualShares(row.amount, list) ELSE row.splits) \in Seq(Split)
<1>1. row.amount \in Nat /\ row.splits \in Seq(Split) /\ list \in Seq(Person)
  BY MemberListAssumption DEF ExpenseRow
<1>2. list # << >> => EqualShares(row.amount, list) \in Seq(Split)
  BY <1>1, EqualSharesAddUp
<1> QED
  BY <1>1, <1>2

\* Members who join or leave change nobody's balance, but for the shares of expenses that
\* were stored without any.
THEOREM MembersOweTheSame == GroupsSpec => MembersKeepDebts
<1>1. GroupsTypeOK /\ RowsAreSplit /\ [GroupsNext]_groupVars
        => [members' # members
              => \A p \in Person : (Balance(p) + OwedUnshared(p))' = Balance(p) + OwedUnshared(p)]_groupVars
  <2> SUFFICES ASSUME GroupsTypeOK, RowsAreSplit, [GroupsNext]_groupVars, members' # members,
                      NEW p \in Person
               PROVE  (Balance(p) + OwedUnshared(p))' = Balance(p) + OwedUnshared(p)
    OBVIOUS
  <2>1. UNCHANGED <<expenses, settlements, unshared>> /\ members' \in MemberList /\ members \in MemberList
    BY DEF GroupsNext, groupVars, GroupsTypeOK, UpdateMembers, AddExpense, DeleteExpense, AddSettlement, DeleteSettlement
  <2>2. LiveExpenses' = LiveExpenses
    BY <2>1 DEF LiveExpenses
  <2>3. PICK L : L = LiveExpenses
    OBVIOUS
  <2>4. PICK U \in SUBSET L : U = LiveExpenses \intersect unshared
    BY <2>3
  <2>5. IsFiniteSet(L) /\ \A x \in L : x \in GroupExpense /\ expenses[x] \in ExpenseRow
    BY <2>3, FiniteAssumption, FS_Subset DEF LiveExpenses, GroupsTypeOK
  <2>6. PICK f : f = [x \in L |-> ShareOf(p, SplitsOf(expenses[x]))]
    OBVIOUS
  <2>7. PICK g : g = [x \in L |-> ShareOf(p, SplitsOf(expenses[x])')]
    OBVIOUS
  <2>8. ASSUME NEW x \in L
        PROVE  SplitsOf(expenses[x]) \in Seq(Split) /\ SplitsOf(expenses[x])' \in Seq(Split)
    <3>1. PICK row \in ExpenseRow : row = expenses[x]
      BY <2>5
    <3>2. SplitsOf(expenses[x]) \in Seq(Split)
      BY <2>1, <3>1, SplitsType DEF SplitsOf
    <3>3. SplitsOf(expenses[x])' \in Seq(Split)
      BY <2>1, <3>1, SplitsType DEF SplitsOf
    <3> QED
      BY <3>2, <3>3
  <2>9. \A x \in L : f[x] \in Int /\ g[x] \in Int
    BY <2>6, <2>7, <2>8, SharesAddUp
  <2>10. ASSUME NEW x \in L \ U PROVE f[x] = g[x]
    <3>1. PICK row : row = expenses[x]
      OBVIOUS
    <3>2. x \notin unshared /\ row.status = "live" /\ row.equal \in BOOLEAN
      BY <2>3, <2>4, <2>5, <3>1 DEF LiveExpenses, ExpenseRow
    <3>3. IsSplit(row, x \in roundedOff, x \in unshared)
      BY <2>5, <3>1, <3>2 DEF RowsAreSplit, RowIsSplit
    <3>4. row.splits # << >>
      <4>1. \A splits : Fair(splits) => splits # << >>
        BY EqualSharesAddUp DEF Fair
      <4> QED
        BY <3>2, <3>3, <4>1 DEF IsSplit
    <3>5. SplitsOf(expenses[x])' = SplitsOf(expenses[x])
      BY <2>1, <3>1, <3>4 DEF SplitsOf
    <3> QED
      BY <2>6, <2>7, <3>5
  <2>11. /\ SumFunctionOnSet(f, L) \in Int /\ SumFunctionOnSet(f, U) \in Int
         /\ SumFunctionOnSet(g, L) \in Int /\ SumFunctionOnSet(g, U) \in Int
         /\ SumFunctionOnSet(f, L) - SumFunctionOnSet(f, U) = SumFunctionOnSet(g, L) - SumFunctionOnSet(g, U)
    BY <2>5, <2>9, <2>10, OthersStay
  <2>12. PICK paid, got : /\ paid = PaidBy(p)
                          /\ got = SumFunction([s \in {t \in settlements : t.to = p} |-> s.amount])
    OBVIOUS
  <2>13. paid \in Int /\ got \in Int
    BY <2>12, PaidIsNumber
  <2>14. PaidBy(p)' = paid
    BY <2>1, <2>2, <2>12 DEF PaidBy
  <2>15. Balance(p) = paid - (SumFunctionOnSet(f, L) + got)
    BY <2>3, <2>6, <2>12 DEF Balance, OwedBy, SumFunction
  <2>16. Balance(p)' = paid - (SumFunctionOnSet(g, L) + got)
    <3>1. [x \in LiveExpenses |-> ShareOf(p, SplitsOf(expenses[x]))]' = g
      BY <2>2, <2>3, <2>7 DEF ShareOf
    <3>2. DOMAIN g = L
      BY <2>7
    <3>3. SumFunction([s \in {t \in settlements : t.to = p} |-> s.amount])' = got
      BY <2>1, <2>12
    <3>4. OwedBy(p)' = SumFunctionOnSet(g, L) + got
      BY <3>1, <3>2, <3>3 DEF OwedBy, SumFunction
    <3> QED
      BY <2>14, <3>4 DEF Balance
  <2>17. OwedUnshared(p) = SumFunctionOnSet(f, U)
    <3> DEFINE shares == [x \in U |-> ShareOf(p, SplitsOf(expenses[x]))]
    <3>1. OwedUnshared(p) = SumFunctionOnSet(shares, U)
      BY <2>4 DEF OwedUnshared, SumFunction
    <3>2. IsFiniteSet(U) /\ \A x \in U : shares[x] = f[x]
      BY <2>5, <2>6, FS_Subset
    <3> HIDE DEF shares
    <3> QED
      BY <3>1, <3>2, SumSame
  <2>18. OwedUnshared(p)' = SumFunctionOnSet(g, U)
    <3>1. PICK shared : shared = [x \in U |-> ShareOf(p, SplitsOf(expenses[x])')]
      OBVIOUS
    <3>2. [x \in LiveExpenses \intersect unshared |-> ShareOf(p, SplitsOf(expenses[x]))]' = shared
      BY <2>1, <2>2, <2>4, <3>1 DEF ShareOf
    <3>3. OwedUnshared(p)' = SumFunctionOnSet(shared, U)
      BY <3>1, <3>2 DEF OwedUnshared, SumFunction
    <3>4. IsFiniteSet(U) /\ \A x \in U : shared[x] = g[x]
      BY <2>5, <2>7, <3>1, FS_Subset
    <3> QED
      BY <3>3, <3>4, SumSame
  <2>19. paid - (SumFunctionOnSet(g, L) + got) + SumFunctionOnSet(g, U)
           = paid - (SumFunctionOnSet(f, L) + got) + SumFunctionOnSet(f, U)
    BY <2>11, <2>13
  <2> QED
    BY <2>15, <2>16, <2>17, <2>18, <2>19
<1> QED
  BY <1>1, RowsStaySplit, PTL DEF GroupsSpec, MembersKeepDebts

\* What the rows that name p amount to.
Named(S, f, key, p) == SumFunction([x \in {y \in S : key[y] = p} |-> f[x]])

\* What rows of a kind name people for, taken together: the total of the rows.
LEMMA TakenTogether ==
    ASSUME NEW S, IsFiniteSet(S), NEW f, NEW key, \A x \in S : f[x] \in Int /\ key[x] \in Person,
           NEW named, \A p \in Person : named[p] = Named(S, f, key, p)
    PROVE  /\ \A p \in Person : named[p] \in Int
           /\ SumFunctionOnSet(named, Person) = SumFunctionOnSet(f, S)
<1> DEFINE Mine(p) == {y \in S : key[y] = p}
           fiber == [p \in Person |-> SumFunctionOnSet(f, Mine(p))]
<1>1. ASSUME NEW p \in Person
      PROVE  named[p] = fiber[p] /\ fiber[p] \in Int
  <2> DEFINE mine == [x \in Mine(p) |-> f[x]]
  <2>1. named[p] = SumFunctionOnSet(mine, Mine(p))
    BY DEF Named, SumFunction
  <2>2. IsFiniteSet(Mine(p)) /\ \A x \in Mine(p) : mine[x] = f[x] /\ f[x] \in Int
    BY FS_Subset
  <2>3. fiber[p] = SumFunctionOnSet(f, Mine(p))
    OBVIOUS
  <2> HIDE DEF mine, Mine, fiber
  <2> QED
    BY <2>1, <2>2, <2>3, SumSame, SumType
<1>2. SumFunctionOnSet(fiber, Person) = SumFunctionOnSet(f, S)
  BY FiniteAssumption, SumFibers
<1> HIDE DEF fiber
<1> QED
  BY <1>1, <1>2, FiniteAssumption, SumSame

\* What the rows of the group ask of people: nothing is waited for, nothing taken on trust.
LEMMA BalancesAddUp ==
    ASSUME GroupsTypeOK, RowsAreSplit, (LiveExpenses \intersect ClientShares) \union Unsplit = {}
    PROVE  SumFunction([p \in Person |-> Balance(p)])
             \in (-(10 * Cardinality(LiveExpenses \intersect roundedOff)))
                 .. (10 * Cardinality(LiveExpenses \intersect roundedOff))
<1> DEFINE L == LiveExpenses
           paid == [x \in L |-> expenses[x].amount]
           payers == [x \in L |-> expenses[x].payer]
           given == [s \in settlements |-> s.amount]
           givers == [s \in settlements |-> s.from]
           takers == [s \in settlements |-> s.to]
           shares == [e \in Person \X L |-> ShareOf(e[1], SplitsOf(expenses[e[2]]))]
           owing == [x \in L |-> SplitTotal(SplitsOf(expenses[x]))]
           excess == [x \in L |-> paid[x] - owing[x]]
           paidBy == [p \in Person |-> Named(L, paid, payers, p)]
           gaveBy == [p \in Person |-> Named(settlements, given, givers, p)]
           gotBy == [p \in Person |-> Named(settlements, given, takers, p)]
           owedBy == [p \in Person |-> RowSum(shares, p, L)]
           balance == [p \in Person |-> Balance(p)]
           Sum(f) == SumFunctionOnSet(f, Person)
<1>1. IsFiniteSet(L) /\ IsFiniteSet(settlements) /\ IsFiniteSet(Person)
  BY FiniteAssumption, FS_Subset DEF LiveExpenses, RowsAreSplit
<1>2. ASSUME NEW x \in L
      PROVE  /\ SplitsOf(expenses[x]) \in Seq(Split)
             /\ paid[x] \in Int /\ owing[x] \in Int
             /\ IF x \in roundedOff THEN paid[x] - owing[x] \in -10 .. 10 ELSE paid[x] = owing[x]
             /\ payers[x] \in Person
  <2>1. x \in LiveExpenses \ (ClientShares \union Unsplit)
    OBVIOUS
  <2>2. expenses[x] \in ExpenseRow
    BY DEF LiveExpenses, GroupsTypeOK
  <2>3. expenses[x].payer \in Person
    BY <2>2 DEF ExpenseRow
  <2> QED
    BY <2>1, <2>3, ShownSplits DEF Covers
<1>3. \A s \in settlements : given[s] \in Int /\ givers[s] \in Person /\ takers[s] \in Person
  <2>1. \A s \in settlements : s \in Settlement
    BY DEF GroupsTypeOK
  <2>2. \A s \in Settlement : s.amount \in Settled /\ s.from \in Person /\ s.to \in Person
    BY DEF Settlement
  <2>3. \A a \in Settled : a \in Int
    BY SettledAssumption
  <2> QED
    BY <2>1, <2>2, <2>3
<1>4. \A p \in Person, x \in L : shares[<<p, x>>] = ShareOf(p, SplitsOf(expenses[x]))
  OBVIOUS
<1>5. ASSUME NEW p \in Person
      PROVE  balance[p] = (paidBy[p] + gaveBy[p]) - (owedBy[p] + gotBy[p])
  <2>1. PaidBy(p) = paidBy[p] + gaveBy[p]
    <3>1. [x \in {y \in LiveExpenses : expenses[y].payer = p} |-> expenses[x].amount]
            = [x \in {y \in L : payers[y] = p} |-> paid[x]]
      OBVIOUS
    <3>2. [s \in {t \in settlements : t.from = p} |-> s.amount]
            = [s \in {t \in settlements : givers[t] = p} |-> given[s]]
      OBVIOUS
    <3> QED
      BY <3>1, <3>2 DEF PaidBy, Named
  <2>2. OwedBy(p) = owedBy[p] + gotBy[p]
    <3>1. [x \in LiveExpenses |-> ShareOf(p, SplitsOf(expenses[x]))] = [x \in L |-> shares[<<p, x>>]]
      BY <1>4
    <3>2. [s \in {t \in settlements : t.to = p} |-> s.amount]
            = [s \in {t \in settlements : takers[t] = p} |-> given[s]]
      OBVIOUS
    <3>3. SumFunction([x \in L |-> shares[<<p, x>>]]) = owedBy[p]
      BY DEF SumFunction, RowSum
    <3> QED
      BY <3>1, <3>2, <3>3 DEF OwedBy, Named
  <2> HIDE DEF paidBy, gaveBy, owedBy, gotBy
  <2> QED
    BY <2>1, <2>2 DEF Balance
<1>6. \A p \in Person : /\ paidBy[p] = Named(L, paid, payers, p)
                        /\ gaveBy[p] = Named(settlements, given, givers, p)
                        /\ gotBy[p] = Named(settlements, given, takers, p)
  OBVIOUS
<1>7. \A p \in Person, x \in L : shares[<<p, x>>] \in Int
  BY <1>2, <1>4, SharesAddUp
<1>8. ASSUME NEW x \in L PROVE ColumnSum(shares, x, Person) = owing[x]
  <2>1. [p \in Person |-> shares[<<p, x>>]] = [p \in Person |-> ShareOf(p, SplitsOf(expenses[x]))]
    BY <1>4
  <2>2. owing[x] = SplitTotal(SplitsOf(expenses[x]))
    OBVIOUS
  <2> QED
    BY <1>2, <2>1, <2>2, SharesAddUp DEF ColumnSum
<1>9. \A p \in Person : owedBy[p] = RowSum(shares, p, L)
  OBVIOUS
<1>10. SumFunction(balance) = Sum(balance)
  BY DEF SumFunction
<1>11. \A x \in L : excess[x] = paid[x] - owing[x]
  OBVIOUS
<1> HIDE DEF L, paid, payers, given, givers, takers, shares, owing, excess, paidBy, gaveBy, gotBy,
             owedBy, balance
<1>12. (\A p \in Person : paidBy[p] \in Int) /\ Sum(paidBy) = SumFunctionOnSet(paid, L)
  BY <1>1, <1>2, <1>6, TakenTogether
<1>13. (\A p \in Person : gaveBy[p] \in Int) /\ Sum(gaveBy) = SumFunctionOnSet(given, settlements)
  BY <1>1, <1>3, <1>6, TakenTogether
<1>14. (\A p \in Person : gotBy[p] \in Int) /\ Sum(gotBy) = SumFunctionOnSet(given, settlements)
  BY <1>1, <1>3, <1>6, TakenTogether
<1>15. (\A p \in Person : owedBy[p] \in Int) /\ Sum(owedBy) = SumFunctionOnSet(owing, L)
  <2> DEFINE rows == [p \in Person |-> RowSum(shares, p, L)]
             columns == [x \in L |-> ColumnSum(shares, x, Person)]
  <2>1. /\ \A p \in Person : RowSum(shares, p, L) \in Int
        /\ Sum(rows) = SumFunctionOnSet(columns, L)
    BY <1>1, <1>7, SumSwap
  <2>2. \A p \in Person : owedBy[p] = rows[p]
    BY <1>9
  <2>3. \A x \in L : columns[x] = owing[x]
    BY <1>8
  <2>4. \A p \in Person : owedBy[p] \in Int
    BY <1>9, <2>1
  <2> HIDE DEF rows, columns
  <2> QED
    BY <1>1, <2>1, <2>2, <2>3, <2>4, SumSame
<1>16. Sum(balance) = SumFunctionOnSet(paid, L) - SumFunctionOnSet(owing, L)
  <2> DEFINE ins == [p \in Person |-> paidBy[p] + gaveBy[p]]
             outs == [p \in Person |-> owedBy[p] + gotBy[p]]
  <2>1. \A p \in Person : ins[p] = paidBy[p] + gaveBy[p] /\ outs[p] = owedBy[p] + gotBy[p]
    OBVIOUS
  <2> HIDE DEF ins, outs
  <2>2. \A p \in Person : ins[p] \in Int /\ outs[p] \in Int
    BY <1>12, <1>13, <1>14, <1>15, <2>1
  <2>3. \A p \in Person : balance[p] \in Int /\ ins[p] = balance[p] + outs[p]
    BY <1>5, <2>1, <2>2
  <2>4. Sum(ins) = Sum(paidBy) + Sum(gaveBy)
    BY <1>1, <1>12, <1>13, <2>1, SumPlus
  <2>5. Sum(outs) = Sum(owedBy) + Sum(gotBy)
    BY <1>1, <1>14, <1>15, <2>1, SumPlus
  <2>6. Sum(ins) = Sum(balance) + Sum(outs)
    BY <1>1, <2>2, <2>3, SumPlus
  <2>7. Sum(balance) \in Int /\ SumFunctionOnSet(given, settlements) \in Int
    BY <1>1, <1>3, <2>3, SumType
  <2>8. SumFunctionOnSet(paid, L) \in Int /\ SumFunctionOnSet(owing, L) \in Int
    BY <1>1, <1>2, SumType
  <2> QED
    BY <1>12, <1>13, <1>14, <1>15, <2>4, <2>5, <2>6, <2>7, <2>8
<1>17. SumFunctionOnSet(paid, L) = SumFunctionOnSet(excess, L) + SumFunctionOnSet(owing, L)
  BY <1>1, <1>2, <1>11, SumPlus
<1>18. SumFunctionOnSet(excess, L) \in (-(10 * Cardinality(L \intersect roundedOff)))
                                        .. (10 * Cardinality(L \intersect roundedOff))
  <2>1. ASSUME NEW x \in L
        PROVE  /\ excess[x] \in Int
               /\ IF x \in roundedOff THEN excess[x] \in -10 .. 10 ELSE excess[x] = 0
    BY <1>2, <1>11
  <2>2. 10 \in Nat
    OBVIOUS
  <2> QED
    BY <1>1, <2>1, <2>2, SumBound
<1>19. SumFunctionOnSet(excess, L) \in Int /\ SumFunctionOnSet(owing, L) \in Int
  BY <1>1, <1>2, <1>11, SumType
<1>20. Sum(balance) = SumFunctionOnSet(excess, L)
  BY <1>16, <1>17, <1>19
<1> QED
  BY <1>10, <1>18, <1>20 DEF L, balance

\* What the members owe each other cancels out.
THEOREM DebtsCancel == GroupsSpec => []BalancesCancel
<1>1. GroupsTypeOK /\ RowsAreSplit => BalancesCancel
  BY BalancesAddUp DEF BalancesCancel
<1> QED
  BY <1>1, RowsStaySplit, PTL

-----------------------------------------------------------------------------
(* Each component in a run of its own, and NetWorth: MCMoney.  The tables  *)
(* are disjoint, so a run of one of them is a behaviour of each in which   *)
(* the others stutter.                                                     *)

\* A behaviour of all is one of each.
LEMMA EachRuns == MoneySpec => LedgerSpec /\ GoalsSpec /\ LoansSpec /\ GroupsSpec
<1>1. MoneyInit => LedgerInit /\ GoalsInit /\ LoansInit /\ GroupsInit
  BY DEF MoneyInit, WealthInit
<1>2. [MoneyNext]_moneyVars => [LedgerNext]_ledgerVars
  BY DEF MoneyNext, moneyVars, WealthNext, wealthVars
<1>3. [MoneyNext]_moneyVars => [GoalsNext]_goalVars
  BY DEF MoneyNext, moneyVars, WealthNext, wealthVars
<1>4. [MoneyNext]_moneyVars => [LoansNext]_loanVars
  BY DEF MoneyNext, moneyVars, WealthNext, wealthVars
<1>5. [MoneyNext]_moneyVars => [GroupsNext]_groupVars
  BY DEF MoneyNext, moneyVars
<1> QED
  BY <1>1, <1>2, <1>3, <1>4, <1>5, PTL DEF MoneySpec, LedgerSpec, GoalsSpec, LoansSpec, GroupsSpec

\* What NetWorth keeps of its own: it changes only in a run of all together.
OwnTypeOK ==
    /\ holdings \in [Holding -> HoldingRow]
    /\ totals \in [{"cards", "cash"} -> Worth]
    /\ reader \in Reader
    /\ snapshot \in Snapshot
    /\ commits \in 0 .. MaxCommits

\* With all together goes everything that is known of it.
WealthRunsAlone == IF part = "wealth" THEN WealthInv ELSE OwnTypeOK

\* In every run these have their types: the invariant of the composition where it runs, what
\* was there at first elsewhere.
LEMMA OwnTypeInEveryRun == MoneySpec => []OwnTypeOK
<1>1. WealthInv => OwnTypeOK
  BY DEF WealthInv, WealthIsSound, WealthIsKept, BooksAreMirrored, ReaderTypeOK, OwnTypeOK
<1>2. MoneyInit => WealthRunsAlone
  BY <1>1, WealthInvInit DEF MoneyInit, WealthRunsAlone
<1>3. WealthRunsAlone /\ [MoneyNext]_moneyVars => WealthRunsAlone'
  <2> SUFFICES ASSUME WealthRunsAlone, [MoneyNext]_moneyVars
               PROVE  WealthRunsAlone'
    OBVIOUS
  <2>1. part' = part
    BY DEF MoneyNext, moneyVars
  <2>2. CASE part = "wealth"
    <3>1. [WealthNext]_wealthVars
      BY <2>2 DEF MoneyNext, moneyVars
    <3>2. WealthInv'
      BY <2>2, <3>1, WealthInvStep DEF WealthRunsAlone
    <3> QED
      BY <2>1, <2>2, <3>2 DEF WealthRunsAlone
  <2>3. CASE part # "wealth"
    <3>1. UNCHANGED wealthOnly
      BY <2>3 DEF MoneyNext, moneyVars, wealthVars, wealthOnly
    <3> QED
      BY <2>1, <2>3, <3>1 DEF WealthRunsAlone, OwnTypeOK, wealthOnly
  <2> QED
    BY <2>2, <2>3
<1>4. WealthRunsAlone => OwnTypeOK
  BY <1>1 DEF WealthRunsAlone
<1> QED
  BY <1>2, <1>3, <1>4, PTL DEF MoneySpec

\* Every run keeps the types of every table.
THEOREM MoneyTypesHold == MoneySpec => []MoneyTypeOK
<1>1. LedgerTypeOK /\ GoalsTypeOK /\ LoansTypeOK /\ OwnTypeOK /\ GroupsTypeOK => MoneyTypeOK
  BY DEF MoneyTypeOK, WealthTypeOK, OwnTypeOK
<1> QED
  BY <1>1, EachRuns, LedgerTypeCorrect, GoalsTypeCorrect, LoansTypeCorrect, GroupsTypeCorrect,
     OwnTypeInEveryRun, PTL
=============================================================================
