------------------------------- MODULE Ledger -------------------------------
(***************************************************************************)
(* Money lent to and borrowed from people (api/v1/ledger).  Every entry is *)
(* mirrored by a cash transaction that is linked to it: recorded with the  *)
(* entry, rebuilt when the entry is edited, removed with it, and recorded  *)
(* by GET /ledger if it is missing.  The transaction endpoints may change  *)
(* or delete a cash transaction without asking the ledger.                 *)
(*                                                                         *)
(* People, dates and notes are left out: no decision depends on them.      *)
(***************************************************************************)
EXTENDS Requests

CONSTANTS
    LedgerEntry,    \* ids of entries
    LedgerAmount,   \* amounts a request may name, as the columns keep them: an entry's and
                    \* its cash's are alike, and round the same number the same way
    LastCash        \* bound: cash transactions at a time

ASSUME LedgerAmountAssumption == LedgerAmount \subseteq Nat \ {0}
ASSUME LastCashAssumption == LastCash \in Nat

VARIABLES
    entries,        \* table ledger_entries: id -> row
    cash,           \* transactions with a ledger_entry_id that are not deleted
    ledgerReq,      \* client -> its request in flight
    ledgerRaced,    \* history: entries that two requests were about at once
    cashTouched     \* history: entries whose cash the transaction endpoints changed since
                    \* it was last rebuilt

ledgerVars == <<entries, cash, ledgerReq, ledgerRaced, cashTouched>>

Direction == {"lent", "repaid", "borrowed", "received"}

LedgerRow == [status : {"absent", "live", "deleted"}, direction : Direction, amount : Nat]
CashRow == [id : 1 .. LastCash, entry : LedgerEntry, type : {"expense", "income"}, amount : Nat]

LedgerUpdate == [op : {"update"}, entry : LedgerEntry, loaded : LedgerRow, computed : LedgerRow]
LedgerDelete == [op : {"delete"}, entry : LedgerEntry, found : SUBSET CashRow]
LedgerList == [op : {"list"}, missing : SUBSET LedgerEntry, loaded : [LedgerEntry -> LedgerRow]]

LedgerTypeOK ==
    /\ entries \in [LedgerEntry -> LedgerRow]
    /\ cash \subseteq CashRow
    /\ ledgerReq \in [Client -> {NoRequest} \union LedgerUpdate \union LedgerDelete \union LedgerList]
    /\ ledgerRaced \subseteq LedgerEntry
    /\ cashTouched \subseteq LedgerEntry

LedgerInit ==
    /\ entries = [e \in LedgerEntry |-> [status |-> "absent", direction |-> "lent", amount |-> 0]]
    /\ cash = {}
    /\ ledgerReq = [c \in Client |-> NoRequest]
    /\ ledgerRaced = {}
    /\ cashTouched = {}

-----------------------------------------------------------------------------
(* Entries and their cash.                                                 *)

LiveEntries == {e \in LedgerEntry : entries[e].status = "live"}

\* Mutation of CashType: the entry's direction is stored as it is.
CashType_Direction(direction) == direction

\* Lending and repaying take money out of the wallet, the others put some in.
CashType(direction) == IF direction \in {"lent", "repaid"} THEN "expense" ELSE "income"

\* The cash transactions an entry has in `rows`.
CashOf(e, rows) == {t \in rows : t.entry = e}

\* find_transaction_for_ledger_entry: the latest.  Of two, which one that is depends on
\* when their requests began, and is left open.
FoundCash(e, rows) == AnyOf(CashOf(e, rows))

Without(rows, found) == {t \in rows : \A f \in found : f.id # t.id}

\* Ids that no row has, nor a request that would remove it.
FreeCashIds(rows) ==
    {id \in 1 .. LastCash :
        /\ \A t \in rows : t.id # id
        /\ \A c \in Client : ledgerReq[c].op = "delete" => \A t \in ledgerReq[c].found : t.id # id}

\* _ensure_cash_transaction: nothing if the entry has one, else what the row asks for.
Ensured(e, row, rows) ==
    IF CashOf(e, rows) # {} THEN {rows}
    ELSE {rows \union {[id |-> id, entry |-> e, type |-> CashType(row.direction),
                        amount |-> row.amount]} :
            id \in {n \in FreeCashIds(rows) : \A m \in FreeCashIds(rows) : n <= m}}

-----------------------------------------------------------------------------
(* Requests.                                                               *)

\* The entries that a request is about.
ConcernedBy(r) ==
    CASE r.op = "none" -> {}
      [] r.op = "list" -> r.missing
      [] OTHER -> {r.entry}

\* The end of a request of `c` about the entries `es`.
EndLedger(c, es) ==
    /\ ledgerReq' = [ledgerReq EXCEPT ![c] = NoRequest]
    /\ ledgerRaced' = ledgerRaced \union
         (es \intersect UNION {ConcernedBy(ledgerReq[d]) : d \in Client \ {c}})

\* create_entry: nobody sees the row before its cash.
CreateEntry(e, direction, amount) ==
    LET row == [status |-> "live", direction |-> direction, amount |-> amount] IN
    /\ entries[e].status = "absent"
    /\ entries' = [entries EXCEPT ![e] = row]
    /\ cash' \in Ensured(e, row, cash)
    /\ UNCHANGED <<ledgerReq, ledgerRaced, cashTouched>>

\* update_entry reads the row.  A payload that changes nothing is left out.
LoadEntryUpdate(c, e, direction, amount) ==
    LET computed == [entries[e] EXCEPT !.direction = direction, !.amount = amount] IN
    /\ ledgerReq[c] = NoRequest
    /\ e \in LiveEntries
    /\ computed # entries[e]
    /\ ledgerReq' = [ledgerReq EXCEPT ![c] =
         [op |-> "update", entry |-> e, loaded |-> entries[e], computed |-> computed]]
    /\ UNCHANGED <<entries, cash, ledgerRaced, cashTouched>>

\* Mutation of Rebuilt: the old transaction is kept.
Rebuilt_Kept(e, row) == Ensured(e, row, cash)

\* The cash of an edited entry: what is found goes, and one is recorded if that was all.
Rebuilt(e, row) == UNION {Ensured(e, row, Without(cash, found)) : found \in FoundCash(e, cash)}

\* Its flush locks the row until the commit, and the rest sees what others committed
\* before that: the flush, the rebuilding and the commit are one step.
CommitEntryUpdate(c) ==
    LET r == ledgerReq[c] IN
    /\ r.op = "update"
    /\ entries' = [entries EXCEPT ![r.entry] = Flush(@, r.loaded, r.computed)]
    /\ cash' \in Rebuilt(r.entry, r.computed)
    /\ EndLedger(c, {r.entry})
    /\ cashTouched' = cashTouched \ {r.entry}

\* delete_entry reads the row and finds its cash.
LoadEntryDelete(c, e) ==
    /\ ledgerReq[c] = NoRequest
    /\ e \in LiveEntries
    /\ \E found \in FoundCash(e, cash) :
         ledgerReq' = [ledgerReq EXCEPT ![c] = [op |-> "delete", entry |-> e, found |-> found]]
    /\ UNCHANGED <<entries, cash, ledgerRaced, cashTouched>>

CommitEntryDelete(c) ==
    LET r == ledgerReq[c] IN
    /\ r.op = "delete"
    /\ entries' = [entries EXCEPT ![r.entry].status = "deleted"]
    /\ cash' = Without(cash, r.found)
    /\ EndLedger(c, {r.entry})
    /\ UNCHANGED cashTouched

\* GET /ledger reads the entries and finds which have no cash.  One that finds none
\* missing writes nothing and is left out.
LoadEntries(c) ==
    LET missing == {e \in LiveEntries : CashOf(e, cash) = {}} IN
    /\ ledgerReq[c] = NoRequest
    /\ missing # {}
    /\ ledgerReq' = [ledgerReq EXCEPT ![c] = [op |-> "list", missing |-> missing, loaded |-> entries]]
    /\ UNCHANGED <<entries, cash, ledgerRaced, cashTouched>>

\* The backfill.
CommitBackfill(c) ==
    LET r == ledgerReq[c] IN
    /\ r.op = "list"
    /\ \E id \in [r.missing -> 1 .. LastCash] :
         /\ \A e \in r.missing : \A f \in r.missing \ {e} : id[e] # id[f]
         /\ \A e \in r.missing : id[e] \in FreeCashIds(cash)
         /\ cash' = cash \union
              {[id |-> id[e], entry |-> e, type |-> CashType(r.loaded[e].direction),
                amount |-> r.loaded[e].amount] : e \in r.missing}
    /\ EndLedger(c, r.missing)
    /\ cashTouched' = cashTouched \ r.missing
    /\ UNCHANGED entries

RollBackLedger(c) ==
    /\ ledgerReq[c] # NoRequest
    /\ ledgerReq' = [ledgerReq EXCEPT ![c] = NoRequest]
    /\ UNCHANGED <<entries, cash, ledgerRaced, cashTouched>>

\* DELETE and PATCH /transactions/{id}: the type stays what it is.
DeleteCash(t) ==
    /\ t \in cash
    /\ cash' = Without(cash, {t})
    /\ cashTouched' = cashTouched \union {t.entry}
    /\ UNCHANGED <<entries, ledgerReq, ledgerRaced>>

EditCash(t, amount) ==
    /\ t \in cash
    /\ amount # t.amount
    /\ cash' = (cash \ {t}) \union {[t EXCEPT !.amount = amount]}
    /\ cashTouched' = cashTouched \union {t.entry}
    /\ UNCHANGED <<entries, ledgerReq, ledgerRaced>>

-----------------------------------------------------------------------------
LedgerNext ==
    \/ \E e \in LedgerEntry, d \in Direction, a \in LedgerAmount : CreateEntry(e, d, a)
    \/ \E c \in Client, e \in LedgerEntry, d \in Direction, a \in LedgerAmount :
         LoadEntryUpdate(c, e, d, a)
    \/ \E c \in Client, e \in LedgerEntry : LoadEntryDelete(c, e)
    \/ \E c \in Client : \/ CommitEntryUpdate(c)
                         \/ CommitEntryDelete(c)
                         \/ LoadEntries(c)
                         \/ CommitBackfill(c)
                         \/ RollBackLedger(c)
    \/ \E t \in cash : DeleteCash(t)
    \/ \E t \in cash, a \in LedgerAmount : EditCash(t, a)

LedgerSpec == LedgerInit /\ [][LedgerNext]_ledgerVars

-----------------------------------------------------------------------------
(* Properties.                                                             *)

\* What the person owes the user by an entry.
Receivable(row) == IF row.direction \in {"lent", "repaid"} THEN row.amount ELSE -row.amount

\* What its cash transactions did to the wallet.
CashEffect(e) ==
    SumFunction([t \in CashOf(e, cash) |-> IF t.type = "income" THEN t.amount ELSE -t.amount])

\* Lending is not spending: what an entry says a person owes is what left the wallet, and
\* a deleted entry leaves nothing in the books.  But for requests about the same entry
\* that overlapped; what the user does to the transaction itself lasts until the entry is
\* edited or the backfill finds it gone.  However often the backfill runs, and whatever the
\* transaction endpoints do, no entry has two cash transactions.
CashMirrorsEntries ==
    \A e \in LedgerEntry \ ledgerRaced :
        /\ Cardinality(CashOf(e, cash)) <= 1
        /\ e \notin cashTouched =>
             CashEffect(e) = -(IF e \in LiveEntries THEN Receivable(entries[e]) ELSE 0)
=============================================================================
