------------------------------- MODULE NetWorth -------------------------------
(***************************************************************************)
(* The user's net worth (api/v1/net_worth), which adds up what seven       *)
(* queries find: investments and assets (modelled here), goals, loans,     *)
(* cards, cash and people.  The queries of one request see what others     *)
(* committed in between (READ COMMITTED), so this module composes the      *)
(* reader with the components it reads from.                               *)
(*                                                                         *)
(* What cards are owed, and the cash of transactions that mirror no ledger *)
(* entry, are totals that change at will: Cards and PaidToggles say how.   *)
(***************************************************************************)
EXTENDS Ledger, Goals, Loans, Sequences

CONSTANTS
    Holding,        \* ids of investments and assets
    Worth,          \* values a request may name, as the columns keep them, and that totals may
                    \* take
    MaxCommits      \* bound: commits of a run

ASSUME WorthAssumption == Worth \subseteq Nat /\ 0 \in Worth /\ MaxCommits \in Nat
ASSUME TablesAreFinite ==
    \A ids \in {Client, LedgerEntry, Goal, Loan, Holding} : IsFiniteSet(ids)

VARIABLES
    holdings,       \* tables investments and assets: id -> row
    totals,         \* what cards are owed, and the cash of other transactions
    reader,         \* a request that adds up the net worth
    snapshot,       \* the latest row of net_worth_snapshots, with the reader's history
    commits         \* history: commits so far

wealthVars == <<ledgerVars, goalVars, loanVars, holdings, totals, reader, snapshot, commits>>

\* In the order of the queries.
Source == <<"investments", "assets", "goals", "loans", "cards", "cash", "people">>

HoldingRow == [status : {"absent", "live", "deleted"}, kind : {"investments", "assets"}, value : Worth]
\* assets and liabilities: added up so far; begin: the net worth when it began; changes:
\* changes of a source since then.
Reader == [done : 0 .. Len(Source), assets : Int, liabilities : Int, begin : Int, changes : Nat]
Snapshot == [stored : BOOLEAN, worth : Int, begin : Int, end : Int, changes : Nat]

Idle == [done |-> 0, assets |-> 0, liabilities |-> 0, begin |-> 0, changes |-> 0]
NoSnapshot == [stored |-> FALSE, worth |-> 0, begin |-> 0, end |-> 0, changes |-> 0]

WealthTypeOK ==
    /\ LedgerTypeOK /\ GoalsTypeOK /\ LoansTypeOK
    /\ holdings \in [Holding -> HoldingRow]
    /\ totals \in [{"cards", "cash"} -> Worth]
    /\ reader \in Reader
    /\ snapshot \in Snapshot
    /\ commits \in 0 .. MaxCommits

WealthInit ==
    /\ LedgerInit /\ GoalsInit /\ LoansInit
    /\ holdings = [h \in Holding |-> [status |-> "absent", kind |-> "assets", value |-> 0]]
    /\ totals = [t \in {"cards", "cash"} |-> 0]
    /\ reader = Idle
    /\ snapshot = NoSnapshot
    /\ commits = 0

-----------------------------------------------------------------------------
(* What the queries find.                                                  *)

LiveHoldings == {h \in Holding : holdings[h].status = "live"}

SumOfHoldings(kind) ==
    SumFunction([h \in {g \in LiveHoldings : holdings[g].kind = kind} |-> holdings[h].value])

\* get_all_time_totals: income less expenses.
CashTotal == totals["cash"] + SumFunction([e \in LedgerEntry |-> CashEffect(e)])

\* list_people_balances.
PeopleTotal == SumFunction([e \in LiveEntries |-> Receivable(entries[e])])

Found(source) ==
    CASE source \in {"investments", "assets"} -> SumOfHoldings(source)
      [] source = "goals"  -> SumFunction([g \in LiveGoals |-> goals[g].saved])
      [] source = "loans"  -> SumFunction([l \in LiveLoans |-> loans[l].outstanding])
      [] source = "cards"  -> totals["cards"]
      [] source = "cash"   -> CashTotal
      [] source = "people" -> PeopleTotal

\* Mutation of IsLiability: what people are owed counts among the liabilities, too.
IsLiability_People(source) == source \in {"loans", "cards", "people"}

IsLiability(source) == source \in {"loans", "cards"}

-----------------------------------------------------------------------------
(* Steps that change what there is to read.                                *)

\* Bound: one request that writes is in flight at a time; it is the reader that they race.
OneWriter == Cardinality({c \in Client : {ledgerReq[c], goalReq[c], loanReq[c]} # {NoRequest}}) <= 1
             /\ \A c \in Client : Cardinality({ledgerReq[c], goalReq[c], loanReq[c]} \ {NoRequest}) <= 1

Changed == {source \in {Source[i] : i \in DOMAIN Source} : Found(source)' # Found(source)}

Tables == <<entries, cash, goals, loans, holdings, totals>>

\* Every writing step counts the sources it changes while the reader is at work.
CountChanges ==
    /\ OneWriter'
    /\ commits < MaxCommits
    /\ commits' = commits + (IF UNCHANGED Tables THEN 0 ELSE 1)
    /\ reader' = IF reader.done = 0 THEN reader ELSE [reader EXCEPT !.changes = @ + Cardinality(Changed)]
    /\ UNCHANGED snapshot

\* create_, update_ and delete_ of investments and assets, and update_value: they write
\* what the request says, whatever the row says.
SaveHolding(h, kind, value) ==
    /\ holdings[h].status = "absent" \/ (holdings[h].status = "live" /\ holdings[h].kind = kind)
    /\ holdings' = [holdings EXCEPT ![h] = [status |-> "live", kind |-> kind, value |-> value]]
    /\ UNCHANGED totals

DeleteHolding(h) ==
    /\ holdings[h].status = "live"
    /\ holdings' = [holdings EXCEPT ![h].status = "deleted"]
    /\ UNCHANGED totals

ChangeTotal(t, value) ==
    /\ totals[t] # value
    /\ totals' = [totals EXCEPT ![t] = value]
    /\ UNCHANGED holdings

-----------------------------------------------------------------------------
(* The reader.                                                             *)

\* What the user has: what is owned and saved, less what is owed.  Lending and borrowing
\* move money without making any (CashMirrorsEntries), but for entries whose cash someone
\* changed by hand.
NetWorthNow ==
    SumFunction([h \in LiveHoldings |-> holdings[h].value])
      + SumFunction([g \in LiveGoals |-> goals[g].saved])
      + totals["cash"] - totals["cards"]
      - SumFunction([l \in LiveLoans |-> loans[l].outstanding])
      + SumFunction([e \in cashTouched |->
                        CashEffect(e) + (IF e \in LiveEntries THEN Receivable(entries[e]) ELSE 0)])

\* _compute_totals, one query further.
WithNext ==
    LET source == Source[reader.done + 1] IN
    [reader EXCEPT
        !.done        = @ + 1,
        !.begin       = IF reader.done = 0 THEN NetWorthNow ELSE @,
        !.assets      = IF IsLiability(source) THEN @ ELSE @ + Found(source),
        !.liabilities = IF IsLiability(source) THEN @ + Found(source) ELSE @]

ReadSource ==
    /\ reader.done + 1 < Len(Source)
    /\ reader' = WithNext
    /\ UNCHANGED snapshot

\* The last query; create_snapshot then stores the row.  (get_current stores nothing.)
StoreSnapshot ==
    /\ reader.done + 1 = Len(Source)
    /\ snapshot' = [stored |-> TRUE, worth |-> WithNext.assets - WithNext.liabilities,
                    begin |-> reader.begin, end |-> NetWorthNow, changes |-> reader.changes]
    /\ reader' = Idle

-----------------------------------------------------------------------------
\* Bound: a run stores one snapshot.
WealthNext ==
    /\ snapshot = NoSnapshot
    /\ \/ LedgerNext /\ UNCHANGED <<goalVars, loanVars, holdings, totals>> /\ CountChanges
       \/ GoalsNext /\ UNCHANGED <<ledgerVars, loanVars, holdings, totals>> /\ CountChanges
       \/ LoansNext /\ UNCHANGED <<ledgerVars, goalVars, holdings, totals>> /\ CountChanges
       \/ /\ \/ \E h \in Holding, kind \in {"investments", "assets"}, value \in Worth : SaveHolding(h, kind, value)
             \/ \E h \in Holding : DeleteHolding(h)
             \/ \E t \in {"cards", "cash"}, value \in Worth : ChangeTotal(t, value)
          /\ UNCHANGED <<ledgerVars, goalVars, loanVars>>
          /\ CountChanges
       \/ /\ ReadSource \/ StoreSnapshot
          /\ UNCHANGED <<ledgerVars, goalVars, loanVars, holdings, totals, commits>>

WealthSpec == WealthInit /\ [][WealthNext]_wealthVars

-----------------------------------------------------------------------------
(* Properties.                                                             *)

\* A stored net worth is one the user had, when the request began or when it ended: money
\* lent, saved or owed is counted once and with its sign.  That is so if one source at most
\* changed while they were read; lending money changes two, and a reader in between
\* stores a net worth the user never had.
SnapshotsAreReal == snapshot.changes <= 1 => snapshot.worth \in {snapshot.begin, snapshot.end}
=============================================================================
