-------------------------------- MODULE Cards --------------------------------
(***************************************************************************)
(* Credit cards, the transactions recorded for them, and what both         *)
(* contribute to net worth: app/api/v1/cards/service.py and the cash       *)
(* filter of app/api/v1/transactions/repository.py.                        *)
(*                                                                         *)
(* A request reads the card, checks its guard and computes the new row and *)
(* the transaction (one step), and later commits both.  Requests of other  *)
(* devices commit in between.                                              *)
(*                                                                         *)
(* Amounts are in tenths of a paisa (UnitOfWork): requests name any        *)
(* amount, rows keep whole paise.  Days, categories and accounts are left  *)
(* out.  Of a note all that matters is whether it says "payment", and of   *)
(* the card's bank and name, which default notes quote, the same.          *)
(***************************************************************************)
EXTENDS Integers, FiniteSets, UnitOfWork, FiniteSetsExt

CONSTANTS
    Card,       \* ids of credit cards
    Client,     \* devices of the user, each with at most one request in flight
    Limits,     \* credit limits a request may set
    Amounts,    \* amounts a request may carry
    CardNamed,  \* may the bank and name of a card say "payment"?
    CustomNote, \* does a note the user types say "payment"?  {} if none are typed
    MaxEntries  \* bound: transactions a run records

ASSUME LimitsAssumption == Limits \subseteq Nat \ {0}
ASSUME AmountsAssumption == Amounts \subseteq Nat \ {0}
ASSUME NotesAssumption == CustomNote \subseteq BOOLEAN /\ CardNamed \subseteq BOOLEAN
ASSUME MaxEntriesAssumption == MaxEntries \in Nat

VARIABLES
    cards,      \* table credit_cards: id -> row
    entries,    \* transactions with a card_id
    req,        \* client -> its request in flight
    adjusted,   \* history: card -> sum of what create and update put on outstanding
    raced       \* history: cards a commit found changed since its request read them

vars == <<cards, entries, req, adjusted, raced>>

CardRow == [status : {"absent", "live", "deleted"}, limit : Nat, outstanding : Int,
            named : BOOLEAN]

\* A transaction of a card.  It has no column for its kind (history): only the note
\* tells a payment from a spend.  `asked` (history) is the amount the request named.
Entry == [id : 1 .. MaxEntries, card : Card, kind : {"spend", "payment"}, asked : Nat,
          amount : Nat, saysPayment : BOOLEAN, live : BOOLEAN]

Idle == [op |-> "idle"]
UpdateRequest == [op : {"update"}, card : Card, loaded : CardRow, computed : CardRow]
MoneyRequest == [op : {"spend", "payment"}, card : Card, loaded : CardRow,
                 computed : CardRow, entry : Entry]

TypeOK ==
    /\ cards \in [Card -> CardRow]
    /\ entries \subseteq Entry
    /\ req \in [Client -> {Idle} \union UpdateRequest \union MoneyRequest]
    /\ adjusted \in [Card -> Int]
    /\ raced \subseteq Card

Init ==
    /\ cards = [k \in Card |-> [status |-> "absent", limit |-> 0, outstanding |-> 0,
                              named |-> FALSE]]
    /\ entries = {}
    /\ req = [c \in Client |-> Idle]
    /\ adjusted = [k \in Card |-> 0]
    /\ raced = {}

-----------------------------------------------------------------------------
(* What the requests compute.                                              *)

Live(k) == cards[k].status = "live"

\* The id of a transaction in flight is taken already; any other free one will do.
TakenIds == {e.id : e \in entries} \union
            {req[c].entry.id : c \in {d \in Client : req[d].op \in {"spend", "payment"}}}
FreeIds == {n \in 1 .. MaxEntries : n \notin TakenIds}
NewIds == {n \in FreeIds : \A other \in FreeIds : n <= other}

\* The default note quotes the card, and ends in "payment" or "spend"; a note the user
\* typed may say anything.
Notes(kind, row) == {kind = "payment" \/ row.named} \union CustomNote

\* A row with its amounts as the columns keep them.
Kept(row) == [row EXCEPT !.limit = Stored(@), !.outstanding = Stored(@)]

\* Mutation of Allowed: nothing is refused.
Allowed_Anything(kind, row, amount) == TRUE

\* The guards of record_payment and record_spend.
Allowed(kind, row, amount) ==
    IF kind = "payment" THEN amount <= row.outstanding
                        ELSE row.outstanding + amount <= row.limit

\* Mutation of Moved: a payment is recorded but not taken off.
Moved_SpendOnly(kind, row, amount) ==
    [row EXCEPT !.outstanding = IF kind = "payment" THEN @ ELSE @ + amount]

\* Mutation of Moved: a payment frees the limit, not the outstanding amount.
Moved_Limit(kind, row, amount) ==
    IF kind = "payment" THEN [row EXCEPT !.limit = @ - amount]
                        ELSE [row EXCEPT !.outstanding = @ + amount]

\* The row once the money has moved.
Moved(kind, row, amount) ==
    [row EXCEPT !.outstanding = IF kind = "payment" THEN @ - amount ELSE @ + amount]

-----------------------------------------------------------------------------
(* Requests.                                                               *)

\* create_card.
CreateCard(k, limit, outstanding, named) ==
    /\ cards[k].status = "absent"
    /\ outstanding <= limit
    /\ cards' = [cards EXCEPT ![k] = Kept(
         [status |-> "live", limit |-> limit, outstanding |-> outstanding, named |-> named])]
    /\ adjusted' = [adjusted EXCEPT ![k] = Stored(outstanding)]
    /\ UNCHANGED <<entries, req, raced>>

\* delete_card: the transactions of the card stay.
DeleteCard(k) ==
    /\ Live(k)
    /\ cards' = [cards EXCEPT ![k].status = "deleted"]
    /\ UNCHANGED <<entries, req, adjusted, raced>>

\* Mutation of Fits: the final check of update_card is dropped.
Fits_Always(row) == TRUE

\* The final check of update_card, on the row as loaded and edited.
Fits(row) == row.outstanding <= row.limit

\* update_card with a payload that sets some of the limit, the outstanding amount and
\* the name (a column set to the value it had is a column not set).
LoadForUpdate(c, k, limit, outstanding, named) ==
    /\ req[c].op = "idle"
    /\ Live(k)
    /\ LET edited == [cards[k] EXCEPT !.limit = limit, !.outstanding = outstanding,
                                      !.named = named] IN
         /\ Fits(edited)
         /\ req' = [req EXCEPT ![c] =
              [op |-> "update", card |-> k, loaded |-> cards[k], computed |-> edited]]
    /\ UNCHANGED <<cards, entries, adjusted, raced>>

\* record_spend and record_payment up to their guard.
LoadForMoney(c, kind, k, amount, says) ==
    /\ req[c].op = "idle"
    /\ Live(k)
    /\ Allowed(kind, cards[k], amount)
    /\ \E id \in NewIds :
         req' = [req EXCEPT ![c] =
           [op |-> kind, card |-> k, loaded |-> cards[k],
            computed |-> Moved(kind, cards[k], amount),
            entry |-> [id |-> id, card |-> k, kind |-> kind, asked |-> amount,
                       amount |-> Stored(amount), saysPayment |-> says, live |-> TRUE]]]
    /\ UNCHANGED <<cards, entries, adjusted, raced>>

\* The flush and commit of a request: its row and, if it moves money, its entry.
WriteCard(c) ==
    /\ cards' = [cards EXCEPT ![req[c].card] =
                            Kept(Flush(@, req[c].loaded, req[c].computed))]
    /\ raced' = IF cards[req[c].card] = req[c].loaded THEN raced
                                                     ELSE raced \union {req[c].card}
    /\ req' = [req EXCEPT ![c] = Idle]

CommitUpdate(c) ==
    /\ req[c].op = "update"
    /\ WriteCard(c)
    /\ adjusted' =
         IF req[c].card \in raced' THEN adjusted
         ELSE [adjusted EXCEPT ![req[c].card] =
                 @ + (Stored(req[c].computed.outstanding) - req[c].loaded.outstanding)]
    /\ UNCHANGED entries

CommitMoney(c) ==
    /\ req[c].op \in {"spend", "payment"}
    /\ WriteCard(c)
    /\ entries' = entries \union {req[c].entry}
    /\ UNCHANGED adjusted

\* get_session rolls a failing request back: row and entry go together.
RollBack(c) ==
    /\ req[c].op # "idle"
    /\ req' = [req EXCEPT ![c] = Idle]
    /\ UNCHANGED <<cards, entries, adjusted, raced>>

\* DELETE /transactions/{id} on a transaction of a card: the card is not told.
DeleteEntry(e) ==
    /\ e \in entries
    /\ e.live
    /\ entries' = (entries \ {e}) \union {[e EXCEPT !.live = FALSE]}
    /\ UNCHANGED <<cards, req, adjusted, raced>>

\* PATCH /transactions/{id} on a transaction of a card, of the columns that matter here:
\* the amount, the note, or both.  What it writes depends on no read, and the card is
\* not told.
UpdateEntry(e, amount, says) ==
    /\ e \in entries
    /\ e.live
    /\ entries' = (entries \ {e}) \union
         {[e EXCEPT !.amount = Stored(amount), !.saysPayment = says]}
    /\ UNCHANGED <<cards, req, adjusted, raced>>

-----------------------------------------------------------------------------
Next ==
    \/ \E k \in Card, l \in Limits, o \in Amounts \union {0}, n \in CardNamed :
         CreateCard(k, l, o, n)
    \/ \E k \in Card : DeleteCard(k)
    \/ \E c \in Client, k \in Card, n \in CardNamed :
         \E l \in Limits \union {cards[k].limit},
            o \in Amounts \union {0, cards[k].outstanding} : LoadForUpdate(c, k, l, o, n)
    \/ \E c \in Client, kind \in {"spend", "payment"}, k \in Card, a \in Amounts :
         \E says \in Notes(kind, cards[k]) : LoadForMoney(c, kind, k, a, says)
    \/ \E c \in Client : CommitUpdate(c)
    \/ \E c \in Client : CommitMoney(c)
    \/ \E c \in Client : RollBack(c)
    \/ \E e \in entries : DeleteEntry(e)
    \/ \E e \in entries : \E a \in Amounts \union {e.amount},
                           says \in CustomNote \union {e.saysPayment} : UpdateEntry(e, a, says)

Spec == Init /\ [][Next]_vars

-----------------------------------------------------------------------------
(* What the rows add up to.                                                *)

Total(es) == SumFunction([e \in es |-> e.amount])

\* Mutation of CashRelevant: every transaction of a card counts.
CashRelevant_All(e) == e.live

\* _cash_relevant_filter on a transaction of a card.
CashRelevant(e) == e.live /\ e.saysPayment

\* The part of _compute_totals that cards contribute: the cash that left, and the
\* outstanding amounts of the cards that list_by_user returns.
NetWorth ==
    0 - Total({e \in entries : CashRelevant(e)})
      - SumFunction([k \in {j \in Card : Live(j)} |-> cards[k].outstanding])

-----------------------------------------------------------------------------
(* Properties.                                                             *)

\* A card never owes a negative amount, however payments, spends and edits of
\* several devices interleave: each writes an amount it found not negative
\* (record_payment refuses more than is outstanding).
NeverOverpaid == \A k \in Card : cards[k].outstanding >= 0

\* NeverOverpaid with the requests in flight, which is what makes it inductive.
NothingNegative ==
    /\ NeverOverpaid
    /\ \A c \in Client : req[c].op # "idle" =>
         req[c].loaded.outstanding >= 0 /\ req[c].computed.outstanding >= 0

\* "Outstanding cannot exceed credit limit", unless two requests overlapped.
WithinLimit ==
    \A k \in Card \ raced : cards[k].outstanding <= cards[k].limit

\* A request that names a half paisa: where a payment of 0.5 paise is booked as a whole
\* one, it leaves the card as it was.
HalfPaisa(e) == IF e.kind = "payment" /\ e.asked % 10 = 5 THEN 10 ELSE 0

\* What a transaction, as recorded, moved the outstanding amount of its card by.
Charged(e) == IF e.kind = "spend" THEN Stored(e.asked) ELSE HalfPaisa(e) - Stored(e.asked)

\* What a card owes is what was spent on it and not paid back, in the whole paise the
\* transactions were booked with, from the amount the user set: unless two requests
\* overlapped, and but for one paisa of every payment that named half of one.  (Neither
\* deleting nor editing a transaction undoes its move.)
BooksAgree ==
    \A k \in Card \ raced :
        cards[k].outstanding =
            adjusted[k] + SumFunction([e \in {x \in entries : x.card = k} |-> Charged(e)])

\* What a commit that nothing overlapped should do to net worth: a spend lowers it once,
\* when it is made, and paying it back moves it by no more than the half paisa.
HitsOnce(r) ==
    NetWorth' = NetWorth - (IF r.op = "spend" THEN r.entry.amount ELSE HalfPaisa(r.entry))

\* "otherwise net worth is hit twice": with a note that tells a payment from a spend, a
\* spend lowers net worth once and paying it back does not, whatever has happened to the
\* card and its transactions before.
PayingBackIsNeutral ==
    [][\A c \in Client :
         /\ CommitMoney(c)
         /\ cards[req[c].card] = req[c].loaded
         /\ req[c].entry.saysPayment <=> req[c].op = "payment"
         => HitsOnce(req[c])]_vars

\* The same as the comment states it, of every spend and payment.
NetWorthHitOnce ==
    [][\A c \in Client :
         CommitMoney(c) /\ cards[req[c].card] = req[c].loaded => HitsOnce(req[c])]_vars
=============================================================================
