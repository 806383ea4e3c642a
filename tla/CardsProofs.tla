----------------------------- MODULE CardsProofs -----------------------------
(***************************************************************************)
(* Proofs about Cards for any cards, devices, limits and amounts: type     *)
(* correctness, that no card ever owes a negative amount, that a card no   *)
(* two requests raced for keeps its limit and its books, and that paying a *)
(* card back moves no net worth.                                           *)
(***************************************************************************)
EXTENDS Cards, Sums

\* A flush leaves a row a row.
LEMMA FlushRow ==
    ASSUME NEW current \in CardRow, NEW loaded \in CardRow, NEW computed \in CardRow
    PROVE  Flush(current, loaded, computed) \in CardRow
BY DEF Flush, CardRow

\* A flush writes the outstanding amount the request computed, or leaves the row's.
LEMMA FlushOutstanding ==
    ASSUME NEW current \in CardRow, NEW loaded \in CardRow, NEW computed \in CardRow
    PROVE  Flush(current, loaded, computed).outstanding
             \in {current.outstanding, computed.outstanding}
<1>1. "outstanding" \in DOMAIN current
  BY DEF CardRow
<1> QED
  BY <1>1 DEF Flush

\* What the columns keep of a row is a row, and of an amount that is not negative an
\* amount that is not.
LEMMA KeptRow ==
    ASSUME NEW row \in CardRow
    PROVE  /\ Kept(row) \in CardRow
           /\ Kept(row).status = row.status
           /\ Kept(row).limit = Stored(row.limit)
           /\ Kept(row).outstanding = Stored(row.outstanding)
           /\ row.outstanding >= 0 => Kept(row).outstanding >= 0
           /\ Kept(row).limit % 10 = 0 /\ Kept(row).outstanding % 10 = 0
<1>1. row.limit \in Nat /\ row.outstanding \in Int
  BY DEF CardRow
<1>2. Stored(row.limit) \in Nat /\ Stored(row.outstanding) \in Int
  BY <1>1, StoredAmount
<1>3. /\ Kept(row) \in CardRow
      /\ Kept(row).status = row.status
      /\ Kept(row).limit = Stored(row.limit)
      /\ Kept(row).outstanding = Stored(row.outstanding)
  BY <1>2 DEF Kept, CardRow
<1> QED
  BY <1>1, <1>3, StoredAmount

\* Moving money leaves a row a row.
LEMMA MovedRow ==
    ASSUME NEW kind, NEW row \in CardRow, NEW amount \in Nat
    PROVE  Moved(kind, row, amount) \in CardRow
BY DEF Moved, CardRow

\* Money whose move is allowed leaves no negative amount: a payment is at most what
\* is outstanding, a spend adds.
LEMMA MovedNonNegative ==
    ASSUME NEW kind, NEW row \in CardRow, NEW amount \in Nat,
           row.outstanding >= 0, Allowed(kind, row, amount)
    PROVE  Moved(kind, row, amount).outstanding >= 0
<1>1. row.outstanding \in Int
  BY DEF CardRow
<1>2. CASE kind = "payment"
  <2>1. Moved(kind, row, amount).outstanding = row.outstanding - amount
    BY <1>2 DEF Moved, CardRow
  <2>2. amount <= row.outstanding
    BY <1>2 DEF Allowed
  <2> QED
    BY <1>1, <2>1, <2>2
<1>3. CASE kind # "payment"
  <2>1. Moved(kind, row, amount).outstanding = row.outstanding + amount
    BY <1>3 DEF Moved, CardRow
  <2> QED
    BY <1>1, <2>1
<1> QED
  BY <1>2, <1>3

\* Every request in flight holds a card and two rows of it.
LEMMA RequestType ==
    ASSUME TypeOK, NEW c \in Client, req[c].op # "idle"
    PROVE  /\ req[c].card \in Card
           /\ req[c].loaded \in CardRow
           /\ req[c].computed \in CardRow
           /\ req[c].op = "update" \/ req[c].entry \in Entry
BY DEF TypeOK, Idle, UpdateRequest, MoneyRequest

\* Type correctness.
THEOREM TypeCorrect == Spec => []TypeOK
<1>1. Init => TypeOK
  BY DEF Init, TypeOK, CardRow, Idle
<1>2. TypeOK /\ [Next]_vars => TypeOK'
  <2> SUFFICES ASSUME TypeOK, [Next]_vars PROVE TypeOK'
    OBVIOUS
  <2> USE DEF TypeOK
  <2>1. ASSUME NEW k \in Card, NEW l \in Limits, NEW o \in Amounts \union {0},
               NEW n \in CardNamed, CreateCard(k, l, o, n)
        PROVE  TypeOK'
    <3>1. l \in Nat /\ o \in Int /\ n \in BOOLEAN
      BY LimitsAssumption, AmountsAssumption, NotesAssumption
    <3>2. [status |-> "live", limit |-> l, outstanding |-> o, named |-> n] \in CardRow
      BY <3>1 DEF CardRow
    <3>3. cards' \in [Card -> CardRow] /\ adjusted' \in [Card -> Int]
      BY <2>1, <3>1, <3>2, KeptRow, StoredAmount DEF CreateCard
    <3> QED
      BY <2>1, <3>3 DEF CreateCard
  <2>2. ASSUME NEW k \in Card, DeleteCard(k) PROVE TypeOK'
    BY <2>2 DEF DeleteCard, CardRow
  <2>3. ASSUME NEW c \in Client, NEW k \in Card, NEW n \in CardNamed,
               NEW l \in Limits \union {cards[k].limit},
               NEW o \in Amounts \union {0, cards[k].outstanding}, LoadForUpdate(c, k, l, o, n)
        PROVE  TypeOK'
    <3> DEFINE edited == [cards[k] EXCEPT !.limit = l, !.outstanding = o, !.named = n]
    <3>1. l \in Nat /\ o \in Int /\ n \in BOOLEAN
      BY LimitsAssumption, AmountsAssumption, NotesAssumption DEF CardRow
    <3>2. edited \in CardRow
      BY <3>1 DEF CardRow
    <3>3. [op |-> "update", card |-> k, loaded |-> cards[k], computed |-> edited]
            \in UpdateRequest
      BY <3>2 DEF UpdateRequest
    <3> QED
      BY <2>3, <3>3 DEF LoadForUpdate
  <2>4. ASSUME NEW c \in Client, NEW kind \in {"spend", "payment"}, NEW k \in Card,
               NEW a \in Amounts, NEW says \in Notes(kind, cards[k]),
               LoadForMoney(c, kind, k, a, says)
        PROVE  TypeOK'
    <3>1. a \in Nat /\ says \in BOOLEAN
      BY AmountsAssumption, NotesAssumption DEF Notes, CardRow
    <3>2. PICK id \in NewIds :
            req' = [req EXCEPT ![c] =
              [op |-> kind, card |-> k, loaded |-> cards[k],
               computed |-> Moved(kind, cards[k], a),
               entry |-> [id |-> id, card |-> k, kind |-> kind, asked |-> a,
                          amount |-> Stored(a), saysPayment |-> says, live |-> TRUE]]]
      BY <2>4 DEF LoadForMoney
    <3>3. Moved(kind, cards[k], a) \in CardRow
      BY <3>1, MovedRow
    <3>4. [id |-> id, card |-> k, kind |-> kind, asked |-> a,
           amount |-> Stored(a), saysPayment |-> says, live |-> TRUE] \in Entry
      BY <3>1, StoredAmount DEF Entry, NewIds, FreeIds
    <3>5. [op |-> kind, card |-> k, loaded |-> cards[k],
           computed |-> Moved(kind, cards[k], a),
           entry |-> [id |-> id, card |-> k, kind |-> kind, asked |-> a,
                      amount |-> Stored(a), saysPayment |-> says, live |-> TRUE]] \in MoneyRequest
      BY <3>3, <3>4 DEF MoneyRequest
    <3> QED
      BY <2>4, <3>2, <3>5 DEF LoadForMoney
  <2>5. ASSUME NEW c \in Client, CommitUpdate(c) PROVE TypeOK'
    <3>1. req[c].card \in Card /\ req[c].loaded \in CardRow /\ req[c].computed \in CardRow
      BY <2>5, RequestType DEF CommitUpdate
    <3>2. cards' \in [Card -> CardRow]
      BY <2>5, <3>1, FlushRow, KeptRow DEF CommitUpdate, WriteCard
    <3>3. Stored(req[c].computed.outstanding) - req[c].loaded.outstanding \in Int
      BY <3>1, StoredAmount DEF CardRow
    <3>4. adjusted' \in [Card -> Int]
      BY <2>5, <3>1, <3>3 DEF CommitUpdate
    <3> QED
      BY <2>5, <3>1, <3>2, <3>4 DEF CommitUpdate, WriteCard
  <2>6. ASSUME NEW c \in Client, CommitMoney(c) PROVE TypeOK'
    <3>1. /\ req[c].card \in Card /\ req[c].loaded \in CardRow
          /\ req[c].computed \in CardRow /\ req[c].entry \in Entry
      BY <2>6, RequestType DEF CommitMoney
    <3>2. cards' \in [Card -> CardRow]
      BY <2>6, <3>1, FlushRow, KeptRow DEF CommitMoney, WriteCard
    <3> QED
      BY <2>6, <3>1, <3>2 DEF CommitMoney, WriteCard
  <2>7. ASSUME NEW c \in Client, RollBack(c) PROVE TypeOK'
    BY <2>7 DEF RollBack
  <2>8. ASSUME NEW e \in entries, DeleteEntry(e) PROVE TypeOK'
    <3>1. [e EXCEPT !.live = FALSE] \in Entry
      BY DEF Entry
    <3> QED
      BY <2>8, <3>1 DEF DeleteEntry
  <2>9. ASSUME NEW e \in entries, NEW a \in Amounts \union {e.amount},
               NEW says \in CustomNote \union {e.saysPayment}, UpdateEntry(e, a, says)
        PROVE  TypeOK'
    <3>1. a \in Nat /\ says \in BOOLEAN
      BY AmountsAssumption, NotesAssumption DEF Entry
    <3>2. Stored(a) \in Nat
      BY <3>1, StoredAmount
    <3>3. [e EXCEPT !.amount = Stored(a), !.saysPayment = says] \in Entry
      BY <3>1, <3>2 DEF Entry
    <3> QED
      BY <2>9, <3>3 DEF UpdateEntry
  <2>10. CASE UNCHANGED vars
    BY <2>10 DEF vars
  <2> QED
    BY <2>1, <2>2, <2>3, <2>4, <2>5, <2>6, <2>7, <2>8, <2>9, <2>10 DEF Next
<1> QED
  BY <1>1, <1>2, PTL DEF Spec

-----------------------------------------------------------------------------
(* No negative amount.  NeverOverpaid is not inductive: a commit writes    *)
(* what its request computed from a row that may be long out of date, so   *)
(* the invariant is about the rows requests hold as well.                  *)

\* The part of NothingNegative about one request.
SoundRequest(c) ==
    req[c].op # "idle" => req[c].loaded.outstanding >= 0 /\ req[c].computed.outstanding >= 0

\* Whatever overlaps, every amount written was computed from one that is not negative.
THEOREM AmountsStaySound == Spec => []NothingNegative
<1>1. Init => NothingNegative
  BY DEF Init, NothingNegative, NeverOverpaid, Idle
<1>2. TypeOK /\ NothingNegative /\ [Next]_vars => NothingNegative'
  <2> SUFFICES ASSUME TypeOK, NothingNegative, [Next]_vars PROVE NothingNegative'
    OBVIOUS
  <2>0. /\ \A k \in Card : cards[k] \in CardRow /\ cards[k].outstanding >= 0
        /\ \A c \in Client : SoundRequest(c)
    BY DEF TypeOK, NothingNegative, NeverOverpaid, SoundRequest
  \* It is enough that the step writes no negative amount and starts a sound request.
  <2>a. ASSUME \A k \in Card : cards'[k].outstanding >= 0, \A c \in Client : SoundRequest(c)'
        PROVE  NothingNegative'
    BY <2>a DEF NothingNegative, NeverOverpaid, SoundRequest
  \* A commit writes a computed amount, or leaves the row's.
  <2>b. ASSUME NEW c \in Client, req[c].op # "idle", WriteCard(c) PROVE NothingNegative'
    <3>1. /\ req[c].card \in Card /\ req[c].loaded \in CardRow /\ req[c].computed \in CardRow
      BY <2>b, RequestType
    <3>2. req[c].computed.outstanding >= 0
      BY <2>b, <2>0 DEF SoundRequest
    <3>3. ASSUME NEW k \in Card PROVE cards'[k].outstanding >= 0
      <4>1. CASE k = req[c].card
        <5> DEFINE row == Flush(cards[k], req[c].loaded, req[c].computed)
        <5>1. cards'[k] = Kept(row)
          BY <2>b, <4>1 DEF WriteCard, TypeOK
        <5>2. row \in CardRow /\ row.outstanding \in {cards[k].outstanding, req[c].computed.outstanding}
          BY <3>1, <2>0, FlushRow, FlushOutstanding
        <5>3. row.outstanding >= 0
          BY <5>2, <3>2, <2>0
        <5> HIDE DEF row
        <5> QED
          BY <5>1, <5>2, <5>3, KeptRow
      <4>2. CASE k # req[c].card
        BY <2>b, <4>2, <2>0 DEF WriteCard, TypeOK
      <4> QED
        BY <4>1, <4>2
    <3>4. ASSUME NEW d \in Client PROVE SoundRequest(d)'
      BY <2>b, <2>0 DEF WriteCard, SoundRequest, Idle, TypeOK
    <3> QED
      BY <3>3, <3>4, <2>a
  <2>1. ASSUME NEW k \in Card, NEW l \in Limits, NEW o \in Amounts \union {0},
               NEW n \in CardNamed, CreateCard(k, l, o, n)
        PROVE  NothingNegative'
    <3> DEFINE row == [status |-> "live", limit |-> l, outstanding |-> o, named |-> n]
    <3>1. row \in CardRow /\ row.outstanding >= 0
      BY LimitsAssumption, AmountsAssumption, NotesAssumption DEF CardRow
    <3>2. \A j \in Card : cards'[j].outstanding >= 0
      <4>1. Kept(row).outstanding >= 0
        BY <3>1, KeptRow
      <4>2. cards' = [cards EXCEPT ![k] = Kept(row)]
        BY <2>1 DEF CreateCard
      <4> HIDE DEF row
      <4> QED
        BY <4>1, <4>2, <2>0 DEF TypeOK
    <3>3. \A c \in Client : SoundRequest(c)'
      BY <2>1, <2>0 DEF CreateCard, SoundRequest
    <3> QED
      BY <3>2, <3>3, <2>a
  <2>2. ASSUME NEW k \in Card, DeleteCard(k) PROVE NothingNegative'
    <3>1. \A j \in Card : cards'[j].outstanding >= 0
      BY <2>2, <2>0 DEF DeleteCard, TypeOK, CardRow
    <3>2. \A c \in Client : SoundRequest(c)'
      BY <2>2, <2>0 DEF DeleteCard, SoundRequest
    <3> QED
      BY <3>1, <3>2, <2>a
  <2>3. ASSUME NEW c \in Client, NEW k \in Card, NEW n \in CardNamed,
               NEW l \in Limits \union {cards[k].limit},
               NEW o \in Amounts \union {0, cards[k].outstanding}, LoadForUpdate(c, k, l, o, n)
        PROVE  NothingNegative'
    <3> DEFINE edited == [cards[k] EXCEPT !.limit = l, !.outstanding = o, !.named = n]
    <3>1. edited.outstanding >= 0
      BY <2>0, AmountsAssumption DEF CardRow
    <3>2. ASSUME NEW d \in Client PROVE SoundRequest(d)'
      BY <2>3, <3>1, <2>0 DEF LoadForUpdate, SoundRequest, TypeOK
    <3>3. cards' = cards
      BY <2>3 DEF LoadForUpdate
    <3> QED
      BY <3>2, <3>3, <2>0, <2>a
  <2>4. ASSUME NEW c \in Client, NEW kind \in {"spend", "payment"}, NEW k \in Card,
               NEW a \in Amounts, NEW says \in Notes(kind, cards[k]),
               LoadForMoney(c, kind, k, a, says)
        PROVE  NothingNegative'
    <3>1. Allowed(kind, cards[k], a) /\ a \in Nat
      BY <2>4, AmountsAssumption DEF LoadForMoney
    <3>2. Moved(kind, cards[k], a).outstanding >= 0
      BY <3>1, <2>0, MovedNonNegative
    <3>3. ASSUME NEW d \in Client PROVE SoundRequest(d)'
      BY <2>4, <3>2, <2>0 DEF LoadForMoney, SoundRequest, TypeOK
    <3>4. cards' = cards
      BY <2>4 DEF LoadForMoney
    <3> QED
      BY <3>3, <3>4, <2>0, <2>a
  <2>5. ASSUME NEW c \in Client, CommitUpdate(c) PROVE NothingNegative'
    BY <2>5, <2>b DEF CommitUpdate
  <2>6. ASSUME NEW c \in Client, CommitMoney(c) PROVE NothingNegative'
    BY <2>6, <2>b DEF CommitMoney
  <2>7. ASSUME NEW c \in Client, RollBack(c) PROVE NothingNegative'
    <3>1. ASSUME NEW d \in Client PROVE SoundRequest(d)'
      BY <2>7, <2>0 DEF RollBack, SoundRequest, Idle, TypeOK
    <3> QED
      BY <2>7, <3>1, <2>0, <2>a DEF RollBack
  <2>8. ASSUME NEW e \in entries, DeleteEntry(e) PROVE NothingNegative'
    BY <2>8, <2>0, <2>a DEF DeleteEntry, SoundRequest
  <2>9. ASSUME NEW e \in entries, NEW a \in Amounts \union {e.amount},
               NEW says \in CustomNote \union {e.saysPayment}, UpdateEntry(e, a, says)
        PROVE  NothingNegative'
    BY <2>9, <2>0, <2>a DEF UpdateEntry, SoundRequest
  <2>10. CASE UNCHANGED vars
    BY <2>10, <2>0, <2>a DEF vars, SoundRequest
  <2> QED
    BY <2>1, <2>2, <2>3, <2>4, <2>5, <2>6, <2>7, <2>8, <2>9, <2>10 DEF Next
<1> QED
  BY <1>1, <1>2, TypeCorrect, PTL DEF Spec

\* No card owes a negative amount.
THEOREM CardsAreNeverOverpaid == Spec => []NeverOverpaid
<1>1. NothingNegative => NeverOverpaid
  BY DEF NothingNegative
<1> QED
  BY <1>1, AmountsStaySound, PTL
-----------------------------------------------------------------------------
(* What requests in flight carry.  The limit and the books of a card are   *)
(* about what a commit will write, so the invariant says what a request    *)
(* may hold: the row it computed is the one its money moves or the user    *)
(* set, its entry is the entry of that move, and the entry's id is its own.*)

MovesMoney(c) == req[c].op \in {"spend", "payment"}

\* A request computed the row its operation says, and kept it within the limit.
HonestRequest(c) ==
    /\ req[c].op # "idle" =>
         /\ cards[req[c].card].status # "absent"
         /\ req[c].loaded.status = "live"
         /\ req[c].computed.status = "live"
    /\ req[c].op \in {"update", "spend"} => req[c].computed.outstanding <= req[c].computed.limit
    /\ MovesMoney(c) =>
         /\ req[c].computed = Moved(req[c].op, req[c].loaded, req[c].entry.asked)
         /\ req[c].entry.card = req[c].card
         /\ req[c].entry.kind = req[c].op
         /\ req[c].entry.amount = Stored(req[c].entry.asked)
         /\ req[c].entry.live

\* No two transactions, recorded or in flight, have the same id.
IdsApart ==
    /\ \A e, f \in entries : e.id = f.id => e = f
    /\ \A c \in Client, e \in entries : MovesMoney(c) => req[c].entry.id # e.id
    /\ \A c, d \in Client :
         MovesMoney(c) /\ MovesMoney(d) /\ req[c].entry.id = req[d].entry.id => c = d

\* Only cards that were made have transactions, and only finitely many are made.
MadeCards == {k \in Card : cards[k].status # "absent"}
OnlyMadeCards ==
    /\ IsFiniteSet(entries)
    /\ IsFiniteSet(MadeCards)
    /\ \A e \in entries : e.card \in MadeCards

\* A row holds whole paise.
WholeRow(row) == row.limit % 10 = 0 /\ row.outstanding % 10 = 0

Honest ==
    /\ IdsApart
    /\ OnlyMadeCards
    /\ \A k \in Card : WholeRow(cards[k])
    /\ \A c \in Client : HonestRequest(c)

\* A free id is the id of no transaction, recorded or in flight.
LEMMA NewIdIsNew ==
    ASSUME NEW id \in NewIds
    PROVE  /\ \A e \in entries : e.id # id
           /\ \A c \in Client : MovesMoney(c) => req[c].entry.id # id
BY DEF NewIds, FreeIds, TakenIds, MovesMoney

\* A flush of a live row leaves a card that was made a card that was made.
LEMMA FlushStatus ==
    ASSUME NEW current \in CardRow, NEW loaded \in CardRow, NEW computed \in CardRow,
           loaded.status = computed.status
    PROVE  Flush(current, loaded, computed).status = current.status
<1>1. "status" \in DOMAIN current
  BY DEF CardRow
<1> QED
  BY <1>1 DEF Flush

\* A commit makes no card and unmakes none.
LEMMA WriteKeepsStatus ==
    ASSUME TypeOK, NEW c \in Client, HonestRequest(c), req[c].op # "idle", WriteCard(c)
    PROVE  \A k \in Card : cards'[k].status = cards[k].status
<1> SUFFICES ASSUME NEW k \in Card PROVE cards'[k].status = cards[k].status
  OBVIOUS
<1>1. req[c].card \in Card /\ req[c].loaded \in CardRow /\ req[c].computed \in CardRow
  BY RequestType
<1>2. CASE k = req[c].card
  <2> DEFINE row == Flush(cards[k], req[c].loaded, req[c].computed)
  <2>1. cards'[k] = Kept(row) /\ cards[k] \in CardRow
    BY <1>2 DEF WriteCard, TypeOK
  <2>2. req[c].loaded.status = req[c].computed.status
    BY DEF HonestRequest
  <2>3. row \in CardRow /\ row.status = cards[k].status
    BY <1>1, <2>1, <2>2, FlushStatus, FlushRow
  <2> HIDE DEF row
  <2> QED
    BY <2>1, <2>3, KeptRow
<1>3. CASE k # req[c].card
  BY <1>3 DEF WriteCard, TypeOK
<1> QED
  BY <1>2, <1>3

\* Whatever is written to a row is written to columns of whole paise.
LEMMA WholeStep ==
    ASSUME TypeOK, [Next]_vars, \A k \in Card : WholeRow(cards[k])
    PROVE  \A k \in Card : WholeRow(cards'[k])
<1>a. ASSUME cards' = cards PROVE \A k \in Card : WholeRow(cards'[k])
  BY <1>a
<1>b. ASSUME NEW j \in Card, NEW row \in CardRow, cards' = [cards EXCEPT ![j] = Kept(row)]
      PROVE  \A k \in Card : WholeRow(cards'[k])
  <2>1. WholeRow(Kept(row))
    BY KeptRow DEF WholeRow
  <2> QED
    BY <1>b, <2>1 DEF TypeOK
<1>c. ASSUME NEW c \in Client, req[c].op # "idle", WriteCard(c)
      PROVE  \A k \in Card : WholeRow(cards'[k])
  <2>1. /\ req[c].card \in Card /\ req[c].loaded \in CardRow /\ req[c].computed \in CardRow
    BY <1>c, RequestType
  <2>2. Flush(cards[req[c].card], req[c].loaded, req[c].computed) \in CardRow
    BY <2>1, FlushRow DEF TypeOK
  <2>3. cards' = [cards EXCEPT ![req[c].card] =
                     Kept(Flush(cards[req[c].card], req[c].loaded, req[c].computed))]
    BY <1>c DEF WriteCard
  <2> QED
    BY <2>1, <2>2, <2>3, <1>b
<1>1. ASSUME NEW k \in Card, NEW l \in Limits, NEW o \in Amounts \union {0},
             NEW n \in CardNamed, CreateCard(k, l, o, n)
      PROVE  \A j \in Card : WholeRow(cards'[j])
  <2>1. [status |-> "live", limit |-> l, outstanding |-> o, named |-> n] \in CardRow
    BY LimitsAssumption, AmountsAssumption, NotesAssumption DEF CardRow
  <2> QED
    BY <1>1, <1>b, <2>1 DEF CreateCard
<1>2. ASSUME NEW k \in Card, DeleteCard(k) PROVE \A j \in Card : WholeRow(cards'[j])
  BY <1>2 DEF DeleteCard, WholeRow, TypeOK, CardRow
<1>3. ASSUME NEW c \in Client, CommitUpdate(c) \/ CommitMoney(c)
      PROVE  \A j \in Card : WholeRow(cards'[j])
  BY <1>3, <1>c DEF CommitUpdate, CommitMoney
<1>4. ASSUME NEW c \in Client, NEW k \in Card, NEW n \in CardNamed,
             NEW l \in Limits \union {cards[k].limit},
             NEW o \in Amounts \union {0, cards[k].outstanding}, LoadForUpdate(c, k, l, o, n)
      PROVE  cards' = cards
  BY <1>4 DEF LoadForUpdate
<1>5. ASSUME NEW c \in Client, NEW kind \in {"spend", "payment"}, NEW k \in Card,
             NEW a \in Amounts, NEW says \in Notes(kind, cards[k]),
             LoadForMoney(c, kind, k, a, says)
      PROVE  cards' = cards
  BY <1>5 DEF LoadForMoney
<1>6. ASSUME NEW c \in Client, RollBack(c) PROVE cards' = cards
  BY <1>6 DEF RollBack
<1>7. ASSUME NEW e \in entries, DeleteEntry(e) PROVE cards' = cards
  BY <1>7 DEF DeleteEntry
<1>8. ASSUME NEW e \in entries, NEW a \in Amounts \union {e.amount},
             NEW says \in CustomNote \union {e.saysPayment}, UpdateEntry(e, a, says)
      PROVE  cards' = cards
  BY <1>8 DEF UpdateEntry
<1>9. CASE UNCHANGED vars
  BY <1>9, <1>a DEF vars
<1> QED
  BY <1>1, <1>2, <1>3, <1>4, <1>5, <1>6, <1>7, <1>8, <1>9, <1>a DEF Next

\* Requests stay honest.
LEMMA HonestStep == TypeOK /\ Honest /\ [Next]_vars => Honest'
<1> SUFFICES ASSUME TypeOK, Honest, [Next]_vars PROVE Honest'
  OBVIOUS
<1>0. IdsApart /\ OnlyMadeCards /\ \A c \in Client : HonestRequest(c)
  BY DEF Honest
<1>w. \A k \in Card : WholeRow(cards'[k])
  BY WholeStep DEF Honest

\* A request that is not touched, on a card that stays made, stays honest.
<1>a. ASSUME NEW c \in Client, req'[c] = req[c],
             \A k \in Card : cards[k].status # "absent" => cards'[k].status # "absent"
      PROVE  HonestRequest(c)'
  <2>1. req[c].op # "idle" => req[c].card \in Card
    BY RequestType
  <2> QED
    BY <1>a, <1>0, <2>1 DEF HonestRequest, MovesMoney
<1>b. ASSUME NEW c \in Client, req'[c] = Idle PROVE HonestRequest(c)' /\ ~ MovesMoney(c)'
  BY <1>b DEF HonestRequest, MovesMoney, Idle

\* The ids stay apart when requests end and entries stay as they are.
<1>c. ASSUME NEW c \in Client, req' = [req EXCEPT ![c] = Idle], entries' = entries
      PROVE  IdsApart'
  BY <1>c, <1>0 DEF IdsApart, MovesMoney, Idle, TypeOK
<1>1. ASSUME NEW k \in Card, NEW l \in Limits, NEW o \in Amounts \union {0},
               NEW n \in CardNamed, CreateCard(k, l, o, n)
      PROVE  Honest'
  <2>1. \A j \in Card : cards'[j].status = IF j = k THEN "live" ELSE cards[j].status
    <3> DEFINE row == [status |-> "live", limit |-> l, outstanding |-> o, named |-> n]
    <3>1. row \in CardRow /\ row.status = "live"
      BY LimitsAssumption, AmountsAssumption, NotesAssumption DEF CardRow
    <3>2. cards' = [cards EXCEPT ![k] = Kept(row)]
      BY <1>1 DEF CreateCard
    <3> HIDE DEF row
    <3> QED
      BY <3>1, <3>2, KeptRow DEF TypeOK
  <2>2. MadeCards' = MadeCards \union {k}
    BY <2>1 DEF MadeCards
  <2>3. OnlyMadeCards'
    BY <1>1, <1>0, <2>2, FS_AddElement DEF OnlyMadeCards, CreateCard
  <2>4. \A c \in Client : HonestRequest(c)'
    BY <1>1, <1>a, <2>1 DEF CreateCard
  <2>5. IdsApart'
    BY <1>1, <1>0 DEF IdsApart, CreateCard, MovesMoney
  <2> QED
    BY <1>w, <2>3, <2>4, <2>5 DEF Honest
<1>2. ASSUME NEW k \in Card, DeleteCard(k) PROVE Honest'
  <2>1. \A j \in Card : cards'[j].status = IF j = k THEN "deleted" ELSE cards[j].status
    BY <1>2 DEF DeleteCard, TypeOK, CardRow
  <2>2. MadeCards' = MadeCards
    BY <1>2, <2>1 DEF MadeCards, DeleteCard, Live
  <2>3. OnlyMadeCards'
    BY <1>2, <1>0, <2>2 DEF OnlyMadeCards, DeleteCard
  <2>4. \A c \in Client : HonestRequest(c)'
    BY <1>2, <1>a, <2>1 DEF DeleteCard
  <2>5. IdsApart'
    BY <1>2, <1>0 DEF IdsApart, DeleteCard, MovesMoney
  <2> QED
    BY <1>w, <2>3, <2>4, <2>5 DEF Honest
<1>3. ASSUME NEW c \in Client, NEW k \in Card, NEW n \in CardNamed,
               NEW l \in Limits \union {cards[k].limit},
               NEW o \in Amounts \union {0, cards[k].outstanding}, LoadForUpdate(c, k, l, o, n)
      PROVE  Honest'
  <2> DEFINE edited == [cards[k] EXCEPT !.limit = l, !.outstanding = o, !.named = n]
  <2>1. /\ req' = [req EXCEPT ![c] =
              [op |-> "update", card |-> k, loaded |-> cards[k], computed |-> edited]]
        /\ Live(k) /\ Fits(edited) /\ UNCHANGED <<cards, entries>>
    BY <1>3 DEF LoadForUpdate
  <2>2. req'[c].op = "update" /\ req'[c].card = k /\ req'[c].loaded = cards[k] /\ req'[c].computed = edited
    BY <2>1 DEF TypeOK
  <2>3. edited.status = "live"
    BY <2>1 DEF Live, TypeOK, CardRow
  <2>4. HonestRequest(c)'
    BY <2>1, <2>2, <2>3 DEF HonestRequest, MovesMoney, Live, Fits
  <2>5. \A d \in Client \ {c} : req'[d] = req[d]
    BY <2>1 DEF TypeOK
  <2>6. \A d \in Client : HonestRequest(d)'
    BY <1>a, <2>1, <2>4, <2>5
  <2>7. IdsApart'
    BY <1>0, <2>1, <2>2, <2>5 DEF IdsApart, MovesMoney
  <2>8. OnlyMadeCards'
    BY <1>0, <2>1 DEF OnlyMadeCards, MadeCards
  <2> QED
    BY <1>w, <2>6, <2>7, <2>8 DEF Honest
<1>4. ASSUME NEW c \in Client, NEW kind \in {"spend", "payment"}, NEW k \in Card,
             NEW a \in Amounts, NEW says \in Notes(kind, cards[k]),
               LoadForMoney(c, kind, k, a, says)
      PROVE  Honest'
  <2> DEFINE entry(id) == [id |-> id, card |-> k, kind |-> kind, asked |-> a,
                           amount |-> Stored(a), saysPayment |-> says, live |-> TRUE]
  <2>1. PICK id \in NewIds :
          req' = [req EXCEPT ![c] =
            [op |-> kind, card |-> k, loaded |-> cards[k],
             computed |-> Moved(kind, cards[k], a), entry |-> entry(id)]]
    BY <1>4 DEF LoadForMoney
  <2>2. Live(k) /\ Allowed(kind, cards[k], a) /\ UNCHANGED <<cards, entries>>
    BY <1>4 DEF LoadForMoney
  <2>3. /\ req'[c].op = kind /\ req'[c].card = k /\ req'[c].loaded = cards[k]
        /\ req'[c].computed = Moved(kind, cards[k], a) /\ req'[c].entry = entry(id)
    BY <2>1 DEF TypeOK
  <2>4. cards[k] \in CardRow /\ a \in Nat
    BY AmountsAssumption DEF TypeOK
  <2>5. Moved(kind, cards[k], a).status = "live"
    BY <2>2, <2>4 DEF Moved, Live, CardRow
  <2>6. kind = "spend" => Moved(kind, cards[k], a).outstanding <= Moved(kind, cards[k], a).limit
    BY <2>2, <2>4 DEF Moved, Allowed, CardRow
  <2>7. HonestRequest(c)'
    BY <2>2, <2>3, <2>5, <2>6 DEF HonestRequest, MovesMoney, Live
  <2>8. \A d \in Client \ {c} : req'[d] = req[d]
    BY <2>1 DEF TypeOK
  <2>9. \A d \in Client : HonestRequest(d)'
    BY <1>a, <2>2, <2>7, <2>8
  <2>10. req'[c].entry.id = id
    BY <2>3
  <2>11. /\ \A e \in entries : e.id # id
         /\ \A d \in Client : MovesMoney(d) => req[d].entry.id # id
    BY NewIdIsNew
  <2>12. IdsApart'
    BY <1>0, <2>2, <2>8, <2>10, <2>11 DEF IdsApart, MovesMoney
  <2>13. OnlyMadeCards'
    BY <1>0, <2>2 DEF OnlyMadeCards, MadeCards
  <2> QED
    BY <1>w, <2>9, <2>12, <2>13 DEF Honest
<1>5. ASSUME NEW c \in Client, CommitUpdate(c) PROVE Honest'
  <2>1. WriteCard(c) /\ req[c].op # "idle" /\ entries' = entries
    BY <1>5 DEF CommitUpdate
  <2>2. \A k \in Card : cards'[k].status = cards[k].status
    BY <1>0, <2>1, WriteKeepsStatus
  <2>3. req' = [req EXCEPT ![c] = Idle]
    BY <2>1 DEF WriteCard
  <2>4. \A d \in Client : HonestRequest(d)'
    BY <1>a, <1>b, <2>2, <2>3 DEF TypeOK
  <2>5. OnlyMadeCards'
    BY <1>0, <2>1, <2>2 DEF OnlyMadeCards, MadeCards
  <2> QED
    BY <1>w, <1>c, <2>1, <2>3, <2>4, <2>5 DEF Honest
<1>6. ASSUME NEW c \in Client, CommitMoney(c) PROVE Honest'
  <2>1. WriteCard(c) /\ req[c].op # "idle" /\ MovesMoney(c) /\ entries' = entries \union {req[c].entry}
    BY <1>6 DEF CommitMoney, MovesMoney
  <2>2. \A k \in Card : cards'[k].status = cards[k].status
    BY <1>0, <2>1, WriteKeepsStatus
  <2>3. req' = [req EXCEPT ![c] = Idle]
    BY <2>1 DEF WriteCard
  <2>4. \A d \in Client : HonestRequest(d)'
    BY <1>a, <1>b, <2>2, <2>3 DEF TypeOK
  <2>5. MadeCards' = MadeCards
    BY <2>2 DEF MadeCards
  <2>6. req[c].entry.card \in MadeCards
    BY <1>0, <2>1, RequestType DEF HonestRequest, MadeCards
  <2>7. OnlyMadeCards'
    BY <1>0, <2>1, <2>5, <2>6, FS_AddElement DEF OnlyMadeCards
  <2>8. \A d \in Client : MovesMoney(d)' => d # c /\ req'[d] = req[d] /\ MovesMoney(d)
    BY <2>3, <1>b DEF MovesMoney, TypeOK
  <2>9. IdsApart'
    BY <1>0, <2>1, <2>8 DEF IdsApart
  <2> QED
    BY <1>w, <2>4, <2>7, <2>9 DEF Honest
<1>7. ASSUME NEW c \in Client, RollBack(c) PROVE Honest'
  <2>1. req' = [req EXCEPT ![c] = Idle] /\ UNCHANGED <<cards, entries>>
    BY <1>7 DEF RollBack
  <2>2. \A d \in Client : HonestRequest(d)'
    BY <1>a, <1>b, <2>1 DEF TypeOK
  <2>3. OnlyMadeCards'
    BY <1>0, <2>1 DEF OnlyMadeCards, MadeCards
  <2> QED
    BY <1>w, <1>c, <2>1, <2>2, <2>3 DEF Honest
<1>8. ASSUME NEW e \in entries, DeleteEntry(e) PROVE Honest'
  <2> DEFINE gone == [e EXCEPT !.live = FALSE]
  <2>1. entries' = (entries \ {e}) \union {gone} /\ UNCHANGED <<cards, req>>
    BY <1>8 DEF DeleteEntry
  <2>2. gone.id = e.id /\ gone.card = e.card
    BY DEF TypeOK, Entry
  <2>3. \A c \in Client : HonestRequest(c)'
    BY <1>a, <2>1
  <2>4. MadeCards' = MadeCards
    BY <2>1 DEF MadeCards
  <2>5. IsFiniteSet(entries')
    BY <1>0, <2>1, FS_RemoveElement, FS_AddElement DEF OnlyMadeCards
  <2>6. OnlyMadeCards'
    BY <1>0, <2>1, <2>2, <2>4, <2>5 DEF OnlyMadeCards
  <2>7. IdsApart'
    <3> HIDE DEF gone
    <3> QED
      BY <1>0, <2>1, <2>2 DEF IdsApart, MovesMoney
  <2> QED
    BY <1>w, <2>3, <2>6, <2>7 DEF Honest
<1>9. ASSUME NEW e \in entries, NEW a \in Amounts \union {e.amount},
             NEW says \in CustomNote \union {e.saysPayment}, UpdateEntry(e, a, says)
      PROVE  Honest'
  <2> DEFINE new == [e EXCEPT !.amount = Stored(a), !.saysPayment = says]
  <2>1. entries' = (entries \ {e}) \union {new} /\ UNCHANGED <<cards, req>>
    BY <1>9 DEF UpdateEntry
  <2>2. new.id = e.id /\ new.card = e.card
    BY DEF TypeOK, Entry
  <2>3. \A c \in Client : HonestRequest(c)'
    BY <1>a, <2>1
  <2>4. MadeCards' = MadeCards
    BY <2>1 DEF MadeCards
  <2>5. IsFiniteSet(entries')
    BY <1>0, <2>1, FS_RemoveElement, FS_AddElement DEF OnlyMadeCards
  <2>6. OnlyMadeCards'
    BY <1>0, <2>1, <2>2, <2>4, <2>5 DEF OnlyMadeCards
  <2>7. IdsApart'
    <3> HIDE DEF new
    <3> QED
      BY <1>0, <2>1, <2>2 DEF IdsApart, MovesMoney
  <2> QED
    BY <1>w, <2>3, <2>6, <2>7 DEF Honest
<1>10. CASE UNCHANGED vars
  BY <1>10, <1>0, <1>w, <1>a DEF vars, Honest, IdsApart, OnlyMadeCards, MadeCards, MovesMoney
<1> QED
  BY <1>1, <1>2, <1>3, <1>4, <1>5, <1>6, <1>7, <1>8, <1>9, <1>10 DEF Next

\* Requests are honest in every reachable state.
LEMMA RequestsAreHonest == Spec => []Honest
<1>1. Init => Honest
  <2> SUFFICES ASSUME Init PROVE Honest
    OBVIOUS
  <2>1. entries = {} /\ MadeCards = {}
    BY DEF Init, MadeCards
  <2>2. \A c \in Client : HonestRequest(c) /\ ~ MovesMoney(c)
    BY DEF Init, HonestRequest, MovesMoney, Idle
  <2>3. \A k \in Card : WholeRow(cards[k])
    BY DEF Init, WholeRow
  <2> QED
    BY <2>1, <2>2, <2>3, FS_EmptySet DEF Honest, IdsApart, OnlyMadeCards
<1> QED
  BY <1>1, HonestStep, TypeCorrect, PTL DEF Spec
-----------------------------------------------------------------------------
(* The limit.                                                              *)

\* A flush to the row that was loaded writes the row that was computed.
LEMMA FlushFresh ==
    ASSUME NEW loaded \in CardRow, NEW computed \in CardRow
    PROVE  Flush(loaded, loaded, computed) = computed
<1>1. DOMAIN loaded = DOMAIN computed
  BY DEF CardRow
<1>2. Flush(loaded, loaded, computed) = [col \in DOMAIN computed |-> computed[col]]
  BY <1>1 DEF Flush
<1>3. computed = [col \in DOMAIN computed |-> computed[col]]
  BY DEF CardRow
<1> QED
  BY <1>2, <1>3

\* A commit touches its own card, and if nothing overlapped writes what it computed.
LEMMA WriteUnraced ==
    ASSUME TypeOK, NEW c \in Client, req[c].op # "idle", WriteCard(c)
    PROVE  /\ \A k \in Card \ {req[c].card} : cards'[k] = cards[k]
           /\ raced \subseteq raced'
           /\ req[c].card \notin raced' =>
                /\ cards[req[c].card] = req[c].loaded
                /\ cards'[req[c].card] = Kept(req[c].computed)
<1>1. req[c].card \in Card /\ req[c].loaded \in CardRow /\ req[c].computed \in CardRow
  BY RequestType
<1>2. cards[req[c].card] = req[c].loaded => cards'[req[c].card] = Kept(req[c].computed)
  BY <1>1, FlushFresh DEF WriteCard, TypeOK
<1> QED
  BY <1>1, <1>2 DEF WriteCard, TypeOK

\* Rounding leaves an amount within its limit.
LEMMA KeptWithin ==
    ASSUME NEW row \in CardRow, row.outstanding <= row.limit
    PROVE  Kept(row).outstanding <= Kept(row).limit
<1>1. row.limit \in Int /\ row.outstanding \in Int
  BY DEF CardRow
<1>2. Stored(row.outstanding) <= Stored(row.limit)
  BY <1>1, StoredMonotone
<1> QED
  BY <1>2, KeptRow

\* A card that no two requests raced for stays within its limit.
THEOREM LimitIsKept == Spec => []WithinLimit
<1>1. Init => WithinLimit
  BY DEF Init, WithinLimit
<1>2. TypeOK /\ NothingNegative /\ Honest /\ WithinLimit /\ [Next]_vars => WithinLimit'
  <2> SUFFICES ASSUME TypeOK, NothingNegative, Honest, WithinLimit, [Next]_vars,
                      NEW k \in Card, k \notin raced'
               PROVE  cards'[k].outstanding <= cards'[k].limit
    BY DEF WithinLimit
  <2>0. /\ cards[k] \in CardRow
        /\ k \notin raced => cards[k].outstanding <= cards[k].limit
    BY DEF TypeOK, WithinLimit
  <2>a. ASSUME cards'[k] = cards[k], raced \subseteq raced'
        PROVE  cards'[k].outstanding <= cards'[k].limit
    BY <2>a, <2>0
  <2>1. ASSUME NEW j \in Card, NEW l \in Limits, NEW o \in Amounts \union {0},
               NEW n \in CardNamed, CreateCard(j, l, o, n)
        PROVE  cards'[k].outstanding <= cards'[k].limit
    <3> DEFINE row == [status |-> "live", limit |-> l, outstanding |-> o, named |-> n]
    <3>1. row \in CardRow /\ row.outstanding <= row.limit
      BY <2>1, LimitsAssumption, AmountsAssumption, NotesAssumption DEF CardRow, CreateCard
    <3>2. cards' = [cards EXCEPT ![j] = Kept(row)]
      BY <2>1 DEF CreateCard
    <3>3. Kept(row).outstanding <= Kept(row).limit
      BY <3>1, KeptWithin
    <3> HIDE DEF row
    <3>4. CASE j = k
      BY <3>2, <3>3, <3>4 DEF TypeOK
    <3>5. CASE j # k
      BY <2>1, <2>a, <3>2, <3>5 DEF TypeOK, CreateCard
    <3> QED
      BY <3>4, <3>5
  <2>2. ASSUME NEW j \in Card, DeleteCard(j) PROVE cards'[k].outstanding <= cards'[k].limit
    <3>1. cards'[k].outstanding = cards[k].outstanding /\ cards'[k].limit = cards[k].limit
      BY <2>2 DEF DeleteCard, TypeOK, CardRow
    <3> QED
      BY <2>2, <2>0, <3>1 DEF DeleteCard
  <2>3. ASSUME NEW c \in Client, NEW j \in Card, NEW n \in CardNamed,
               NEW l \in Limits \union {cards[j].limit},
               NEW o \in Amounts \union {0, cards[j].outstanding}, LoadForUpdate(c, j, l, o, n)
        PROVE  cards'[k].outstanding <= cards'[k].limit
    BY <2>3, <2>a DEF LoadForUpdate
  <2>4. ASSUME NEW c \in Client, NEW kind \in {"spend", "payment"}, NEW j \in Card,
               NEW a \in Amounts, NEW says \in Notes(kind, cards[j]),
               LoadForMoney(c, kind, j, a, says)
        PROVE  cards'[k].outstanding <= cards'[k].limit
    BY <2>4, <2>a DEF LoadForMoney
  <2>5. ASSUME NEW c \in Client, req[c].op # "idle", WriteCard(c)
        PROVE  cards'[k].outstanding <= cards'[k].limit
    <3>1. HonestRequest(c)
      BY DEF Honest
    <3>2. CASE k # req[c].card
      BY <2>5, <2>a, <3>2, WriteUnraced
    <3>3. CASE k = req[c].card
      <4>1. cards[k] = req[c].loaded /\ cards'[k] = Kept(req[c].computed) /\ k \notin raced
        BY <2>5, <3>3, WriteUnraced
      <4>2. req[c].computed.outstanding <= req[c].computed.limit
        <5>1. CASE req[c].op \in {"update", "spend"}
          BY <3>1, <5>1 DEF HonestRequest
        <5>2. CASE req[c].op = "payment"
          <6>1. req[c].computed = Moved("payment", cards[k], req[c].entry.asked)
            BY <3>1, <4>1, <5>2 DEF HonestRequest, MovesMoney
          <6>2. req[c].entry.asked \in Nat
            BY <5>2, RequestType DEF Entry
          <6>3. /\ req[c].computed.outstanding = cards[k].outstanding - req[c].entry.asked
                /\ req[c].computed.limit = cards[k].limit
            BY <2>0, <6>1 DEF Moved, CardRow
          <6>4. cards[k].outstanding \in Int /\ cards[k].limit \in Int
            BY <2>0 DEF CardRow
          <6> QED
            BY <2>0, <4>1, <6>2, <6>3, <6>4
        <5> QED
          BY <2>5, <5>1, <5>2 DEF TypeOK, Idle, UpdateRequest, MoneyRequest
      <4> QED
        BY <2>5, <4>1, <4>2, RequestType, KeptWithin
    <3> QED
      BY <3>2, <3>3
  <2>6. ASSUME NEW c \in Client, RollBack(c) PROVE cards'[k].outstanding <= cards'[k].limit
    BY <2>6, <2>a DEF RollBack
  <2>7. ASSUME NEW e \in entries, DeleteEntry(e) PROVE cards'[k].outstanding <= cards'[k].limit
    BY <2>7, <2>a DEF DeleteEntry
  <2>8. ASSUME NEW e \in entries, NEW a \in Amounts \union {e.amount},
               NEW says \in CustomNote \union {e.saysPayment}, UpdateEntry(e, a, says)
        PROVE  cards'[k].outstanding <= cards'[k].limit
    BY <2>8, <2>a DEF UpdateEntry
  <2>9. CASE UNCHANGED vars
    BY <2>9, <2>a DEF vars
  <2> QED
    BY <2>1, <2>2, <2>3, <2>4, <2>5, <2>6, <2>7, <2>8, <2>9 DEF Next, CommitUpdate, CommitMoney
<1> QED
  BY <1>1, <1>2, TypeCorrect, AmountsStaySound, RequestsAreHonest, PTL DEF Spec

-----------------------------------------------------------------------------
(* The books.                                                              *)

\* A total of amounts is a number; a new entry adds its amount.
LEMMA TotalType ==
    ASSUME NEW es, IsFiniteSet(es), es \subseteq Entry
    PROVE  Total(es) \in Int
<1> DEFINE amounts == [e \in es |-> e.amount]
<1>1. \A e \in es : amounts[e] \in Int
  BY DEF Entry
<1>2. SumFunctionOnSet(amounts, es) \in Int
  <2> HIDE DEF amounts
  <2> QED
    BY <1>1, SumType
<1> QED
  BY <1>2 DEF Total, SumFunction

\* A total grows by the amount of the entry that is added.
LEMMA TotalAdd ==
    ASSUME NEW es, IsFiniteSet(es), es \subseteq Entry, NEW e \in Entry, e \notin es
    PROVE  Total(es \union {e}) = Total(es) + e.amount
<1> DEFINE small == [x \in es |-> x.amount]
           large == [x \in es \union {e} |-> x.amount]
<1>1. \A x \in es \union {e} : large[x] \in Int
  BY DEF Entry
<1>2. \A x \in es : small[x] = large[x]
  OBVIOUS
<1>3. large[e] = e.amount
  OBVIOUS
<1>4. Total(es) \in Int
  BY TotalType
<1>5. Total(es) = SumFunctionOnSet(small, es) /\ Total(es \union {e}) = SumFunctionOnSet(large, es \union {e})
  BY DEF Total, SumFunction
<1> HIDE DEF small, large
<1>6. SumFunctionOnSet(large, es \union {e}) = large[e] + SumFunctionOnSet(large, es)
  BY <1>1, SumAdd
<1>7. SumFunctionOnSet(small, es) = SumFunctionOnSet(large, es)
  BY <1>2, SumSame
<1>8. e.amount \in Int
  BY DEF Entry
<1> QED
  BY <1>3, <1>4, <1>5, <1>6, <1>7, <1>8

\* The sum of what entries moved their cards by.
Charges(es) == SumFunction([e \in es |-> Charged(e)])

\* What an entry moved its card by is an integer.
LEMMA ChargedType == ASSUME NEW e \in Entry PROVE Charged(e) \in Int /\ HalfPaisa(e) \in Int
<1>1. e.asked \in Nat
  BY DEF Entry
<1>2. Stored(e.asked) \in Int
  BY <1>1, StoredAmount
<1> QED
  BY <1>2 DEF Charged, HalfPaisa

\* Charges are a number; a new entry adds its own.
LEMMA ChargesType ==
    ASSUME NEW es, IsFiniteSet(es), es \subseteq Entry
    PROVE  Charges(es) \in Int
<1> DEFINE moves == [e \in es |-> Charged(e)]
<1>1. \A e \in es : moves[e] \in Int
  BY ChargedType
<1>2. SumFunctionOnSet(moves, es) \in Int
  <2> HIDE DEF moves
  <2> QED
    BY <1>1, SumType
<1> QED
  BY <1>2 DEF Charges, SumFunction

\* Charges grow by what the entry that is added moved.
LEMMA ChargesAdd ==
    ASSUME NEW es, IsFiniteSet(es), es \subseteq Entry, NEW e \in Entry, e \notin es
    PROVE  Charges(es \union {e}) = Charges(es) + Charged(e)
<1> DEFINE small == [x \in es |-> Charged(x)]
           large == [x \in es \union {e} |-> Charged(x)]
<1>1. \A x \in es \union {e} : large[x] \in Int
  BY ChargedType
<1>2. \A x \in es : small[x] = large[x]
  OBVIOUS
<1>3. large[e] = Charged(e)
  OBVIOUS
<1>4. Charges(es) \in Int
  BY ChargesType
<1>5. Charges(es) = SumFunctionOnSet(small, es) /\ Charges(es \union {e}) = SumFunctionOnSet(large, es \union {e})
  BY DEF Charges, SumFunction
<1> HIDE DEF small, large
<1>6. SumFunctionOnSet(large, es \union {e}) = large[e] + SumFunctionOnSet(large, es)
  BY <1>1, SumAdd
<1>7. SumFunctionOnSet(small, es) = SumFunctionOnSet(large, es)
  BY <1>2, SumSame
<1>8. Charged(e) \in Int
  BY ChargedType
<1> QED
  BY <1>3, <1>4, <1>5, <1>6, <1>7, <1>8

\* An entry replaced by one that moved as much leaves the charges.
LEMMA ChargesReplace ==
    ASSUME NEW es, IsFiniteSet(es), es \subseteq Entry, NEW e \in es,
           NEW f \in Entry, Charged(f) = Charged(e), f \notin es \ {e}
    PROVE  Charges((es \ {e}) \union {f}) = Charges(es)
<1> DEFINE rest == es \ {e}
<1>1. IsFiniteSet(rest) /\ rest \subseteq Entry /\ e \in Entry /\ e \notin rest
  BY FS_RemoveElement
<1>2. rest \union {e} = es
  OBVIOUS
<1> HIDE DEF rest
<1>3. Charges(rest \union {e}) = Charges(rest) + Charged(e)
  BY <1>1, ChargesAdd
<1>4. Charges(rest \union {f}) = Charges(rest) + Charged(f)
  BY <1>1, ChargesAdd DEF rest
<1> QED
  BY <1>2, <1>3, <1>4 DEF rest

\* The transactions of a card.
Of(k) == {e \in entries : e.card = k}

\* BooksAgree for one card.
CardAgrees(k) == cards[k].outstanding = adjusted[k] + Charges(Of(k))

\* Recording an entry adds what it moves to the charges of its card.
LEMMA RecordCharges ==
    ASSUME TypeOK, IsFiniteSet(entries), NEW x \in Entry, x \notin entries,
           entries' = entries \union {x}, NEW k
    PROVE  Charges(Of(k))' = Charges(Of(k)) + (IF x.card = k THEN Charged(x) ELSE 0)
<1>1. IsFiniteSet(Of(k)) /\ Of(k) \subseteq Entry /\ x \notin Of(k)
  BY FS_Subset DEF Of, TypeOK
<1>2. Charges(Of(k)) \in Int
  BY <1>1, ChargesType
<1>3. Charges(Of(k))' = Charges(Of(k)')
  BY DEF Charges, Charged, HalfPaisa
<1>4. CASE x.card = k
  <2>1. Of(k)' = Of(k) \union {x}
    BY <1>4 DEF Of
  <2>2. Charges(Of(k) \union {x}) = Charges(Of(k)) + Charged(x)
    BY <1>1, ChargesAdd
  <2> QED
    BY <1>3, <1>4, <2>1, <2>2
<1>5. CASE x.card # k
  <2>1. Of(k)' = Of(k)
    BY <1>5 DEF Of
  <2> QED
    BY <1>2, <1>3, <1>5, <2>1
<1> QED
  BY <1>4, <1>5

\* Deleting or editing a transaction leaves the charges of its card.
LEMMA EditCharges ==
    ASSUME TypeOK, IsFiniteSet(entries), IdsApart, NEW x \in entries, NEW y \in Entry,
           y.id = x.id, y.card = x.card, y.kind = x.kind, y.asked = x.asked,
           entries' = (entries \ {x}) \union {y}, NEW k
    PROVE  Charges(Of(k))' = Charges(Of(k))
<1>1. y \notin entries \ {x}
  BY DEF IdsApart
<1>2. Charged(y) = Charged(x)
  BY DEF Charged, HalfPaisa
<1>3. IsFiniteSet(Of(k)) /\ Of(k) \subseteq Entry
  BY FS_Subset DEF Of, TypeOK
<1>4. Charges(Of(k))' = Charges(Of(k)')
  BY DEF Charges, Charged, HalfPaisa
<1>5. CASE x \in Of(k)
  <2>1. Of(k)' = (Of(k) \ {x}) \union {y}
    BY <1>5 DEF Of
  <2>2. y \notin Of(k) \ {x}
    BY <1>1 DEF Of
  <2> QED
    BY <1>2, <1>3, <1>4, <1>5, <2>1, <2>2, ChargesReplace
<1>6. CASE x \notin Of(k)
  <2>1. Of(k)' = Of(k)
    BY <1>6 DEF Of
  <2> QED
    BY <1>4, <2>1
<1> QED
  BY <1>5, <1>6

\* The row a request that moves money writes, where nothing overlapped: what the card
\* owes moves by what the entry is charged with.
LEMMA MoneyCharges ==
    ASSUME TypeOK, NothingNegative, Honest, NEW c \in Client, MovesMoney(c),
           cards[req[c].card] = req[c].loaded
    PROVE  Kept(req[c].computed).outstanding = cards[req[c].card].outstanding + Charged(req[c].entry)
<1>1. req[c].op # "idle" /\ req[c].op # "update"
  BY DEF MovesMoney
<1>2. /\ req[c].card \in Card
      /\ req[c].computed \in CardRow
      /\ req[c].entry \in Entry
  BY <1>1, RequestType
<1>3. PICK whole \in Nat : whole = cards[req[c].card].outstanding /\ whole % 10 = 0
  BY <1>2 DEF Honest, WholeRow, TypeOK, CardRow, NothingNegative, NeverOverpaid
<1>4. PICK asked \in Nat : asked = req[c].entry.asked
  BY <1>2 DEF Entry
<1>5. req[c].computed = Moved(req[c].op, cards[req[c].card], asked) /\ req[c].entry.kind = req[c].op
  BY <1>4 DEF Honest, HonestRequest
<1>6. cards[req[c].card] \in CardRow
  BY <1>2 DEF TypeOK
<1>7. req[c].computed.outstanding >= 0
  BY <1>1 DEF NothingNegative
<1>8. Kept(req[c].computed).outstanding = Stored(req[c].computed.outstanding)
  BY <1>2, KeptRow
<1>9. Stored(asked) \in Int
  BY StoredAmount
<1>10. CASE req[c].op = "payment"
  <2>1. req[c].computed.outstanding = whole - asked
    BY <1>3, <1>5, <1>6, <1>10 DEF Moved, CardRow
  <2>2. asked <= whole
    BY <1>7, <2>1
  <2>3. Stored(whole - asked) = whole - Stored(asked) + (IF asked % 10 = 5 THEN 10 ELSE 0)
    BY <1>3, <2>2, StoredSub
  <2>4. Charged(req[c].entry) = (IF asked % 10 = 5 THEN 10 ELSE 0) - Stored(asked)
    BY <1>4, <1>5, <1>10 DEF Charged, HalfPaisa
  <2> QED
    BY <1>3, <1>8, <1>9, <2>1, <2>3, <2>4
<1>11. CASE req[c].op = "spend"
  <2>1. req[c].computed.outstanding = whole + asked
    BY <1>3, <1>5, <1>6, <1>11 DEF Moved, CardRow
  <2>2. Stored(whole + asked) = whole + Stored(asked)
    BY <1>3, StoredAdd
  <2>3. Charged(req[c].entry) = Stored(asked)
    BY <1>4, <1>5, <1>11 DEF Charged
  <2> QED
    BY <1>3, <1>8, <1>9, <2>1, <2>2, <2>3
<1> QED
  BY <1>10, <1>11 DEF MovesMoney

\* What a card owes that no two requests raced for is what was spent and not paid back.
THEOREM BooksAreKept == Spec => []BooksAgree
<1>0. BooksAgree <=> \A k \in Card \ raced : CardAgrees(k)
  BY DEF BooksAgree, CardAgrees, Of, Charges
<1>1. Init => BooksAgree
  <2> SUFFICES ASSUME Init, NEW k \in Card PROVE CardAgrees(k)
    BY <1>0
  <2>1. Of(k) = {}
    BY DEF Init, Of
  <2>2. Charges({}) = 0
    BY SumOfNone DEF Charges, SumFunction
  <2> QED
    BY <2>1, <2>2 DEF Init, CardAgrees
<1>2. TypeOK /\ NothingNegative /\ Honest /\ BooksAgree /\ [Next]_vars => BooksAgree'
  <2> SUFFICES ASSUME TypeOK, NothingNegative, Honest, BooksAgree, [Next]_vars,
                      NEW k \in Card, k \notin raced'
               PROVE  CardAgrees(k)'
    BY DEF BooksAgree, CardAgrees, Of, Charges, Charged, HalfPaisa
  <2>0. /\ cards[k] \in CardRow /\ adjusted[k] \in Int
        /\ k \notin raced => CardAgrees(k)
        /\ IdsApart /\ OnlyMadeCards /\ IsFiniteSet(entries)
    BY <1>0 DEF TypeOK, Honest, OnlyMadeCards
  <2>t. Charges(Of(k)) \in Int
    <3>1. IsFiniteSet(Of(k)) /\ Of(k) \subseteq Entry
      BY <2>0, FS_Subset DEF Of, TypeOK
    <3> QED
      BY <3>1, ChargesType
  <2>s. ASSUME entries' = entries PROVE Charges(Of(k))' = Charges(Of(k))
    <3>1. Of(k)' = Of(k)
      BY <2>s DEF Of
    <3> QED
      BY <3>1 DEF Charges, Charged, HalfPaisa
  \* It is enough that a step moves what the card owes as it moves its books.
  <2>a. ASSUME cards'[k].outstanding = cards[k].outstanding, adjusted'[k] = adjusted[k],
               raced \subseteq raced', Charges(Of(k))' = Charges(Of(k))
        PROVE  CardAgrees(k)'
    BY <2>a, <2>0 DEF CardAgrees
  <2>1. ASSUME NEW j \in Card, NEW l \in Limits, NEW o \in Amounts \union {0},
               NEW n \in CardNamed, CreateCard(j, l, o, n)
        PROVE  CardAgrees(k)'
    <3>1. CASE j # k
      BY <2>1, <3>1, <2>a, <2>s DEF CreateCard, TypeOK
    <3>2. CASE j = k
      <4>1. Of(k)' = {}
        BY <2>0, <2>1, <3>2 DEF Of, CreateCard, OnlyMadeCards, MadeCards
      <4>2. Charges({}) = 0
        BY SumOfNone DEF Charges, SumFunction
      <4>3. Charges(Of(k))' = 0
        BY <4>1, <4>2 DEF Charges, Charged, HalfPaisa
      <4> DEFINE row == [status |-> "live", limit |-> l, outstanding |-> o, named |-> n]
      <4>4. row \in CardRow /\ row.outstanding = o /\ o \in Int
        BY LimitsAssumption, AmountsAssumption, NotesAssumption DEF CardRow
      <4>5. cards'[k] = Kept(row) /\ adjusted'[k] = Stored(o)
        BY <2>1, <3>2 DEF CreateCard, TypeOK
      <4> HIDE DEF row
      <4>6. cards'[k].outstanding = Stored(o) /\ Stored(o) \in Int
        BY <4>4, <4>5, KeptRow, StoredAmount
      <4> QED
        BY <4>3, <4>5, <4>6 DEF CardAgrees
    <3> QED
      BY <3>1, <3>2
  <2>2. ASSUME NEW j \in Card, DeleteCard(j) PROVE CardAgrees(k)'
    <3>1. cards'[k].outstanding = cards[k].outstanding
      BY <2>2 DEF DeleteCard, TypeOK, CardRow
    <3> QED
      BY <2>2, <3>1, <2>a, <2>s DEF DeleteCard
  <2>3. ASSUME NEW c \in Client, NEW j \in Card, NEW n \in CardNamed,
               NEW l \in Limits \union {cards[j].limit},
               NEW o \in Amounts \union {0, cards[j].outstanding}, LoadForUpdate(c, j, l, o, n)
        PROVE  CardAgrees(k)'
    BY <2>3, <2>a, <2>s DEF LoadForUpdate
  <2>4. ASSUME NEW c \in Client, NEW kind \in {"spend", "payment"}, NEW j \in Card,
               NEW a \in Amounts, NEW says \in Notes(kind, cards[j]),
               LoadForMoney(c, kind, j, a, says)
        PROVE  CardAgrees(k)'
    BY <2>4, <2>a, <2>s DEF LoadForMoney
  <2>5. ASSUME NEW c \in Client, CommitUpdate(c) PROVE CardAgrees(k)'
    <3>1. WriteCard(c) /\ req[c].op # "idle" /\ entries' = entries
      BY <2>5 DEF CommitUpdate
    <3>2. CASE k # req[c].card
      BY <2>5, <3>1, <3>2, <2>a, <2>s, WriteUnraced DEF CommitUpdate, TypeOK
    <3>3. CASE k = req[c].card
      <4>1. cards[k] = req[c].loaded /\ cards'[k] = Kept(req[c].computed) /\ k \notin raced
        BY <3>1, <3>3, WriteUnraced
      <4>2. adjusted'[k] = adjusted[k] + (Stored(req[c].computed.outstanding) - req[c].loaded.outstanding)
        BY <2>5, <3>3 DEF CommitUpdate, TypeOK
      <4>3. req[c].computed \in CardRow /\ req[c].computed.outstanding \in Int /\ req[c].loaded.outstanding \in Int
        BY <3>1, RequestType DEF CardRow
      <4>4. cards'[k].outstanding = Stored(req[c].computed.outstanding) /\ Stored(req[c].computed.outstanding) \in Int
        BY <4>1, <4>3, KeptRow, StoredAmount
      <4>5. Charges(Of(k))' = Charges(Of(k))
        BY <3>1, <2>s
      <4> QED
        BY <2>0, <2>t, <4>1, <4>2, <4>3, <4>4, <4>5 DEF CardAgrees
    <3> QED
      BY <3>2, <3>3
  <2>6. ASSUME NEW c \in Client, CommitMoney(c) PROVE CardAgrees(k)'
    <3> DEFINE x == req[c].entry
    <3>1. /\ WriteCard(c) /\ req[c].op # "idle" /\ MovesMoney(c)
          /\ entries' = entries \union {x} /\ adjusted' = adjusted
      BY <2>6 DEF CommitMoney, MovesMoney
    <3>2. x \in Entry /\ x \notin entries
      BY <3>1, <2>0, RequestType DEF IdsApart, MovesMoney
    <3>3. x.card = req[c].card
      BY <3>1 DEF Honest, HonestRequest
    <3>4. Charges(Of(k))' = Charges(Of(k)) + (IF x.card = k THEN Charged(x) ELSE 0)
      BY <2>0, <3>1, <3>2, RecordCharges
    <3>5. Charged(x) \in Int
      BY <3>2, ChargedType
    <3>6. CASE k # req[c].card
      BY <2>t, <3>1, <3>3, <3>4, <3>6, <2>a, WriteUnraced
    <3>7. CASE k = req[c].card
      <4>1. cards[k] = req[c].loaded /\ cards'[k] = Kept(req[c].computed) /\ k \notin raced
        BY <3>1, <3>7, WriteUnraced
      <4>2. cards'[k].outstanding = cards[k].outstanding + Charged(x)
        BY <3>1, <3>7, <4>1, MoneyCharges
      <4>3. cards[k].outstanding \in Int
        BY <2>0 DEF CardRow
      <4>4. CardAgrees(k) /\ x.card = k
        BY <2>0, <3>3, <3>7, <4>1
      <4> HIDE DEF x
      <4> QED
        BY <2>0, <2>t, <3>1, <3>4, <3>5, <4>2, <4>3, <4>4 DEF CardAgrees
    <3> QED
      BY <3>6, <3>7
  <2>7. ASSUME NEW c \in Client, RollBack(c) PROVE CardAgrees(k)'
    BY <2>7, <2>a, <2>s DEF RollBack
  <2>8. ASSUME NEW e \in entries, DeleteEntry(e) PROVE CardAgrees(k)'
    <3>1. PICK y : y = [e EXCEPT !.live = FALSE]
      OBVIOUS
    <3>2. y \in Entry /\ y.id = e.id /\ y.card = e.card /\ y.kind = e.kind /\ y.asked = e.asked
      BY <3>1 DEF TypeOK, Entry
    <3>3. Charges(Of(k))' = Charges(Of(k))
      BY <2>0, <2>8, <3>1, <3>2, EditCharges DEF DeleteEntry
    <3> QED
      BY <2>8, <3>3, <2>a DEF DeleteEntry
  <2>9. ASSUME NEW e \in entries, NEW a \in Amounts \union {e.amount},
               NEW says \in CustomNote \union {e.saysPayment}, UpdateEntry(e, a, says)
        PROVE  CardAgrees(k)'
    <3>1. PICK y : y = [e EXCEPT !.amount = Stored(a), !.saysPayment = says]
      OBVIOUS
    <3>2. Stored(a) \in Nat /\ says \in BOOLEAN
      BY AmountsAssumption, NotesAssumption, StoredAmount DEF TypeOK, Entry
    <3>3. y \in Entry /\ y.id = e.id /\ y.card = e.card /\ y.kind = e.kind /\ y.asked = e.asked
      BY <3>1, <3>2 DEF TypeOK, Entry
    <3>4. Charges(Of(k))' = Charges(Of(k))
      BY <2>0, <2>9, <3>1, <3>3, EditCharges DEF UpdateEntry
    <3> QED
      BY <2>9, <3>4, <2>a DEF UpdateEntry
  <2>10. CASE UNCHANGED vars
    BY <2>10, <2>a, <2>s DEF vars
  <2> QED
    BY <2>1, <2>2, <2>3, <2>4, <2>5, <2>6, <2>7, <2>8, <2>9, <2>10 DEF Next
<1> QED
  BY <1>1, <1>2, TypeCorrect, AmountsStaySound, RequestsAreHonest, PTL DEF Spec

-----------------------------------------------------------------------------
(* Net worth: a commit nothing overlapped moves the outstanding amount of  *)
(* one live card, and a payment moves the cash by as much the other way.   *)

LiveCards == {k \in Card : Live(k)}
Owed == SumFunction([k \in LiveCards |-> cards[k].outstanding])
Cash == {e \in entries : CashRelevant(e)}

\* What is owed moves with the one card that a commit writes.
LEMMA OwedMoves ==
    ASSUME TypeOK, TypeOK', IsFiniteSet(MadeCards), NEW j \in Card, Live(j), cards'[j].status = "live",
           \A k \in Card \ {j} : cards'[k] = cards[k]
    PROVE  /\ Owed \in Int
           /\ Owed' = Owed + (cards'[j].outstanding - cards[j].outstanding)
<1> DEFINE before == [k \in LiveCards |-> cards[k].outstanding]
           after == [k \in LiveCards |-> cards'[k].outstanding]
<1>1. LiveCards' = LiveCards /\ j \in LiveCards
  BY DEF LiveCards, Live
<1>2. IsFiniteSet(LiveCards)
  <2>1. LiveCards \subseteq MadeCards
    BY DEF LiveCards, MadeCards, Live
  <2> QED
    BY <2>1, FS_Subset
<1>3. \A k \in LiveCards : before[k] \in Int /\ after[k] \in Int
  BY DEF TypeOK, CardRow, LiveCards
<1>4. \A k \in LiveCards \ {j} : before[k] = after[k]
  BY DEF LiveCards
<1>5. Owed = SumFunctionOnSet(before, LiveCards)
  BY DEF Owed, SumFunction
<1>6. Owed' = SumFunctionOnSet(after, LiveCards)
  BY <1>1 DEF Owed, SumFunction
<1>7. after[j] = cards'[j].outstanding /\ before[j] = cards[j].outstanding
  BY <1>1
<1> HIDE DEF before, after
<1>8. SumFunctionOnSet(after, LiveCards) = SumFunctionOnSet(before, LiveCards) + (after[j] - before[j])
  BY <1>1, <1>2, <1>3, <1>4, SumChange
<1>9. SumFunctionOnSet(before, LiveCards) \in Int
  BY <1>2, <1>3, SumType
<1> QED
  BY <1>5, <1>6, <1>7, <1>8, <1>9

\* With a note that tells a payment from a spend, a spend that nothing overlapped lowers
\* net worth by its amount, and paying it back moves it by the half paisa at most.
THEOREM PayingBackMovesNothing == Spec => PayingBackIsNeutral
<1> DEFINE Neutral ==
      \A c \in Client :
         /\ CommitMoney(c)
         /\ cards[req[c].card] = req[c].loaded
         /\ req[c].entry.saysPayment <=> req[c].op = "payment"
         => HitsOnce(req[c])
<1>1. TypeOK /\ TypeOK' /\ NothingNegative /\ Honest /\ [Next]_vars => [Neutral]_vars
  <2> SUFFICES ASSUME TypeOK, TypeOK', NothingNegative, Honest, NEW c \in Client, CommitMoney(c),
                      cards[req[c].card] = req[c].loaded,
                      req[c].entry.saysPayment <=> req[c].op = "payment"
               PROVE  HitsOnce(req[c])
    OBVIOUS
  <2> DEFINE x == req[c].entry
             j == req[c].card
  <2>1. /\ WriteCard(c) /\ req[c].op # "idle" /\ MovesMoney(c) /\ entries' = entries \union {x}
    BY DEF CommitMoney, MovesMoney
  <2>2. j \in Card /\ req[c].loaded \in CardRow /\ req[c].computed \in CardRow /\ x \in Entry
    BY <2>1, RequestType DEF MovesMoney
  <2>3. x \notin entries /\ IsFiniteSet(entries) /\ IsFiniteSet(MadeCards)
    BY <2>1 DEF Honest, IdsApart, OnlyMadeCards
  <2>4. HonestRequest(c)
    BY DEF Honest
  <2>5. /\ cards'[j] = Kept(req[c].computed)
        /\ \A k \in Card \ {j} : cards'[k] = cards[k]
    BY <2>1, <2>2, FlushFresh DEF WriteCard, TypeOK
  <2>6. Live(j) /\ cards'[j].status = "live"
    BY <2>1, <2>2, <2>4, <2>5, KeptRow DEF HonestRequest, Live
  <2>7. Owed \in Int /\ Owed' = Owed + (cards'[j].outstanding - cards[j].outstanding)
    BY <2>2, <2>3, <2>5, <2>6, OwedMoves
  <2>8. cards'[j].outstanding = cards[j].outstanding + Charged(x)
    BY <2>1, <2>5, MoneyCharges
  <2>9. PICK out \in Int, amount \in Int, charged \in Int, half \in Int :
           out = cards[j].outstanding /\ amount = x.amount /\ charged = Charged(x) /\ half = HalfPaisa(x)
    <3>1. cards[j].outstanding \in Int /\ x.amount \in Int
      BY <2>2 DEF TypeOK, CardRow, Entry
    <3>2. Charged(x) \in Int /\ HalfPaisa(x) \in Int
      BY <2>2, ChargedType
    <3> QED
      BY <3>1, <3>2
  <2>10. Owed' = Owed + charged
    BY <2>7, <2>8, <2>9
  <2>c. charged = IF req[c].op = "spend" THEN amount ELSE half - amount
    BY <2>1, <2>4, <2>9 DEF HonestRequest, Charged
  \* The cash that a payment takes is its amount, and a spend takes none.
  <2>11. CashRelevant(x) <=> req[c].op = "payment"
    BY <2>1, <2>4 DEF HonestRequest, CashRelevant
  <2>12. IsFiniteSet(Cash) /\ Cash \subseteq Entry /\ x \notin Cash
    BY <2>3, FS_Subset DEF Cash, TypeOK
  <2>13. Total(Cash) \in Int
    BY <2>12, TotalType
  <2>14. Total(Cash') = Total(Cash) + (IF req[c].op = "payment" THEN amount ELSE 0)
    <3>1. CASE req[c].op = "payment"
      <4>1. Cash' = Cash \union {x}
        BY <2>1, <2>11, <3>1 DEF Cash, CashRelevant
      <4>2. Total(Cash \union {x}) = Total(Cash) + x.amount
        BY <2>2, <2>12, TotalAdd
      <4> QED
        BY <2>9, <3>1, <4>1, <4>2
    <3>2. CASE req[c].op # "payment"
      <4>1. Cash' = Cash
        BY <2>1, <2>11, <3>2 DEF Cash, CashRelevant
      <4> QED
        BY <2>13, <3>2, <4>1
    <3> QED
      BY <3>1, <3>2
  <2>15. NetWorth = 0 - Total(Cash) - Owed /\ NetWorth' = 0 - Total(Cash') - Owed'
    BY DEF NetWorth, Cash, Owed, LiveCards, Total
  <2>16. CASE req[c].op = "payment"
    <3>1. Total(Cash') = Total(Cash) + amount /\ Owed' = Owed + (half - amount)
      BY <2>10, <2>14, <2>16, <2>c
    <3>2. NetWorth' = NetWorth - half
      BY <2>7, <2>13, <2>15, <3>1
    <3> QED
      BY <2>9, <2>16, <3>2 DEF HitsOnce
  <2>17. CASE req[c].op = "spend"
    <3>1. Total(Cash') = Total(Cash) /\ Owed' = Owed + amount
      BY <2>10, <2>13, <2>14, <2>17, <2>c
    <3>2. NetWorth' = NetWorth - amount
      BY <2>7, <2>13, <2>15, <3>1
    <3> QED
      BY <2>9, <2>17, <3>2 DEF HitsOnce
  <2> QED
    BY <2>1, <2>16, <2>17 DEF MovesMoney
<1> QED
  BY <1>1, TypeCorrect, AmountsStaySound, RequestsAreHonest, PTL DEF Spec, PayingBackIsNeutral
=============================================================================
