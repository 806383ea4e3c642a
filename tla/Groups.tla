-------------------------------- MODULE Groups --------------------------------
(***************************************************************************)
(* One group of people who share expenses (api/v1/groups).  The shares of  *)
(* an expense are stored with it, so that members may come and go; what    *)
(* everyone owes is worked out from the rows whenever it is asked for.     *)
(*                                                                         *)
(* Amounts are in tenths of a paisa (UnitOfWork).  Names, dates and the    *)
(* stored order of rows are left out.                                      *)
(***************************************************************************)
EXTENDS Integers, FiniteSets, Sequences, UnitOfWork, FiniteSetsExt

CONSTANTS
    Person,         \* names
    MemberList,     \* lists of members that a request may name, the empty one too
    GroupExpense,   \* ids of expenses
    GroupAmount,    \* amounts of an expense
    ClientSplits,   \* lists of shares that a client may send, the empty one too
    Settled,        \* amounts of a settlement, as the column keeps them
    MaxSettlements  \* bound: settlements at a time

ASSUME MemberListAssumption == MemberList \subseteq Seq(Person)
ASSUME ClientSplitsAssumption == ClientSplits \subseteq Seq([member : Person, amount : Nat])
ASSUME GroupAmountAssumption == GroupAmount \subseteq Nat \ {0}
ASSUME SettledAssumption == Settled \subseteq Nat \ {0} /\ \A a \in Settled : a % 10 = 0
ASSUME MaxSettlementsAssumption == MaxSettlements \in Nat
ASSUME FiniteAssumption == IsFiniteSet(Person) /\ IsFiniteSet(GroupExpense)

VARIABLES
    members,        \* column members of the group
    expenses,       \* table group_expenses: id -> row
    settlements,    \* table group_settlements
    roundedOff,     \* history: expenses added with parts of a paisa
    unshared        \* history: equal expenses whose shares the server did not store

groupVars == <<members, expenses, settlements, roundedOff, unshared>>

Split == [member : Person, amount : Nat]
ExpenseRow == [status : {"absent", "live", "deleted"}, payer : Person, amount : Nat,
               equal : BOOLEAN, splits : Seq(Split)]
Settlement == [from : Person, to : Person, amount : Settled]

GroupsTypeOK ==
    /\ members \in MemberList
    /\ expenses \in [GroupExpense -> ExpenseRow]
    /\ settlements \subseteq Settlement
    /\ roundedOff \subseteq GroupExpense
    /\ unshared \subseteq GroupExpense

NoExpense ==
    [status |-> "absent", payer |-> CHOOSE p \in Person : TRUE, amount |-> 0, equal |-> TRUE, splits |-> << >>]

\* Rows from before shares were stored.
LegacyRow ==
    [status : {"live"}, payer : Person, amount : {Stored(a) : a \in GroupAmount}, equal : {TRUE},
     splits : {<< >>}]

\* A group, which takes at least one member, with any legacy rows.
GroupsInit ==
    /\ members \in MemberList \ {<< >>}
    /\ expenses \in [GroupExpense -> {NoExpense} \union LegacyRow]
    /\ settlements = {}
    /\ roundedOff = {}
    /\ unshared = {x \in GroupExpense : expenses[x].status = "live"}

-----------------------------------------------------------------------------
(* Shares.                                                                 *)

\* Mutations of EqualShares: the remainder is dropped, or all of it is the first member's.
EqualShares_Dropped(amount, list) ==
    LET paise == WholePaise(amount)
    IN  [i \in DOMAIN list |-> [member |-> list[i], amount |-> 10 * (paise \div Len(list))]]

EqualShares_First(amount, list) ==
    LET paise == WholePaise(amount)
    IN  [i \in DOMAIN list |->
            [member |-> list[i],
             amount |-> 10 * (paise \div Len(list) + (IF i = 1 THEN paise % Len(list) ELSE 0))]]

\* _equal_shares: the paise that are left over go to the first members, one each.
EqualShares(amount, list) ==
    LET paise == WholePaise(amount)
    IN  [i \in DOMAIN list |->
            [member |-> list[i],
             amount |-> 10 * (paise \div Len(list) + (IF i <= paise % Len(list) THEN 1 ELSE 0))]]

SplitTotal(splits) == SumFunction([i \in DOMAIN splits |-> splits[i].amount])

\* Mutation of SplitsToStore: shares are left to be worked out when they are asked for.
SplitsToStore_None(equal, amount, sent) == IF equal /\ members # << >> THEN << >> ELSE sent

\* add_expense: equal shares are the server's, unless the group has no members.
SplitsToStore(equal, amount, sent) ==
    IF equal /\ members # << >> THEN EqualShares(amount, members) ELSE sent

\* _compute_balances: shares of a row without any are worked out among today's members.
SplitsOf(row) ==
    IF row.splits = << >> /\ row.equal /\ members # << >>
      THEN EqualShares(row.amount, members)
      ELSE row.splits

LiveExpenses == {x \in GroupExpense : expenses[x].status = "live"}

PaidBy(p) ==
    SumFunction([x \in {y \in LiveExpenses : expenses[y].payer = p} |-> expenses[x].amount])
      + SumFunction([s \in {t \in settlements : t.from = p} |-> s.amount])

ShareOf(p, splits) ==
    SumFunction([i \in {j \in DOMAIN splits : splits[j].member = p} |-> splits[i].amount])

OwedBy(p) ==
    SumFunction([x \in LiveExpenses |-> ShareOf(p, SplitsOf(expenses[x]))])
      + SumFunction([s \in {t \in settlements : t.to = p} |-> s.amount])

Balance(p) == PaidBy(p) - OwedBy(p)

-----------------------------------------------------------------------------
(* Requests.                                                               *)

\* update_group: the members are what the request says.
UpdateMembers(list) ==
    /\ list # members
    /\ members' = list
    /\ UNCHANGED <<expenses, settlements, roundedOff, unshared>>

\* add_expense: shares that are not equal must add up to the amount as it was sent.
\* Shares that nobody would read are not sent.  It reads the members and inserts a row:
\* one step, as if the members had changed after it if they change in between.
AddExpense(x, payer, amount, equal, sent) ==
    /\ expenses[x].status = "absent"
    /\ equal \/ (sent # << >> /\ SplitTotal(sent) = amount)
    /\ equal /\ members # << >> => sent = << >>
    /\ expenses' = [expenses EXCEPT ![x] =
         [status |-> "live", payer |-> payer, amount |-> Stored(amount), equal |-> equal,
          splits |-> SplitsToStore(equal, amount, sent)]]
    /\ roundedOff' = IF amount % 10 # 0 THEN roundedOff \union {x} ELSE roundedOff
    /\ unshared' = IF equal /\ members = << >> THEN unshared \union {x} ELSE unshared
    /\ UNCHANGED <<members, settlements>>

DeleteExpense(x) ==
    /\ x \in LiveExpenses
    /\ expenses' = [expenses EXCEPT ![x].status = "deleted"]
    /\ UNCHANGED <<members, settlements, roundedOff, unshared>>

\* add_settlement, between any two names; the model keeps one of a kind.
AddSettlement(s) ==
    /\ s \notin settlements
    /\ Cardinality(settlements) < MaxSettlements
    /\ settlements' = settlements \union {s}
    /\ UNCHANGED <<members, expenses, roundedOff, unshared>>

DeleteSettlement(s) ==
    /\ s \in settlements
    /\ settlements' = settlements \ {s}
    /\ UNCHANGED <<members, expenses, roundedOff, unshared>>

-----------------------------------------------------------------------------
GroupsNext ==
    \/ \E list \in MemberList : UpdateMembers(list)
    \/ \E x \in GroupExpense, payer \in Person, amount \in GroupAmount, equal \in BOOLEAN,
          sent \in ClientSplits : AddExpense(x, payer, amount, equal, sent)
    \/ \E x \in GroupExpense : DeleteExpense(x)
    \/ \E s \in Settlement : AddSettlement(s) \/ DeleteSettlement(s)

GroupsSpec == GroupsInit /\ [][GroupsNext]_groupVars

-----------------------------------------------------------------------------
(* Properties.                                                             *)

\* Equal expenses with shares that a client sent, there being no members: nobody checks
\* those.
ClientShares == {x \in unshared : expenses[x].splits # << >>}

\* Rows that wait for the group to have members: nobody owes them.
Unsplit == {x \in LiveExpenses : SplitsOf(expenses[x]) = << >>}

\* What the members owe each other cancels out, whatever is added, deleted or settled,
\* and whoever leaves: but for shares that nobody worked out or checked, and for one paisa
\* at most for each expense that was sent with parts of a paisa.
BalancesCancel ==
    LET slack == 10 * Cardinality(LiveExpenses \intersect roundedOff)
        total == SumFunction([p \in Person |-> Balance(p)])
    IN  (LiveExpenses \intersect ClientShares) \union Unsplit = {} => total \in (-slack) .. slack

\* The server's shares of an equal expense are whole paise that no two members' differ in
\* by more than one, and add up to what was paid, the rounding of parts of a paisa aside.
EqualSharesFair ==
    \A x \in LiveExpenses \ (ClientShares \union Unsplit) :
        LET splits == SplitsOf(expenses[x]) IN
        expenses[x].equal =>
            /\ x \notin roundedOff => SplitTotal(splits) = expenses[x].amount
            /\ \A i, j \in DOMAIN splits : splits[i].amount <= splits[j].amount + 10

\* What a person owes of expenses whose shares are worked out when they are asked for.
OwedUnshared(p) ==
    SumFunction([x \in LiveExpenses \intersect unshared |-> ShareOf(p, SplitsOf(expenses[x]))])

\* Who owes what does not change when members join or leave, but for the shares of
\* expenses that were stored without any: legacy rows, and those added while there were no
\* members.  Those alone are divided anew.
MembersKeepDebts ==
    [][members' # members
         => \A p \in Person : (Balance(p) + OwedUnshared(p))' = Balance(p) + OwedUnshared(p)]_groupVars
=============================================================================
