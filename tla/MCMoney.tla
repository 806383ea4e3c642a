------------------------------- MODULE MCMoney -------------------------------
(***************************************************************************)
(* The components that keep the user's money, checked in one run.  Their   *)
(* tables are disjoint, so each runs by itself (`part` says which one does *)
(* in this behaviour), and "wealth" runs them together under NetWorth.     *)
(***************************************************************************)
EXTENDS NetWorth, Groups, TLC

CONSTANTS asha, bala, chitra

VARIABLE part

moneyVars == <<wealthVars, groupVars, part>>

MCRate == {[num |-> 1, den |-> 12], [num |-> 1, den |-> 100]}
MCOpening == {-5, 2995}
MCMemberList == {<< >>, <<asha, bala, chitra>>, <<bala, chitra>>}
Share(person, amount) == [member |-> person, amount |-> amount]
MCClientSplits ==
    {<< >>, <<Share(chitra, 50)>>, <<Share(asha, 25)>>, <<Share(bala, 25), Share(chitra, 25)>>}

Symmetry == Permutations(Client) \union Permutations(Goal) \union Permutations(GroupExpense)

MoneyTypeOK == WealthTypeOK /\ GroupsTypeOK

wealthOnly == <<holdings, totals, reader, snapshot, commits>>

MoneyInit ==
    /\ WealthInit
    /\ GroupsInit
    /\ part \in {"ledger", "goals", "loans", "groups", "wealth"}
    /\ part # "groups" => members = <<asha, bala, chitra>> /\ unshared = {}

MoneyNext ==
    /\ UNCHANGED part
    /\ \/ part = "ledger" /\ LedgerNext /\ UNCHANGED <<goalVars, loanVars, wealthOnly, groupVars>>
       \/ part = "goals" /\ GoalsNext /\ UNCHANGED <<ledgerVars, loanVars, wealthOnly, groupVars>>
       \/ part = "loans" /\ LoansNext /\ UNCHANGED <<ledgerVars, goalVars, wealthOnly, groupVars>>
       \/ part = "groups" /\ GroupsNext /\ UNCHANGED wealthVars
       \/ part = "wealth" /\ WealthNext /\ UNCHANGED groupVars

MoneySpec == MoneyInit /\ [][MoneyNext]_moneyVars
=============================================================================
