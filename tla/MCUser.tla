-------------------------------- MODULE MCUser --------------------------------
(***************************************************************************)
(* The components around the user, checked in one run: signed-in devices,  *)
(* statement imports, receipts, notifications, the budget, the books and   *)
(* their views, and what leads to the first request.  Their tables are     *)
(* disjoint, so each runs by itself: `part` says which one does in this    *)
(* behaviour.                                                              *)
(***************************************************************************)
EXTENDS DeviceSessions, ImportJobs, Receipts, FirstUse, Books, Inbox

VARIABLE part

userRunVars == <<deviceVars, importVars, receiptVars, firstUseVars, bookVars, inboxVars, part>>

\* Two months, the first of two days; and the plans, in tenths of a paisa like
\* every amount, of a user with nothing and of one with a budget.
MCMonthLength == <<2, 1>>
MCPlan == {[saved |-> 0, target |-> 60, sip |-> 0, emi |-> 0],
           [saved |-> 40, target |-> 60, sip |-> 10, emi |-> 10]}

UserTypeOK == DevicesTypeOK /\ ImportsTypeOK /\ ReceiptsTypeOK /\ FirstUseTypeOK /\ BooksTypeOK
              /\ InboxTypeOK

UserInit ==
    /\ DevicesInit
    /\ ImportsInit
    /\ ReceiptsInit
    /\ FirstUseInit
    /\ BooksInit
    /\ InboxInit
    /\ part \in {"devices", "imports", "receipts", "first use", "budget", "books", "inbox"}
    /\ part # "first use" => revision = "columns" /\ users = {}
    /\ part # "books" => ~budget.exists
    /\ part = "books" => budget.row.alertPct = NoRow.alertPct /\ budget.exists = (budget.row.limit > 0)
    /\ budget.exists <=> plan.saved > 0

UserNext ==
    /\ UNCHANGED part
    /\ \/ part = "devices" /\ DevicesNext
          /\ UNCHANGED <<importVars, receiptVars, firstUseVars, bookVars, inboxVars>>
       \/ part = "imports" /\ ImportsNext
          /\ UNCHANGED <<deviceVars, receiptVars, firstUseVars, bookVars, inboxVars>>
       \/ part = "receipts" /\ ReceiptsNext
          /\ UNCHANGED <<deviceVars, importVars, firstUseVars, bookVars, inboxVars>>
       \/ part = "first use" /\ FirstUseNext
          /\ UNCHANGED <<deviceVars, importVars, receiptVars, bookVars, inboxVars>>
       \/ part = "budget" /\ BudgetNext
          /\ UNCHANGED <<deviceVars, importVars, receiptVars, firstUseVars, book, plan, inboxVars>>
       \/ part = "books" /\ TransactionsNext
          /\ UNCHANGED <<deviceVars, importVars, receiptVars, firstUseVars, inboxVars>>
       \/ part = "inbox" /\ InboxNext
          /\ UNCHANGED <<deviceVars, importVars, receiptVars, firstUseVars, bookVars>>

UserFairness == part = "first use" => StartUpFairness

UserSpec == UserInit /\ [][UserNext]_userRunVars /\ UserFairness

\* What the user chose last is what there is: the settings, the budget, the phone.
ChoicesKept == SettingsKept /\ BudgetAsAnswered /\ PushesGoToTheUser

\* What is checked of the components that run: a start-up completes where there is one.
CatalogCompletesInTheEnd == part = "first use" => CatalogCompletes
=============================================================================
