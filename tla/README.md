# Paisa backend: specifications, model checks and proofs

Paisa is a FastAPI backend for personal finance on PostgreSQL, with a Celery worker,
Celery Beat and Redis. These modules specify the parts of it in which several actors
change shared rows (requests from a user's devices, the nightly rollover of bills, the
daily reminder jobs, start-ups and migrations) and the arithmetic that its figures rest
on: shares, loan schedules, reports and the health score. TLC checks them on small instances; TLAPS proves every
safety property that a run checks for every value of the constants.

## The system

One request runs in one session and one READ COMMITTED transaction
(`app/core/database.py`); the worker's tasks open one session for all users. Nothing locks
a row, no table has a version column, and unique constraints exist only on user e-mail,
category kind and name, budget owner, push token, configuration key and
configuration per user. A handler reads, decides and writes what it computed; other
requests may commit in between. An UPDATE without a row's id waits for locks on the rows it
found and does not see rows inserted since it began. `created_at` is the start of the inserting transaction.
That shared behaviour is module `UnitOfWork`; everything below builds on it.

| Component (`app/...`) | State | Operations | Interacts with | Hard behaviour | What makes it correct |
|---|---|---|---|---|---|
| bills | due date, `paid_on`, frequency | create, edit, delete, pay, unpay, toggle auto, rollover | writes transactions; read by reminders | pay, unpay and rollover interleave; rollover dies | one payment per cycle; a closed cycle was paid; unpay undoes this cycle; paid bills roll over |
| transactions | rows with links to a bill, card, commitment, policy or ledger entry; receipt path | create, edit, soft-delete, attach receipt; record, find and remove for the owners of links | everything that moves money | the owner of a link is not told of edits and deletes; file and row are not atomic | links agree with the owner's state |
| worker reminders | Redis keys, notifications | three daily jobs | bills, commitments, policies, transactions, mail provider, Redis | two runners, crash after the mail, Redis down | nobody due is forgotten; nobody is mailed twice without cause |
| internal | none | `POST /internal/reminders/run` | the second runner of those jobs | overlaps Beat | as above |
| notifications | notifications, push tokens | list, mark read, upsert and delete token | reminders | a phone changes hands while requests about it run | pushes go to its present user |
| cards | limit, outstanding | create, edit, delete, pay, spend | transactions, net worth | overlapping spends and payments | never negative, within the limit, agrees with the books, a spend counts once |
| net_worth | monthly snapshots | compute, snapshot | cards, loans, goals, ledger, assets, investments, transactions | reads in several statements | a snapshot is the net worth of before or after the one change that was made meanwhile |
| fixed_commitments | due day, amount | create, edit, delete, toggle paid | transactions, reminders | two toggles, edits of the linked date | at most one payment per month |
| policies | renewal date, premium | create, edit, delete, toggle premium | transactions, reminders | payment has no period | at most one live payment |
| ledger | entries per person | create, edit, delete, list with backfill | transactions | a read writes | one cash row per entry, with its sign |
| groups | members, expenses with shares, settlements | replace members, add and delete | none | rounding, members who leave, rows without shares | balances cancel; stored shares stay where they were |
| goals | target, saved, emergency flag | create, edit, delete, contribute | net worth, score | overlapping contributions, flag | saved within target, one emergency fund |
| loans | outstanding, rate, tenure | create, edit, delete, prepay, schedule | net worth, score | overlapping prepayments, rounding | outstanding not below zero, the schedule repays it |
| import_jobs | job, rows | upload, edit row, confirm | transactions | confirm repeated | what was reviewed is recorded, once per confirmation |
| transaction receipts | file on disk, path in the row | upload, download | transactions | file and row are not atomic | the path leads to the picture |
| auth, security | credential version, device sessions | sign in, sign out, change password, list, revoke | each other | sign-in, sign-out and clean-up overlap | what is rejected stays rejected; one session per browser |
| configuration, bootstrap, accounts, registration, migrations | option catalog, user settings, accounts, users | migrate, seed, register, get-or-create, set | each other | start-ups overlap and die; migrations move data | choices survive; one account; the catalog completes |
| budget | one row: limit, alert percentage | put | transactions, score | two PUTs overlap | the row is what was answered |
| dashboard, insights, calendar | none | totals, breakdown, calendar, alert, score | transactions, budget, goals, loans | the same rows in different queries | the views agree; the score is sound |
| assets, investments | value | create, edit, delete, sum | net worth | none across writes | counted once in the net worth |
| categories | taxonomy, cached list | list | transactions | none: no endpoint changes it | a row's category fits its kind |
| milestones | rows | create, edit, delete | none | none across writes | not in scope |
| status cards, reports, scanner, health, portal, middleware, templates | none | reads, layout, plumbing | | none | not in scope |

`PROJECT.json` lists every component with its status, and under `hazards` each place
where the code is hard to test, with the property that covers it or the reason none does.

## The modules

| Module | Contents |
|---|---|
| `UnitOfWork` | `Flush`: what a session writes to a row it loaded earlier; `Stored`, `WholePaise`: what becomes of parts of a paisa |
| `Bills`, `MCBills`, `BillsProofs` | bills, their payments, the rollover task |
| `Reminders`, `MCReminders`, `RemindersProofs` | the reminder jobs, their keys, mails and notifications |
| `Cards`, `MCCards`, `CardsProofs` | cards, their transactions, cash and net worth |
| `PaidRegister` | abstract specification: the set of what is marked as paid |
| `PaidToggles`, `MCPaidToggles`, `PaidTogglesProofs` | "mark as paid" of commitments and policies, which implements it |
| `Requests` | what the modules below share: a device's one request in flight, a query limited to one row |
| `Ledger` | entries of the people ledger and their mirrored cash transactions |
| `Goals` | savings goals and the emergency fund |
| `Amortization`, `AmortizationProofs` | installment and schedule of a loan, as functions, and what the schedule adds up to |
| `Loans` | loans, their prepayments and schedules |
| `Groups` | shared expenses and the balances of a group |
| `NetWorth` | composes `Ledger`, `Goals`, `Loans`, holdings and a reader that adds them up |
| `MCMoney`, `MoneyProofs` | instance of the five modules above, and the proofs about each of them and all together |
| `DeviceSessions` | sign-in, sign-out, the test of a token |
| `ImportJobs` | statement files, review, confirmation |
| `Receipts` | pictures on disk and the rows that name them |
| `Settings` | option catalog, conversions, the data migrations 0015 and 0016, as functions |
| `FirstUse` | composes `Settings` with start-ups, registration, accounts and requests |
| `Budget` | the budget row and its alert |
| `Books` | transactions and every view that adds them up; extends `Budget` |
| `Inbox` | notifications the user reads, push tokens |
| `MCUser`, `UserProofs` | instance of the seven modules above, and the proofs about each of them and all together |
| `Sums` | lemmas the proofs share: sums over finite sets, iteration, division with rest |

`UnitOfWork.Flush(current, loaded, computed)`: SQLAlchemy's UPDATE names only the columns
in which the object differs from what was loaded, and writes the computed value. A stale
request therefore overwrites a column it changed and leaves one it did not.

No request schema limits the decimals of an amount, and the columns are `Numeric(14, 2)`. A
response is made from the object in the session, which keeps the amount as it was sent.
Amounts in `Cards`, `Goals`, `Loans`, `Groups` and `Budget` are therefore tenths of a paisa, and a row goes
through `Stored` when it is written, which rounds half a paisa away from zero as PostgreSQL
does. `WholePaise` is the rounding of Python's `to_integral_value`, half to even.

### Bills

A request that reads and then writes is a `Load...` step (the reads and guards) and a
`Commit...` step; `unpay_bill` has a second query and so a step `FindPayment` in between.
The rollover loads every bill (`LoadRollover`), later commits all of them
(`CommitRollover`), or dies (`RolloverCrash`). Handlers that write one column with a value
independent of what they read (create, edit of the due date, delete) are one step. A
payment's `id` is its place in `created_at` order, so `LoadForPay` takes it and
`CommitPay` makes the row visible. `paid` is `paid_on` being set. `Period[b]` stands for
`advance_due_date`; months of different length are planned. Two history variables carry
the properties: `cycle` counts the rollover's advances of a bill, and `late` holds the
payments that were undone when the rollover had read the bill as paid (`UnseenByRollover`):
those it could not know of.

### Reminders

A runner is a process that runs jobs: the Celery worker, or the API process serving the
cron endpoint. A job queries its items (`StartJob`), and for each of them skips it
(`SkipItem`) or finds its key absent (`CheckItem`), stages the notification and mails it
(`Deliver`), marks the key (`MarkSent`), and commits all notifications at its end
(`CommitJob`), or dies anywhere in between (`Crash`). Redis may fail at either
call: the check then answers "not sent", the mark is dropped. Whether an item is paid is read
once, at the start, for bills and per item for commitments and policies, as in the code.
`Pay`, `Reschedule` and `Delete` are the effect on the rows a job reads of everything the
user and the rollover do. A job takes its day and month when it begins and may run past
midnight; a commitment's due day is one of that month (`DueOn`). A notification that is lost
with its job and a mail that the provider refuses are in the model, and count as a reminder in
`CompletedJobReminds`: the code marks the key all the same, and promises no more.

### Cards

`LoadForMoney` and `LoadForUpdate` read the card and apply the guards, `CommitMoney` and
`CommitUpdate` flush the row and insert the transaction in one commit. A transaction has
no column that tells a payment from a spend: the code looks for the word "payment" in the
note, and so does `CashRelevant`. A note is the default one, which quotes the card's bank and
name (`named`: they may say "payment"), or typed (`Notes`). `UpdateEntry` and `DeleteEntry`
are PATCH and DELETE of a card's transaction, which do not tell the card. `NetWorth` is what
cards and their transactions contribute to `_compute_totals`. The history variable `raced`
collects cards on which two requests overlapped, `adjusted` what edits did to the balance;
`kind` and `asked` of a transaction are what the request was and named. Because the
transaction and the balance are rounded each on its own, a payment that names a half paisa is
booked as a paisa more than the card is relieved of: `HalfPaisa`.

`PayingBackIsNeutral` is about notes that tell a payment from a spend;
`NetWorthHitOnce` is the same without that condition, as the code's comment has it, and
fails for typed notes and for cards whose name says "payment".

### Paid toggles

Fixed commitments and policies have no column that says whether they are paid. They are if
a lookup finds a live transaction that is linked to them: for a commitment one dated in the
month asked for, for a policy one of any date. The module follows both handlers at once: a
*subject* is a commitment and a month, or a policy. A toggle is `LoadForToggle` (the item
is read), `FindNothing` or `FindPayment` (the lookup), and `CommitPay` or `CommitUnpay`.
`DeleteTransaction` and `MoveTransaction` are what the transaction endpoints do to a linked
payment; neither asks the item. A commitment's lookup raises when it meets two rows, so a
request stuck there can only `RollBack`; a policy's takes the latest. A request names one
month, which is also the month a policy's payment is dated: that of "today". The history
variables collect the subjects whose payments changed under a running toggle (`raced`) and
those to which a payment was moved while one was there (`crowded`).

`PaidRegister` says what all of this is meant to be: a set, and steps that flip one member
or take a payment from one period of an item to another. `PaidToggles` implements it under
`paid <- Paid` whatever overlaps. That a toggle moreover flips the very subject it was asked
for is `ToggleFlips`, and needs that nothing overlapped.

### The people ledger

An entry and its cash transaction are written together; an edit deletes the transaction and
records a new one (`CommitEntryUpdate`), and `GET /ledger` records what is missing: it
reads (`LoadEntries`) and inserts (`CommitBackfill`) in two steps like any write. The
transaction endpoints change a cash row without asking the ledger (`DeleteCash`,
`EditCash`). `ledgerRaced` collects entries that two requests were about at once,
`cashTouched` those whose cash row someone changed by hand since it was last rebuilt.

### Goals and loans

A contribution, an edit or a prepayment reads the row (`LoadContribution`,
`LoadGoalUpdate`, `LoadPrepayment`, ...) and flushes what it computed (`CommitGoal`,
`CommitLoan`), or does not commit (`RollBack...`). A new emergency fund first clears
the flag of the others it finds (`ClearEmergencyFlag`) and inserts its own row at the
commit. `credited` and `owed` are what the responses told the user, in whole paise. A loan's balance may be
entered below zero, as the schema allows (`openedBelow`). `Amortization` has installment and
schedule with the rounding to paise of `loans/schemas.py`; amounts there are paise, and a
rate is a fraction. A loan may begin before, in or after the month it is entered.

### Groups

Every handler writes one row and is one step. Shares of an equal expense are worked out
when it is added and stored with it; a row without shares is divided among the members of the
moment whenever balances are asked for (`SplitsOf`). There are such rows from the start
(`LegacyRow`: those of before shares were stored), and more are added while the group has no
members; `unshared` holds both. Amounts are tenths of a paisa, because a request may name such amounts and
the columns round them.

### Net worth

`_compute_totals` is seven queries in one READ COMMITTED transaction, so `ReadSource` is
one query, and everything the other modules do may happen between two of them.
`StoreSnapshot` is the last query and the commit. `NetWorthNow` is what the user has at one
moment; it counts lending as neutral, which `CashMirrorsEntries` allows. Card debt and the cash
that no entry mirrors are two totals that change at will: `Cards` has what changes them.

### Device sessions

A token names a credential version and a device session. Sign-in reads the user (`LoadLogin`);
the UPDATE of `clear_current_flags` begins (`ClearFlags`), and works on the sessions that are
committed by then (`seen`). When it has their locks, the sign-in looks for an open session of its
browser (`FindSession`), and takes it over or inserts one at its commit (`CommitLogin`).
A session that another sign-in inserts meanwhile keeps its flag. Sign-out and change of
password read the user (`LoadSignOut`), write the version they read plus one and begin the
UPDATE that closes the sessions committed by then (`BeginRevoking`), and commit
(`CommitSignOut`). Locks are `Unlocked`: a step that writes a session waits for the sign-in that
has cleared its flag. Listing the sessions closes duplicates it read (`CommitListing`).
Versions are absolute writes, so two sign-outs count once.

`raced` is set when a sign-in commits that did not see the session of another one, and
cleared when no browser has two sessions and no two are current. `late` holds
the tokens of sign-ins that opened a session while a sign-out, which did not see it, was closing
the others.

### Imports and receipts

An import's `LoadConfirm` reads the rows that are not ignored, `CommitConfirm` records
one expense for each. Nothing stops a second confirmation. An upload writes the file and
unlinks the old one (`WriteReceipt`), then commits the path (`CommitUpload`); it may die
between the unlinks (`DieUnlinking`) or fail to commit (`RollBackUpload`), and the files
stay as they are.

### First use

The settings were columns of `users`, then a flat table (migration 0015), then texts under
a catalog of options (0016). `Upgrade15`, `Downgrade15` and `UpgradeHead` move them with
the conversions of `Settings`. A container that starts runs the seeding script and then the
API's lifespan, each of which reads what is missing (`BeginSeeding`) and inserts it
(`CommitSeeding`); it fails when another one inserted a key first (`FailSeeding`), and may
die (`CrashServer`), after which it is started again. Requests of the release before are
served meanwhile. Registration reads that nobody is registered (`LoadRegister`) and
writes user, settings and account in one commit (`CommitJoin`). A setting is read
(`LoadSet`) and written (`CommitSet`); one that has the value asked for already gets no UPDATE
(`Written`), and then keeps what another request has stored since.

### Budget and books

`Books` is the table of transactions with every request that writes it, each one step, and
the views as functions of its live rows: month totals, all-time totals, breakdown,
calendar, alert and the composite score. Each view has its own filter, as each has its own
query. What goals, investments and loans add to the score is the constant `plan`. The
levers of the score are counted in tenths of a percent.

### Inbox

Reading a notification is one UPDATE. A push token is unique and its row is the phone's:
registering reads the row and inserts it or changes its user, deleting reads the user's
own row and removes it, whoever has it by then. `told` is the user whose registration was
confirmed last, `tokensRaced` the phones about which requests overlapped.

## The runs

| Run | Instance | Question and answer |
|---|---|---|
| `bills_one_device` | 1 bill, 1 device, 3 days, 3 payments | `OnePaymentPerCycle`, `PaidBillHasPayment`, `ClosedCyclesWerePaid`, `UnpayUndoesThisCycle`, and under fairness `PaidBillsRollOver`: all hold, with the rollover and its crashes between any two steps |
| `bills_double_pay` | 2 devices, 2 days, 2 payments | `OnePaymentPerCycle` fails: both devices pass the guard of `pay_bill` |
| `bills_rolled_unpaid` | 1 device, 2 days, 1 payment | `RollsPaidBills` fails: a bill that is unpaid after the rollover read it is advanced all the same |
| `reminders` | 1 commitment, 2 runners, 3 jobs and 1 crash, the last day of a month and the first of the next | `NoRepeatedReminder`, `MailedIsMarked`, `CompletedJobReminds`: hold, for jobs that run past midnight of the month's end too |
| `reminders_overdue` | 1 bill, 2 days | `OverdueIsReminded` fails: the day after the due date the bill is skipped |
| `cards` | 1 card, 2 devices, amounts of 1, 1.5 and 2.5 paise, a limit of 2, notes of both kinds, 2 transactions | `NeverOverpaid` with any overlap; `WithinLimit`, `BooksAgree`, `PayingBackIsNeutral` for requests that did not overlap |
| `cards_notes` | 1 device, typed notes that do not say "payment" | `NetWorthHitOnce` fails: a payment is no cash |
| `cards_named` | 1 device, default notes, a card whose name says "payment" | `NetWorthHitOnce` fails: a spend is cash and debt |
| `paid_toggles` | 1 commitment, 1 policy, 2 months, 2 devices, 3 payments | `OnePayment` and `ToggleFlips` but for overlaps and moves; `IsRegister`, the refinement of `PaidRegister`, without exception |
| `paid_toggles_moved` | the same with 1 device | `LookupAnswers` fails: a payment moved into a paid month makes every later lookup of that month raise |
| `money` | 2 devices; 1 entry, 2 goals, 1 loan over 3 months, 3 people with 2 expenses, 1 holding; `part` says which component runs, "wealth" is all of `NetWorth` | `CashMirrorsEntries`, `SavingsAddUp`, `OneEmergencyFund`, `LoanBalanceKept` for rows that no two requests wrote at once; `ScheduleRepays`, `BalancesCancel`, `EqualSharesFair`, `MembersKeepDebts` for all inputs, with legacy rows of the group; `SnapshotsAreReal` if at most one source changed under the reader: all hold. What two overlapping writes lose, and a card payment that a reader sees half of, are outside |
| `user` | 2 devices; 3 sessions of 2 browsers, a statement of 3 lines, 2 pictures, 2 options and 2 containers, 3 transactions in 2 months, 2 users of a phone; `part` as above | `RejectedStaysRejected` with any overlap, but for late tokens; `OneSessionPerDevice`, `ImportedAsReviewed`, `ReceiptIsThere`, `ChoicesKept`, `FirstUseIsSound` but for the overlaps their comments name; `ReportsAgree`, `ScoreIsSound` for all books of the bound; under fairness `CatalogCompletesInTheEnd`: all hold |

The last two take between two and three minutes each. The six violations are disagreements of the code with its own words; `PROJECT.json`
quotes them under `findings`.

### Bounds

One bill, card or commitment: no handler reads two of them together, and the tasks that
go through all of them treat each on its own, so a second one only adds
independent interleavings; `paid_toggles` has a commitment and a policy, because one lookup
asks for the month and the other does not. Its three payments allow two overlapping toggles
and a third that meets what they left; two months are enough to move a payment. Two devices or two runners: every race here is between two
read-then-write handlers. In bills, two or three days with a period of one day: a cycle can be paid,
closed, and the next one paid. `MaxPayments`, `MaxEntries`, `LastId`, `MaxRuns` and `MaxCrashes` stop
new requests or jobs from starting; what is in flight always finishes. In `money` and `user` the components' tables are disjoint, so a state of the run is one of
each, and only one component moves: the sum of their state spaces and not the product. What
they share is composed in `NetWorth` (money), `FirstUse` and `Books`. Two goals: a second
emergency fund and a row that the first request did not read. Three months of a loan: a first, a
last and one between; at the rates 1/12 and 1/100 the interest rounds. Goals, loans, cards and
budgets have amounts with half a paisa (15, 25, 1005, 2995 tenths), which the columns round.
Three people share 25 and 50 tenths of a paisa: neither divides evenly, and
one is not whole paise. Three device sessions: a browser's duplicate and another browser.
The three lines of a statement hold one that does not parse. One option is in the catalog since
migration 0016, one was added later, which is what a start-up has to insert; two containers
race for it. Months of two and one days put a transaction on a month's first and last
day, `MaxRows` of three is enough for an income, an expense and a card's spend or payment in
one month. `Plan` has a user with nothing and one with a full set of levers.
`MonthDays` is the month's length: months of two days, and a run over the last day of one
(`FirstDay`) and the first of the next, are enough for a due day to lie before, on and after
today, and for a job to begin in one month and end in the next. In runs that say `CHECK_DEADLOCK FALSE`
every transaction or job of the bound may have been used up: nothing is left to happen.
The proofs need none of these bounds except as constants of any value.

### Fairness

`PaidBillsRollOver` and `CatalogCompletesInTheEnd` need it. Celery Beat starts the rollover every night, whether or
not the last one ended well: `WF_vars(LoadRollover)`. A run may die any number of times,
but not every night for ever: `SF_vars(CommitRollover)`. A
deployment runs the migrations and its containers start up, again after every death
(`entrypoint.sh` fails, and the container is restarted): `StartUpFairness` is weak fairness of
`UpgradeHead` and of each container's start-up. A failed seeding is not assumed to be rare: it
fails because another container inserted the option. Deaths are bounded. Nothing is assumed
of users.

## What is proved

TLAPS checks the following for any sets of bills, cards, items, goals, loans, members,
sessions, files, options, containers, phones, rows, devices and runners and any bounds. Every
safety property of a passing run, invariant or action property, is a theorem, and so
is the type invariant of every module. In this list a module's theorems
come with the inductive invariant they need and why.

**From which assumptions.** Those named in the modules (`...Assumption`): periods, limits and
amounts are positive, windows are natural numbers, kinds of items are disjoint. Four of
them say more than that. `FiniteAssumption` (Groups) and `TablesAreFinite` (NetWorth): tables,
people and devices are finite sets, which a sum over them needs. `DatesHaveMonths` (Books): a row's
date is one of the calendar's. `NumbersReadBack` (Settings): different integers have different
texts, and the texts "1" and "5" of the catalog are those of 1 and 5; `ToString` has no
definition to prove it from. TLC evaluates all of them.
Some results have a hypothesis of their own. Those about bills assume `OneDevice`, as the run
does, because with two devices they are false (`bills_double_pay`). `SnapshotsAreAlwaysReal` is about behaviours of `NetWorth`, whose bound
`OneWriter` lets one writing request be in flight at a time, any number of times; the
reader overlaps all of them.

**Bills.**

* `PaidOncePerCycle` and `PaidBillsHavePayments`, for one device. `OneDeviceInv` adds that a
  bill that is not paid has no payment of its cycle (`UnpaidBillHasNone`), that ids grow with the cycles,
  so that the latest payment is the one of the cycle (`PaymentsAreOrdered`), and that what the
  request in flight read is out of date in one way only: the rollover may have cleared
  `paid` since (`RequestKnows`).
* `ClosedCyclesPaid`. That a cycle is paid for has to be known when the rollover reads the
  bill (`RolledBillsWerePaid`), and has to outlast an unpay that commits before the rollover does: `CyclesInv` adds
  the cycles that the rollover is about to close. A payment that an unpay takes from
  one of those is in `late`; one it takes from a cycle that is not closed does not matter.
* `UnpaysThisCycle`. The payment that unpay found is the latest of the bill; while the bill is
  paid, `RequestKnows` and the order of ids make it the one of this cycle.

**Reminders.**

* `RemindersAreNotRepeated`, from `MailedReminderIsMarked`. The
  inductive form says where the mail of a runner is accounted for: in its crashes, in a key
  that is marked, or in the step between mail and mark. Keys are never removed and the
  day is in the key, so other runners cannot undo it.
* `CompletedJobsRemind`. `JobsAccount` says of every item a job owes that it is
  still to do, is being checked, or has a reminder recorded for the day; and of a marked key
  that somebody recorded its reminder, since a runner marks only what it has staged. Commits
  and crashes move what is staged to `notified` and `lost`, so what is recorded only grows.

**Cards.**

* `CardsAreNeverOverpaid`, from `AmountsStaySound`. The balance alone
  is not inductive: a stale request writes the value it computed long ago. The inductive form
  adds that every request in flight loaded and computed a balance that is not negative;
  the flush writes either the row's own or the computed balance.
* `LimitIsKept` and `BooksAreKept`. `Honest` adds that a request computed what its operation
  says, within the limit of the row it loaded, and that transactions have ids of their own. A
  card that was not raced is still as it was loaded. A commit then adds one transaction to
  the sums that `BooksAgree` compares, and the row moves by its amount. Rows hold whole paise
  (`WholeRow`), so that rounding the new balance is rounding the amount, up or down by its sign. PATCH and DELETE
  leave `asked` alone, and so the sums.
* `PayingBackMovesNothing`. Net worth is two sums, cash and debt; a commit of a spend or a payment
  changes one element of the one and adds one to the other, if the note says which it was: the
  condition is part of the property, because it is false of other notes (`cards_notes`, `cards_named`).

**Commitments and policies.** `AtMostOnePayment`, `TogglesFlip` and `ImplementsRegister`. The inductive
invariant `Inv` adds to the type and to `OnePayment` that a request records a payment only
if its lookup found none and removes one only if it found one (`DecidedOnLookup`), and that
no two rows or requests share an id (`OwnIds`), so that a removal changes one row. Every
step then maps to one toggle, one move or a stutter of `PaidRegister`.

**People ledger.** `CashAlwaysMirrors`. `LedgerInv` states the mirror row by row
(`Mirrored`), so that the sum in the property is over one row or none, and adds that what a
request read of its entry is still so unless the entry was raced for (`RequestIsFresh`): that an edit's entry is
the one loaded, that a deletion found all the cash there is, and that an
entry the list is about to backfill has none. Ids of cash
transactions are their own, so no deletion meets the cash of another entry.

**Goals and loans.**

* `SavingsAlwaysAddUp` and `BalancesAreKept`. What the rows say is
  not inductive: a commit writes what its request computed from a row it loaded long ago.
  The invariants add what a request in flight knows (`GoalWriteIsFresh`, `LoanWriteIsFresh`): for a row that was
  not raced, that the loaded columns are still there, and for any row, that what was computed is a
  value the row may have. A commit makes every other request about its row a raced
  one. For goals, creations in flight are moreover of new goals, each of its own
  (`CreationsAreNew`).
* `OneEmergencyFundAlways`. `FundInv` adds that, while no two creations of an
  emergency fund overlapped, the one in flight is about to clear every flag there is
  (`FundsAreCleared`), and that a contribution or an update never carries a changed flag
  or status (`WritesKeepFlags`).
* `SchedulesRepay`, for any rate, tenure and balance. The loop of the code is a function that
  iterates a month (`BalancesExist`, from `Iterates` of `Sums`). A month's rounding of interest and
  installment is less than a paisa, and every later month's interest multiplies it, so what is left at
  the end is bounded by a geometric sum, `PaisaAMonth`. The bound that suggests itself, a
  paisa a month, is false for real loans: of 1 lakh at 8.5% over 360 months, 591 paise are
  left. The runs' loans of three months were too short to show it; the
  attempt to prove it did.

**Groups.** `SharesAreFair`, `DebtsCancel` and `MembersOweTheSame`. `RowsAreSplit` says of
every stored expense that the server's shares are fair and cover the amount, up to the
rounding of the columns, and of legacy rows that they have none. The balances add up to the sum over expenses of what was paid less what is owed for
it, by exchanging the order of two sums (over people, over rows); settlements cancel in pairs.

**Net worth.** `SnapshotsAreAlwaysReal`. `ReaderIsRight` says that what was read plus what is
left to read is the net worth of now or of the beginning, as long as one source at most changed: of
the beginning if the source had been read, of now if not. A second part,
`WealthIsKept`, keeps the types that the sums rest on and the ledger's own invariant
(`BooksAreMirrored`) in the composition. From it, `WholeIsNetWorth` shows that what the seven
queries find together is `NetWorthNow`: lending cancels out of cash and people.

**Device sessions.**

* `RejectedForGood`. A token is rejected because its session is closed
  or its version is not the user's. Closed sessions stay closed (`SessionsOnlyClose`), but
  a version may go back to one that was used before, because a sign-out writes what it read
  plus one. Whoever writes a version closes the open sessions it saw, and `SignOutsSee` says
  that these are all that a token is for, but for late tokens: so a token that the version would
  readmit is rejected for its session. The invariant adds that every token's session exists
  (`TokensHaveSessions`).
* `OneSessionAlways`. Only a sign-in opens a session. `SignInsKnow` says of one in flight that
  found none that there is none, as long as it has seen every session; then its insert is
  the browser's first, and the flags of all others are cleared. If it has not seen one, the
  commit marks the overlap (`OneSessionStep`).

**Imports.** `BooksAgreeWithReview`. The invariant adds that nothing is imported of, and no
request is about, a job that is not there (`NothingBefore`), that no line was imported more often than its
job was confirmed, and that a confirmation in flight of a job nobody edited since took the lines that it
would take now (`ConfirmsAreFresh`).

**Receipts.** `ReceiptIsAlwaysThere`. An upload that is alone knows the path in the row and finds what
it wrote (`AloneIsRight`); uploads of an undisturbed transaction are alone, and the receipt
is there until one of them writes (`Undisturbed`).

**First use.**

* `FirstUseIsAlwaysSound`. Who is a user has one account and who is not has none
  (`OneAccountEach`), so the get-or-create of later requests never creates; while no
  registrations overlapped, the one in flight is the first (`OneRegisters`).
* `SettingsAlwaysKept`. `SettingRows` types the tables; `ReadsBack` and `ColumnReads` are
  the facts about conversions that make the moves lose nothing: what `serialize_value` or a
  cast of the column wrote, `parse_value` reads. `ChoicesAre` says more than the property: of options too
  that are not in the catalog yet, the text a user has or would be given is the one chosen, since a
  start-up adds just that. Before the catalog nothing is in flight (`DeployInv`, `RequestsInv`), so that a
  migration meets no request; with it, a request in flight sets an option that is there to
  a text that such an option can have. A backfill that meets a choice is in `overwritten`, and so is a
  choice that `Written` leaves out while the row has another value.

**Budget and books.**

* `BudgetIsAsAnswered`. A first PUT that is alone finds no row, a later one the row as it is
  (`PutIsAlone`), which is one the columns can hold (`RowsAreWhole`), so that a column that does not
  change needs no UPDATE.
* `ReportsAlwaysAgree`. Every live row has one month (`MonthsAreApart`, `DatesAreInMonths`), one day and one
  category; a sum over rows is the sum over keys of the rows of each key (`SumByKey`), whatever the filter.
* `ScoreIsAlwaysSound`. Each lever is a quotient that falls with what is spent and lies between
  its bounds (`SavingsFall`, `BudgetFalls`, `EmergencyFalls`), unset denominators included; so does their mean
  (`CompositeFalls`).

**Inbox.** `PushesAlwaysGoToTheUser`. A request about a phone that was not raced is the
only one about it, and what it found is still there (`RequestsKnow`).

**All together.** In the runs `money` and `user` one component moves and the others stutter, so
a behaviour of the run is one of each component (`EachRuns`, `EachUserPartRuns`); `MoneyTypesHold`,
`UserTypesHold` and `ChoicesAreKept` follow from the theorems about the components.

Only model-checked: liveness, `PaidBillsRollOver` and `CatalogCompletesInTheEnd`. The proof
system has no rule for fairness or ENABLED. Nor are the six violations proved: a
counterexample of TLC is one.

## Not modelled

Ownership checks, rate limits, names and notes (but for the word "payment"), wording
and layout. Users are visited one after another by the tasks, and the models follow one
user, but for `Inbox` and `FirstUse`, where users meet. The reminder keys' time to live (two
days) outlives the day they are for. The process's local date and the IST date are one clock
here.

* Milestones: rows with no rule that relates them to anything.
* Password hashing, token encoding and expiry, the PIN, the profile: library code, or columns
  that no decision reads. Security events and backups: a log that no decision depends on, and an export of
  rows; an import of a backup sets settings like `CommitSet`.
* Status cards, the texts of insights, planned items of the calendar, heatmap and exports: they
  present figures that `Books` has.
* The recogniser behind the scanner and the columns and categories that an import guesses:
  heuristics over text with no rule to state.
* Caching: it only holds the category list, which no endpoint changes.
* Listing, search and paging, health probes, portal, middleware, mail layout: no state.

## Plan

1. `DueDates`: the calendar algorithm of `advance_due_date` checked against a reference
   over all start days, drift at month ends; then the two clocks of rollover and reminders.
2. `SnapshotsAreReal` for a payment of a card, which changes two sources, and for several writing requests at once, which needs a net worth that
   says what raced ledger entries count for and which torn reads the user accepts.
3. `toggle_bill_auto` and edits of a bill's frequency, several groups.
