------------------------------ MODULE Reminders ------------------------------
(***************************************************************************)
(* The daily reminder runs: app/worker/tasks/_reminder_runner.py, started  *)
(* by Celery Beat and by POST /internal/reminders/run, two processes that  *)
(* share the database and the Redis keys that dedupe a day's reminders.    *)
(*                                                                         *)
(* A run stages a notification for each item that is due (uncommitted),    *)
(* mails it, marks its Redis key, and commits all notifications at its     *)
(* end.  One user's items are enough: users are visited one after another, *)
(* and a run that dies loses them all together either way.                 *)
(*                                                                         *)
(* Titles, amounts and users are left out.  A key outlives its day: its    *)
(* time to live is two days, and no run is assumed to last that long.      *)
(***************************************************************************)
EXTENDS Naturals

CONSTANTS
    Bill, Commitment, Policy,   \* ids of what can be due
    Runner,     \* processes that run reminder jobs, each one job at a time
    Window,     \* Window[i]: reminder days before the due day of i
    MonthDays,  \* length of a month
    FirstDay,   \* the day the model starts
    LastDay,    \* bound: the calendar stops here
    MaxRuns,    \* bound: jobs the runners start
    MaxCrashes  \* bound: crashes of a runner

Item == Bill \union Commitment \union Policy

ASSUME KindsAssumption ==
    /\ Bill \intersect Commitment = {}
    /\ Policy \intersect Commitment = {}
    /\ Bill \intersect Policy = {}
ASSUME WindowAssumption == Window \in [Item -> Nat]
ASSUME CalendarAssumption ==
    /\ MonthDays \in Nat \ {0}
    /\ FirstDay \in Nat /\ LastDay \in Nat /\ FirstDay <= LastDay

VARIABLES
    today,      \* _today_ist()
    active,     \* items that are not deleted
    due,        \* item -> due day; for a commitment, its day of the month
    paid,       \* <<item, month>> that are paid; month 0 unless a commitment
    sent,       \* Redis: keys marked sent
    run,        \* runner -> its job in progress
    notified,   \* committed notifications, as subjects
    runs,       \* jobs started
    crashes,    \* history: runner -> jobs that died
    emails,     \* history: runner -> subject -> mails the provider accepted
    blind,      \* history: subjects for which a Redis call failed
    owed,       \* history: runner -> subjects its job found unpaid and due or overdue
    served,     \* history: subjects owed by a job that completed
    lost        \* history: subjects staged by a job that died

vars == <<today, active, due, paid, sent, run, notified, runs, crashes, emails, blind,
          owed, served, lost>>
history == <<emails, blind, owed, served, lost, crashes>>

Day == FirstDay .. LastDay
DueDay == 0 .. (LastDay + MonthDays)

\* A commitment has a day of the month.
DueDayOf(i) == IF i \in Commitment THEN 0 .. (MonthDays - 1) ELSE DueDay
DueDays == {f \in [Item -> DueDay] : \A i \in Item : f[i] \in DueDayOf(i)}

\* A month is known by its first day.
Month(d) == d - (d % MonthDays)

\* A job is run_bill_reminders, run_fixed_commitment_reminders or
\* run_policy_reminders: the items it goes through, if there are any.
Jobs == {Bill, Commitment, Policy} \ {{}}

\* What a reminder is about: an item, its due day, and the day of the reminder.
Subject == [item : Item, due : DueDay, day : Day]

Idle == [step |-> "idle"]
Loop == [step : {"next"}, day : Day, loaded : DueDays, todo : SUBSET Item,
         staged : SUBSET Subject]
Midway == [step : {"checked", "delivered"}, day : Day, loaded : DueDays,
           todo : SUBSET Item, staged : SUBSET Subject, subject : Subject]

TypeOK ==
    /\ today \in Day
    /\ active \subseteq Item
    /\ due \in DueDays
    /\ paid \subseteq Item \X Nat
    /\ sent \subseteq Item \X Nat \X Day
    /\ run \in [Runner -> {Idle} \union Loop \union Midway]
    /\ notified \subseteq Subject
    /\ runs \in Nat
    /\ crashes \in [Runner -> Nat]
    /\ emails \in [Runner -> [Subject -> Nat]]
    /\ blind \subseteq Subject
    /\ owed \in [Runner -> SUBSET Subject]
    /\ served \subseteq Subject
    /\ lost \subseteq Subject

-----------------------------------------------------------------------------
(* What the jobs compute.                                                  *)

\* A commitment falls due in the month of the run, whatever is left of it.
DueOn(i, d, day) == IF i \in Commitment THEN Month(day) + d ELSE d

\* The month a payment is looked up for: only commitments have one.
Cycle(i, day) == IF i \in Commitment THEN Month(day) ELSE 0

About(i, d, day) == [item |-> i, due |-> DueOn(i, d, day), day |-> day]

\* Mutation of KeyOf: one key for the whole lead window.
KeyOf_NoDay(s) == <<s.item, IF s.item \in Commitment THEN Month(s.day) ELSE s.due>>

\* The Redis key: the item, its due date (of a commitment its month), the day.
KeyOf(s) == <<s.item, IF s.item \in Commitment THEN Month(s.day) ELSE s.due, s.day>>

\* From Window days before the due day through the due day.
InLeadWindow(s) == s.day <= s.due /\ s.due - s.day <= Window[s.item]

Unpaid(i, day) == <<i, Cycle(i, day)>> \notin paid

\* History: what "remind every day until the item is marked paid" asks of a job,
\* written without InLeadWindow.
DueOrOverdue(job) ==
    {s \in {About(i, due[i], today) : i \in job \intersect active} :
        Unpaid(s.item, s.day) /\ s.due <= s.day + Window[s.item]}

-----------------------------------------------------------------------------
(* The user's side: only what a job reads.                                 *)

Init ==
    /\ today = FirstDay
    /\ active = Item
    /\ due \in DueDays
    /\ paid = {}
    /\ sent = {}
    /\ run = [r \in Runner |-> Idle]
    /\ notified = {}
    /\ runs = 0
    /\ crashes = [r \in Runner |-> 0]
    /\ emails = [r \in Runner |-> [s \in Subject |-> 0]]
    /\ blind = {}
    /\ owed = [r \in Runner |-> {}]
    /\ served = {}
    /\ lost = {}

\* Marked paid: the bill row, or a transaction linked to the commitment or policy.
Pay(i) ==
    /\ i \in active /\ Unpaid(i, today)
    /\ paid' = paid \union {<<i, Cycle(i, today)>>}
    /\ owed' = [r \in Runner |->
         {s \in owed[r] : <<s.item, Cycle(s.item, s.day)>> # <<i, Cycle(i, today)>>}]
    /\ UNCHANGED <<today, active, due, sent, run, notified, runs, crashes, emails, blind,
                   served, lost>>

\* Marked unpaid, with a new due day: an unpay, a rollover or an edit.
Reschedule(i, d) ==
    /\ i \in active
    /\ due' = [due EXCEPT ![i] = d]
    /\ paid' = paid \ {<<i, Cycle(i, today)>>}
    /\ UNCHANGED <<today, active, sent, run, notified, runs, crashes, emails, blind,
                   owed, served, lost>>

Delete(i) ==
    /\ i \in active
    /\ active' = active \ {i}
    /\ UNCHANGED <<today, due, paid, sent, run, notified, runs, crashes, emails, blind,
                   owed, served, lost>>

NextDay ==
    /\ today < LastDay
    /\ today' = today + 1
    /\ UNCHANGED <<active, due, paid, sent, run, notified, runs, crashes, emails, blind,
                   owed, served, lost>>

-----------------------------------------------------------------------------
(* A job.                                                                  *)

\* The query at its start.  Only the one for bills leaves out paid ones.
StartJob(r, job) ==
    /\ run[r].step = "idle"
    /\ runs < MaxRuns
    /\ runs' = runs + 1
    /\ run' = [run EXCEPT ![r] =
         [step |-> "next", day |-> today, loaded |-> due, staged |-> {},
          todo |-> {i \in job \intersect active : i \in Bill => Unpaid(i, today)}]]
    /\ owed' = [owed EXCEPT ![r] = DueOrOverdue(job)]
    /\ UNCHANGED <<today, active, due, paid, sent, notified, crashes, emails, blind,
                   served, lost>>

\* Mutation of Relevant: the month of the payment is the one of the moment, not the one
\* the job began in.
Relevant_MonthOfNow(r, i) ==
    /\ i \notin Bill => Unpaid(i, today)
    /\ InLeadWindow(About(i, run[r].loaded[i], run[r].day))

\* Of an item's guards the payment is read now, except a bill's; but for the month in
\* which the job began.
Relevant(r, i) ==
    /\ i \notin Bill => Unpaid(i, run[r].day)
    /\ InLeadWindow(About(i, run[r].loaded[i], run[r].day))

SkipItem(r, i) ==
    /\ run[r].step = "next"
    /\ i \in run[r].todo
    /\ \/ ~Relevant(r, i)
       \/ KeyOf(About(i, run[r].loaded[i], run[r].day)) \in sent
    /\ run' = [run EXCEPT ![r].todo = @ \ {i}]
    /\ UNCHANGED <<today, active, due, paid, sent, notified, runs>>
    /\ UNCHANGED history

\* _already_sent answers no: the key is absent, or Redis is out of reach.
CheckItem(r, i) ==
    /\ run[r].step = "next"
    /\ i \in run[r].todo
    /\ Relevant(r, i)
    /\ LET s == About(i, run[r].loaded[i], run[r].day) IN
         /\ \/ KeyOf(s) \notin sent /\ blind' = blind
            \/ KeyOf(s) \in sent /\ blind' = blind \union {s}
         /\ run' = [run EXCEPT ![r] =
              [step |-> "checked", day |-> @.day, loaded |-> @.loaded,
               todo |-> @.todo \ {i}, staged |-> @.staged, subject |-> s]]
    /\ UNCHANGED <<today, active, due, paid, sent, notified, runs, crashes, emails,
                   owed, served, lost>>

\* _deliver_reminder: the notification is flushed, not committed; the mail goes
\* out at once, and a provider that refuses it is only logged.
Deliver(r) ==
    /\ run[r].step = "checked"
    /\ run' = [run EXCEPT ![r].step = "delivered", ![r].staged = @ \union {run[r].subject}]
    /\ \/ emails' = [emails EXCEPT ![r][run[r].subject] = @ + 1]
       \/ emails' = emails
    /\ UNCHANGED <<today, active, due, paid, sent, notified, runs, crashes, blind,
                   owed, served, lost>>

\* Mutation of Mark: the key is not written.
Mark_Nothing(s) == sent

\* The keys once `s` is marked.
Mark(s) == sent \union {KeyOf(s)}

\* _mark_sent, whose failure goes unnoticed.
MarkSent(r) ==
    /\ run[r].step = "delivered"
    /\ \/ sent' = Mark(run[r].subject) /\ blind' = blind
       \/ sent' = sent /\ blind' = blind \union {run[r].subject}
    /\ run' = [run EXCEPT ![r] =
         [step |-> "next", day |-> @.day, loaded |-> @.loaded, todo |-> @.todo,
          staged |-> @.staged]]
    /\ UNCHANGED <<today, active, due, paid, notified, runs, crashes, emails,
                   owed, served, lost>>

CommitJob(r) ==
    /\ run[r].step = "next"
    /\ run[r].todo = {}
    /\ notified' = notified \union run[r].staged
    /\ run' = [run EXCEPT ![r] = Idle]
    /\ served' = served \union owed[r]
    /\ owed' = [owed EXCEPT ![r] = {}]
    /\ UNCHANGED <<today, active, due, paid, sent, runs, crashes, emails, blind, lost>>

\* The process dies or the database fails: what is staged is lost, what is mailed
\* or marked is not.
Crash(r) ==
    /\ run[r].step # "idle"
    /\ crashes[r] < MaxCrashes
    /\ lost' = lost \union run[r].staged
    /\ run' = [run EXCEPT ![r] = Idle]
    /\ crashes' = [crashes EXCEPT ![r] = @ + 1]
    /\ owed' = [owed EXCEPT ![r] = {}]
    /\ UNCHANGED <<today, active, due, paid, sent, notified, runs, emails, blind, served>>

-----------------------------------------------------------------------------
Next ==
    \/ \E i \in Item : Pay(i)
    \/ \E i \in Item : \E d \in DueDayOf(i) : Reschedule(i, d)
    \/ \E i \in Item : Delete(i)
    \/ NextDay
    \/ \E r \in Runner, job \in Jobs : StartJob(r, job)
    \/ \E r \in Runner, i \in Item : SkipItem(r, i)
    \/ \E r \in Runner, i \in Item : CheckItem(r, i)
    \/ \E r \in Runner : Deliver(r)
    \/ \E r \in Runner : MarkSent(r)
    \/ \E r \in Runner : CommitJob(r)
    \/ \E r \in Runner : Crash(r)

Spec == Init /\ [][Next]_vars

-----------------------------------------------------------------------------
(* Properties.                                                             *)

\* "Redis only dedupes same-day re-runs": whatever another runner does at the
\* same time, a runner mails a reminder again on the same day only after one of
\* its own jobs died, or when a Redis call about it failed.
NoRepeatedReminder ==
    \A r \in Runner, s \in Subject : s \notin blind => emails[r][s] <= 1 + crashes[r]

\* NoRepeatedReminder as an inductive invariant: what a runner has mailed beyond its
\* crashes is marked, or is about to be.
MailedIsMarked ==
    \A r \in Runner, s \in Subject : s \notin blind =>
        /\ emails[r][s] <= 1 + crashes[r]
        /\ \/ emails[r][s] <= crashes[r]
           \/ KeyOf(s) \in sent
           \/ run[r].step = "delivered" /\ run[r].subject = s
        /\ run[r].step = "checked" /\ run[r].subject = s => emails[r][s] <= crashes[r]

Busy == {r \in Runner : run[r].step # "idle"}
Staged == UNION {run[r].staged : r \in Busy}

Reminded(i, day) ==
    \E s \in notified \union lost \union Staged : s.item = i /\ s.day = day

\* A job that completes leaves no item due within its lead window without a
\* reminder of that day: the notification is committed, or staged by another
\* running job, or was in a job that died after it marked the key.
CompletedJobReminds ==
    \A s \in served : s.day <= s.due => Reminded(s.item, s.day)

\* "remind every day until the item is marked paid": the same of items that are
\* overdue.
OverdueIsReminded ==
    \A s \in served : Reminded(s.item, s.day)
=============================================================================
