--------------------------- MODULE RemindersProofs ---------------------------
(***************************************************************************)
(* Proofs about Reminders for any items, runners, lead windows, calendar   *)
(* and number of jobs and crashes: type correctness, that a runner does    *)
(* not repeat a day's reminder without a crash or a Redis failure, and     *)
(* that a job that completes leaves nothing that is due without one.       *)
(***************************************************************************)
EXTENDS Reminders, TLAPS

\* A month starts on or before each of its days.
LEMMA MonthType ==
    ASSUME NEW d \in Nat
    PROVE  /\ d % MonthDays \in 0 .. (MonthDays - 1)
           /\ Month(d) \in 0 .. d
<1>1. d % MonthDays \in 0 .. (MonthDays - 1)
  BY CalendarAssumption
<1>2. d % MonthDays <= d
  BY CalendarAssumption
<1> QED
  BY <1>1, <1>2, CalendarAssumption DEF Month

\* What a job looks at is a subject.
LEMMA AboutType ==
    ASSUME NEW i \in Item, NEW d \in DueDayOf(i), NEW day \in Day
    PROVE  About(i, d, day) \in Subject
<1>1. day \in Nat /\ day <= LastDay
  BY CalendarAssumption DEF Day
<1>2. Month(day) \in 0 .. day
  BY <1>1, MonthType
<1>3. DueOn(i, d, day) \in DueDay
  BY <1>1, <1>2, CalendarAssumption DEF DueOn, DueDay, DueDayOf
<1> QED
  BY <1>3 DEF About, Subject

\* Its key is a Redis key.
LEMMA KeyType ==
    ASSUME NEW s \in Subject
    PROVE  KeyOf(s) \in Item \X Nat \X Day
<1>1. s.item \in Item /\ s.due \in Nat /\ s.day \in Day /\ s.day \in Nat
  BY CalendarAssumption DEF Subject, Day, DueDay
<1>2. Month(s.day) \in Nat
  BY <1>1, MonthType
<1> QED
  BY <1>1, <1>2 DEF KeyOf

-----------------------------------------------------------------------------
\* Type correctness, whatever jobs crash and however calls to Redis fail.
THEOREM TypeCorrect == Spec => []TypeOK
<1>1. Init => TypeOK
  BY CalendarAssumption DEF Init, TypeOK, Idle, Day, DueDays
<1>2. TypeOK /\ [Next]_vars => TypeOK'
  <2> SUFFICES ASSUME TypeOK, [Next]_vars PROVE TypeOK'
    OBVIOUS
  <2> USE DEF TypeOK
  <2>1. ASSUME NEW i \in Item, Pay(i) PROVE TypeOK'
    <3>1. Cycle(i, today) \in Nat
      BY MonthType, CalendarAssumption DEF Cycle, Day
    <3>2. paid' \subseteq Item \X Nat
      BY <2>1, <3>1 DEF Pay
    <3>3. owed' \in [Runner -> SUBSET Subject]
      BY <2>1 DEF Pay
    <3> QED
      BY <2>1, <3>2, <3>3 DEF Pay
  <2>2. ASSUME NEW i \in Item, NEW d \in DueDayOf(i), Reschedule(i, d) PROVE TypeOK'
    <3>1. due' \in DueDays
      <4>1. d \in DueDay
        BY CalendarAssumption DEF DueDayOf, DueDay
      <4> QED
        BY <2>2, <4>1 DEF Reschedule, DueDays
    <3> QED
      BY <2>2, <3>1 DEF Reschedule
  <2>3. ASSUME NEW i \in Item, Delete(i) PROVE TypeOK'
    BY <2>3 DEF Delete
  <2>4. CASE NextDay
    BY <2>4, CalendarAssumption DEF NextDay, Day
  <2>5. ASSUME NEW r \in Runner, NEW job \in Jobs, StartJob(r, job) PROVE TypeOK'
    <3>1. job \subseteq Item
      BY DEF Jobs, Item
    <3>2. DueOrOverdue(job) \subseteq Subject
      BY <3>1, AboutType DEF DueOrOverdue, DueDays
    <3>3. run' \in [Runner -> {Idle} \union Loop \union Midway]
      BY <2>5, <3>1 DEF StartJob, Loop
    <3> QED
      BY <2>5, <3>2, <3>3 DEF StartJob
  <2>6. ASSUME NEW r \in Runner, NEW i \in Item, SkipItem(r, i) PROVE TypeOK'
    <3>0. run[r].step = "next"
      BY <2>6 DEF SkipItem
    <3>1. run[r] \in Loop
      BY <3>0 DEF Idle, Loop, Midway
    <3>2. [run[r] EXCEPT !.todo = run[r].todo \ {i}] \in Loop
      <4>1. run[r].todo \ {i} \in SUBSET Item
        BY <3>1 DEF Loop
      <4> QED
        BY <3>1, <4>1 DEF Loop
    <3>3. run' \in [Runner -> {Idle} \union Loop \union Midway]
      BY <2>6, <3>2 DEF SkipItem
    <3> QED
      BY <2>6, <3>3 DEF SkipItem, history
  <2>7. ASSUME NEW r \in Runner, NEW i \in Item, CheckItem(r, i) PROVE TypeOK'
    <3> DEFINE s == About(i, run[r].loaded[i], run[r].day)
    <3>1. run[r] \in Loop
      BY <2>7 DEF CheckItem, Idle, Loop, Midway
    <3>2. s \in Subject
      BY <3>1, AboutType DEF Loop, DueDays
    <3>3. [step |-> "checked", day |-> run[r].day, loaded |-> run[r].loaded,
           todo |-> run[r].todo \ {i}, staged |-> run[r].staged, subject |-> s] \in Midway
      BY <3>1, <3>2 DEF Loop, Midway
    <3>4. run' \in [Runner -> {Idle} \union Loop \union Midway]
      BY <2>7, <3>3 DEF CheckItem
    <3>5. blind' \subseteq Subject
      BY <2>7, <3>2 DEF CheckItem
    <3> QED
      BY <2>7, <3>4, <3>5 DEF CheckItem
  <2>8. ASSUME NEW r \in Runner, Deliver(r) PROVE TypeOK'
    <3>1. run[r] \in Midway
      BY <2>8 DEF Deliver, Idle, Loop, Midway
    <3>2. run[r].subject \in Subject
      BY <3>1 DEF Midway
    <3>3. run' \in [Runner -> {Idle} \union Loop \union Midway]
      BY <2>8, <3>1, <3>2 DEF Deliver, Midway
    <3>4. emails' \in [Runner -> [Subject -> Nat]]
      <4>0. emails[r] \in [Subject -> Nat]
        OBVIOUS
      <4>1. emails[r][run[r].subject] + 1 \in Nat
        BY <4>0, <3>2
      <4>2. [emails[r] EXCEPT ![run[r].subject] = emails[r][run[r].subject] + 1]
              \in [Subject -> Nat]
        BY <4>0, <4>1
      <4> QED
        BY <2>8, <4>2 DEF Deliver
    <3> QED
      BY <2>8, <3>3, <3>4 DEF Deliver
  <2>9. ASSUME NEW r \in Runner, MarkSent(r) PROVE TypeOK'
    <3>1. run[r] \in Midway
      BY <2>9 DEF MarkSent, Idle, Loop, Midway
    <3>2. run[r].subject \in Subject
      BY <3>1 DEF Midway
    <3>3. run' \in [Runner -> {Idle} \union Loop \union Midway]
      BY <2>9, <3>1 DEF MarkSent, Midway, Loop
    <3>4. sent' \subseteq Item \X Nat \X Day
      BY <2>9, <3>2, KeyType DEF MarkSent, Mark
    <3>5. blind' \subseteq Subject
      BY <2>9, <3>2 DEF MarkSent
    <3> QED
      BY <2>9, <3>3, <3>4, <3>5 DEF MarkSent
  <2>10. ASSUME NEW r \in Runner, CommitJob(r) PROVE TypeOK'
    <3>1. run[r].staged \subseteq Subject
      BY <2>10 DEF CommitJob, Idle, Loop, Midway
    <3> QED
      BY <2>10, <3>1 DEF CommitJob
  <2>11. ASSUME NEW r \in Runner, Crash(r) PROVE TypeOK'
    <3>1. run[r].staged \subseteq Subject
      BY <2>11 DEF Crash, Idle, Loop, Midway
    <3> QED
      BY <2>11, <3>1 DEF Crash
  <2>12. CASE UNCHANGED vars
    BY <2>12 DEF vars
  <2> QED
    BY <2>1, <2>2, <2>3, <2>4, <2>5, <2>6, <2>7, <2>8, <2>9, <2>10, <2>11, <2>12 DEF Next
<1> QED
  BY <1>1, <1>2, PTL DEF Spec

-----------------------------------------------------------------------------
(* A runner that has mailed a reminder has also marked it, or is about to, *)
(* or died in between.  That alone is not inductive: another runner may    *)
(* mark the key between a runner's check and its delivery, so the third    *)
(* part of MailedIsMarked remembers what the check saw.                    *)

\* MailedIsMarked about one runner and one subject.
Excused(r, s) ==
    s \notin blind =>
        /\ emails[r][s] <= 1 + crashes[r]
        /\ \/ emails[r][s] <= crashes[r]
           \/ KeyOf(s) \in sent
           \/ run[r].step = "delivered" /\ run[r].subject = s
        /\ run[r].step = "checked" /\ run[r].subject = s => emails[r][s] <= crashes[r]

\* Whatever the other runners do, a second mail of the day has its excuse.
THEOREM MailedReminderIsMarked == Spec => []MailedIsMarked
<1>1. Init => MailedIsMarked
  BY DEF Init, MailedIsMarked, Idle
<1>2. TypeOK /\ MailedIsMarked /\ [Next]_vars => MailedIsMarked'
  <2> SUFFICES ASSUME TypeOK, MailedIsMarked, [Next]_vars, NEW r \in Runner, NEW s \in Subject
               PROVE  Excused(r, s)'
    BY DEF MailedIsMarked, Excused
  <2>0. /\ emails[r][s] \in Nat
        /\ crashes[r] \in Nat
        /\ Excused(r, s)
    BY DEF TypeOK, MailedIsMarked, Excused
  \* A step of another runner, or of the user, can only mark or blind.
  <2>a. ASSUME run'[r] = run[r], emails'[r][s] = emails[r][s], crashes'[r] = crashes[r],
               sent \subseteq sent', blind \subseteq blind'
        PROVE  Excused(r, s)'
    BY <2>0, <2>a DEF Excused, KeyOf, Month
  \* So can a step of the runner that leaves it between two items.
  <2>b. ASSUME run[r].step \in {"idle", "next"}, run'[r].step \in {"idle", "next"},
               emails'[r][s] = emails[r][s], crashes'[r] = crashes[r],
               sent' = sent, blind' = blind
        PROVE  Excused(r, s)'
    BY <2>0, <2>b DEF Excused, KeyOf, Month
  <2>1. ASSUME NEW i \in Item, Pay(i) PROVE Excused(r, s)'
    BY <2>1, <2>a DEF Pay
  <2>2. ASSUME NEW i \in Item, NEW d \in DueDayOf(i), Reschedule(i, d) PROVE Excused(r, s)'
    BY <2>2, <2>a DEF Reschedule
  <2>3. ASSUME NEW i \in Item, Delete(i) PROVE Excused(r, s)'
    BY <2>3, <2>a DEF Delete
  <2>4. CASE NextDay
    BY <2>4, <2>a DEF NextDay
  <2>5. ASSUME NEW q \in Runner, NEW job \in Jobs, StartJob(q, job) PROVE Excused(r, s)'
    <3>1. CASE q = r
      BY <2>5, <2>b, <3>1 DEF StartJob, TypeOK
    <3>2. CASE q # r
      BY <2>5, <2>a, <3>2 DEF StartJob, TypeOK
    <3> QED
      BY <3>1, <3>2
  <2>6. ASSUME NEW q \in Runner, NEW i \in Item, SkipItem(q, i) PROVE Excused(r, s)'
    <3>1. CASE q = r
      <4>1. run[r] \in Loop
        BY <2>6, <3>1 DEF SkipItem, TypeOK, Idle, Loop, Midway
      <4>2. run'[r].step = "next"
        BY <2>6, <3>1, <4>1 DEF SkipItem, TypeOK, Loop
      <4> QED
        BY <2>6, <2>b, <3>1, <4>2 DEF SkipItem, history
    <3>2. CASE q # r
      BY <2>6, <2>a, <3>2 DEF SkipItem, history, TypeOK
    <3> QED
      BY <3>1, <3>2
  <2>7. ASSUME NEW q \in Runner, NEW i \in Item, CheckItem(q, i) PROVE Excused(r, s)'
    <3>1. CASE q = r
      <4> DEFINE t == About(i, run[r].loaded[i], run[r].day)
      <4>1. run'[r].step = "checked" /\ run'[r].subject = t
        BY <2>7, <3>1 DEF CheckItem, TypeOK
      <4>2. /\ run[r].step = "next"
            /\ emails' = emails /\ crashes' = crashes /\ sent' = sent
            /\ (KeyOf(t) \notin sent /\ blind' = blind) \/ blind' = blind \union {t}
        BY <2>7, <3>1 DEF CheckItem
      <4>3. CASE t = s
        BY <4>1, <4>2, <4>3, <2>0 DEF Excused, KeyOf, Month
      <4>4. CASE t # s
        BY <4>1, <4>2, <4>4, <2>0 DEF Excused, KeyOf, Month
      <4> QED
        BY <4>3, <4>4
    <3>2. CASE q # r
      BY <2>7, <2>a, <3>2 DEF CheckItem, TypeOK
    <3> QED
      BY <3>1, <3>2
  <2>8. ASSUME NEW q \in Runner, Deliver(q) PROVE Excused(r, s)'
    <3>1. CASE q = r
      <4>1. run[r] \in Midway
        BY <2>8, <3>1 DEF Deliver, TypeOK, Idle, Loop, Midway
      <4>2. run'[r].step = "delivered" /\ run'[r].subject = run[r].subject
        BY <2>8, <3>1, <4>1 DEF Deliver, TypeOK, Midway
      <4>3. run[r].subject \in Subject /\ run[r].step = "checked"
        BY <2>8, <3>1, <4>1 DEF Deliver, Midway
      <4>4. crashes' = crashes /\ sent' = sent /\ blind' = blind
        BY <2>8 DEF Deliver
      <4>5. CASE run[r].subject = s
        <5>1. emails'[r][s] \in {emails[r][s], emails[r][s] + 1}
          BY <2>8, <3>1, <4>5 DEF Deliver, TypeOK
        <5>2. s \notin blind => emails[r][s] <= crashes[r]
          BY <2>0, <4>3, <4>5 DEF Excused
        <5> QED
          BY <5>1, <5>2, <2>0, <4>2, <4>4, <4>5 DEF Excused
      <4>6. CASE run[r].subject # s
        <5>1. emails'[r][s] = emails[r][s]
          BY <2>8, <3>1, <4>3, <4>6 DEF Deliver, TypeOK
        <5> QED
          BY <5>1, <2>0, <4>2, <4>3, <4>4, <4>6 DEF Excused, KeyOf, Month
      <4> QED
        BY <4>5, <4>6
    <3>2. CASE q # r
      <4>1. emails'[r] = emails[r] /\ run'[r] = run[r]
        BY <2>8, <3>2 DEF Deliver, TypeOK
      <4> QED
        BY <4>1, <2>8, <2>a DEF Deliver
    <3> QED
      BY <3>1, <3>2
  <2>9. ASSUME NEW q \in Runner, MarkSent(q) PROVE Excused(r, s)'
    <3>1. sent \subseteq sent' /\ blind \subseteq blind'
      BY <2>9 DEF MarkSent, Mark
    <3>2. CASE q = r
      <4>1. run'[r].step = "next" /\ run[r].step = "delivered"
        BY <2>9, <3>2 DEF MarkSent, TypeOK
      <4>2. run[r].subject = s => KeyOf(s) \in sent' \/ s \in blind'
        BY <2>9, <3>2 DEF MarkSent, Mark
      <4>3. emails' = emails /\ crashes' = crashes
        BY <2>9 DEF MarkSent
      <4> QED
        BY <4>1, <4>2, <4>3, <3>1, <2>0 DEF Excused, KeyOf, Month
    <3>3. CASE q # r
      BY <2>9, <3>1, <2>a, <3>3 DEF MarkSent, TypeOK
    <3> QED
      BY <3>2, <3>3
  <2>10. ASSUME NEW q \in Runner, CommitJob(q) PROVE Excused(r, s)'
    <3>1. CASE q = r
      BY <2>10, <2>b, <3>1 DEF CommitJob, TypeOK, Idle
    <3>2. CASE q # r
      BY <2>10, <2>a, <3>2 DEF CommitJob, TypeOK
    <3> QED
      BY <3>1, <3>2
  <2>11. ASSUME NEW q \in Runner, Crash(q) PROVE Excused(r, s)'
    <3>1. CASE q = r
      <4>1. crashes'[r] = crashes[r] + 1 /\ run'[r].step = "idle"
        BY <2>11, <3>1 DEF Crash, TypeOK, Idle
      <4>2. emails' = emails /\ blind' = blind
        BY <2>11 DEF Crash
      <4> QED
        BY <4>1, <4>2, <2>0 DEF Excused
    <3>2. CASE q # r
      BY <2>11, <2>a, <3>2 DEF Crash, TypeOK
    <3> QED
      BY <3>1, <3>2
  <2>12. CASE UNCHANGED vars
    BY <2>12, <2>a DEF vars
  <2> QED
    BY <2>1, <2>2, <2>3, <2>4, <2>5, <2>6, <2>7, <2>8, <2>9, <2>10, <2>11, <2>12 DEF Next
<1> QED
  BY <1>1, <1>2, TypeCorrect, PTL DEF Spec

\* "Redis only dedupes same-day re-runs": without a crash of its own or a Redis
\* failure, no runner sends a day's reminder of an item twice.
THEOREM RemindersAreNotRepeated == Spec => []NoRepeatedReminder
<1>1. MailedIsMarked => NoRepeatedReminder
  BY DEF MailedIsMarked, NoRepeatedReminder
<1> QED
  BY <1>1, MailedReminderIsMarked, PTL

-----------------------------------------------------------------------------
(* A job that completes reminds.                                           *)

\* Every notification there is, was, or is about to be.
Recorded == notified \union lost \union Staged

\* What a job owes is still to do, just checked, or recorded; and nothing the job reads
\* about it has changed: the job works with the due days it loaded, and what the user pays
\* meanwhile is owed no longer.
Handled(r, s) ==
    /\ run[r].step # "idle"
    /\ s = About(s.item, run[r].loaded[s.item], run[r].day)
    /\ InLeadWindow(s)
    /\ s.item \notin Bill => Unpaid(s.item, run[r].day)
    /\ \/ s.item \in run[r].todo
       \/ run[r].step = "checked" /\ run[r].subject = s
       \/ \E t \in Recorded : t.item = s.item /\ t.day = s.day

\* The inductive invariant.  That a key is marked must mean that somebody recorded the
\* reminder: a runner marks what it has staged.
JobsAccount ==
    /\ \A r \in Runner : run[r].step = "delivered" => run[r].subject \in run[r].staged
    /\ \A k \in sent : \E t \in Recorded : t.item = k[1] /\ t.day = k[3]
    /\ \A r \in Runner : \A s \in owed[r] : s.day <= s.due => Handled(r, s)
    /\ \A s \in served : s.day <= s.due => \E t \in Recorded : t.item = s.item /\ t.day = s.day

\* The job in progress of a runner, from its step.
LEMMA JobKind ==
    ASSUME TypeOK, NEW r \in Runner
    PROVE  /\ run[r].step = "next" => run[r] \in Loop
           /\ run[r].step \in {"checked", "delivered"} => run[r] \in Midway
           /\ run[r].step # "idle" => run[r] \in Loop \union Midway
BY DEF TypeOK, Idle, Loop, Midway

\* One runner's step records no less if what it had staged stays staged, or is committed
\* or lost.
LEMMA StagedIsRecorded ==
    ASSUME TypeOK, NEW q \in Runner, NEW job,
           run' = [run EXCEPT ![q] = job], notified \subseteq notified', lost \subseteq lost',
           run[q].step # "idle" =>
              run[q].staged \subseteq notified' \union lost' \union (IF job.step # "idle" THEN job.staged ELSE {})
    PROVE  Recorded \subseteq Recorded'
<1>1. run'[q] = job /\ \A r \in Runner \ {q} : run'[r] = run[r]
  BY DEF TypeOK
<1> SUFFICES ASSUME NEW t \in Staged PROVE t \in notified' \union lost' \union Staged'
  BY DEF Recorded
<1>2. PICK r \in Runner : run[r].step # "idle" /\ t \in run[r].staged
  BY DEF Staged, Busy
<1>3. CASE r = q
  <2>1. CASE t \in notified' \union lost'
    BY <2>1
  <2>2. CASE job.step # "idle" /\ t \in job.staged
    BY <1>1, <2>2 DEF Staged, Busy
  <2> QED
    BY <1>2, <1>3, <2>1, <2>2
<1>4. CASE r # q
  <2>1. run'[r] = run[r]
    BY <1>1, <1>4
  <2> QED
    BY <1>2, <2>1 DEF Staged, Busy
<1> QED
  BY <1>3, <1>4

\* No step takes back a reminder.
LEMMA RecordedGrows == TypeOK /\ [Next]_vars => Recorded \subseteq Recorded'
<1> SUFFICES ASSUME TypeOK, [Next]_vars PROVE Recorded \subseteq Recorded'
  OBVIOUS
<1>a. ASSUME run' = run, notified' = notified, lost' = lost
      PROVE  Recorded \subseteq Recorded'
  BY <1>a DEF Recorded, Staged, Busy
<1>1. ASSUME \/ \E i \in Item : Pay(i) \/ Delete(i) \/ \E d \in DueDayOf(i) : Reschedule(i, d)
             \/ NextDay \/ UNCHANGED vars
      PROVE  Recorded \subseteq Recorded'
  BY <1>1, <1>a DEF Pay, Delete, Reschedule, NextDay, vars
<1>2. ASSUME NEW q \in Runner, NEW job \in Jobs, StartJob(q, job) PROVE Recorded \subseteq Recorded'
  <2> DEFINE new == [step |-> "next", day |-> today, loaded |-> due, staged |-> {},
                     todo |-> {i \in job \intersect active : i \in Bill => Unpaid(i, today)}]
  <2>1. run' = [run EXCEPT ![q] = new] /\ run[q].step = "idle" /\ notified' = notified /\ lost' = lost
    BY <1>2 DEF StartJob
  <2> HIDE DEF new
  <2> QED
    BY <2>1, StagedIsRecorded
<1>3. ASSUME NEW q \in Runner, NEW i \in Item, SkipItem(q, i) PROVE Recorded \subseteq Recorded'
  <2> DEFINE new == [run[q] EXCEPT !.todo = @ \ {i}]
  <2>1. run' = [run EXCEPT ![q] = new] /\ notified' = notified /\ lost' = lost /\ run[q].step = "next"
    BY <1>3 DEF SkipItem, history
  <2>2. new.step = "next" /\ new.staged = run[q].staged
    BY <2>1, JobKind DEF Loop
  <2> HIDE DEF new
  <2> QED
    BY <2>1, <2>2, StagedIsRecorded
<1>4. ASSUME NEW q \in Runner, NEW i \in Item, CheckItem(q, i) PROVE Recorded \subseteq Recorded'
  <2> DEFINE new == [step |-> "checked", day |-> run[q].day, loaded |-> run[q].loaded,
                     todo |-> run[q].todo \ {i}, staged |-> run[q].staged,
                     subject |-> About(i, run[q].loaded[i], run[q].day)]
  <2>1. run' = [run EXCEPT ![q] = new] /\ notified' = notified /\ lost' = lost
    BY <1>4 DEF CheckItem
  <2>2. new.step = "checked" /\ new.staged = run[q].staged
    OBVIOUS
  <2> HIDE DEF new
  <2> QED
    BY <2>1, <2>2, StagedIsRecorded
<1>5. ASSUME NEW q \in Runner, Deliver(q) PROVE Recorded \subseteq Recorded'
  <2>1. /\ run' = [run EXCEPT ![q] = run'[q]] /\ notified' = notified /\ lost' = lost
        /\ run'[q].step = "delivered" /\ run[q].staged \subseteq run'[q].staged
    BY <1>5, JobKind DEF Deliver, Midway, TypeOK
  <2> QED
    BY <2>1, StagedIsRecorded
<1>6. ASSUME NEW q \in Runner, MarkSent(q) PROVE Recorded \subseteq Recorded'
  <2> DEFINE new == [step |-> "next", day |-> run[q].day, loaded |-> run[q].loaded,
                     todo |-> run[q].todo, staged |-> run[q].staged]
  <2>1. run' = [run EXCEPT ![q] = new] /\ notified' = notified /\ lost' = lost
    BY <1>6 DEF MarkSent
  <2>2. new.step = "next" /\ new.staged = run[q].staged
    OBVIOUS
  <2> HIDE DEF new
  <2> QED
    BY <2>1, <2>2, StagedIsRecorded
<1>7. ASSUME NEW q \in Runner, CommitJob(q) \/ Crash(q) PROVE Recorded \subseteq Recorded'
  <2>1. /\ run' = [run EXCEPT ![q] = Idle] /\ notified \subseteq notified' /\ lost \subseteq lost'
        /\ run[q].staged \subseteq notified' \union lost'
    BY <1>7 DEF CommitJob, Crash
  <2> QED
    BY <2>1, StagedIsRecorded
<1> QED
  BY <1>1, <1>2, <1>3, <1>4, <1>5, <1>6, <1>7 DEF Next

\* What is owed when a job starts is among the items it goes through.
LEMMA StartedJobHandles ==
    ASSUME TypeOK, NEW r \in Runner, NEW job \in Jobs, StartJob(r, job),
           NEW s \in owed'[r], s.day <= s.due
    PROVE  Handled(r, s)'
<1>1. owed'[r] = DueOrOverdue(job)
  BY DEF StartJob, TypeOK
<1>2. PICK i \in job \intersect active :
        s = About(i, due[i], today) /\ Unpaid(s.item, s.day) /\ s.due <= s.day + Window[s.item]
  BY <1>1 DEF DueOrOverdue
<1>3. s.item = i /\ s.day = today
  BY <1>2 DEF About
<1>4. /\ run'[r].step = "next" /\ run'[r].day = today /\ run'[r].loaded = due
      /\ run'[r].todo = {j \in job \intersect active : j \in Bill => Unpaid(j, today)}
      /\ paid' = paid
  BY DEF StartJob, TypeOK
<1>5. s = About(s.item, run'[r].loaded[s.item], run'[r].day)
  BY <1>2, <1>3, <1>4
<1>6. s.item \in run'[r].todo
  BY <1>2, <1>3, <1>4
<1>7. InLeadWindow(s)
  <2>1. i \in Item
    BY <1>2 DEF TypeOK
  <2>2. s \in Subject
    BY <1>2, <2>1, AboutType DEF TypeOK, DueDays
  <2>3. s.day \in Nat /\ s.due \in Nat /\ Window[s.item] \in Nat
    BY <2>2, WindowAssumption, CalendarAssumption DEF Subject, Day, DueDay
  <2>4. s.due - s.day <= Window[s.item]
    BY <1>2, <2>3
  <2> QED
    BY <2>4 DEF InLeadWindow
<1>8. <<s.item, Cycle(s.item, run'[r].day)>> \notin paid'
  BY <1>2, <1>3, <1>4 DEF Unpaid
<1> QED
  BY <1>4, <1>5, <1>6, <1>7, <1>8 DEF Handled, About, DueOn, Month, InLeadWindow, Unpaid, Cycle

\* A step that leaves a job what it read, and does not mark paid what the job owes.
LEMMA HandledStays ==
    ASSUME NEW r \in Runner, NEW s, Handled(r, s), Recorded \subseteq Recorded',
           run'[r].step # "idle", run'[r].loaded = run[r].loaded, run'[r].day = run[r].day,
           s.item \notin Bill => <<s.item, Cycle(s.item, run[r].day)>> \notin paid',
           \/ s.item \in run'[r].todo
           \/ run'[r].step = "checked" /\ run'[r].subject = s
           \/ \E t \in Recorded' : t.item = s.item /\ t.day = s.day
    PROVE  Handled(r, s)'
BY DEF Handled, About, DueOn, Month, InLeadWindow, Unpaid, Cycle

\* The invariant is inductive: one step per action.
LEMMA JobsAccountStep == TypeOK /\ TypeOK' /\ JobsAccount /\ [Next]_vars => JobsAccount'
<1> SUFFICES ASSUME TypeOK, TypeOK', JobsAccount, [Next]_vars PROVE JobsAccount'
  OBVIOUS
<1>0. Recorded \subseteq Recorded'
  BY RecordedGrows
\* The steps of the user leave the jobs alone.
<1>a. ASSUME run' = run, sent' = sent, served' = served,
             \A r \in Runner : owed'[r] \subseteq owed[r],
             \A r \in Runner : \A s \in owed'[r] :
                run[r].step # "idle" /\ s.day = run[r].day /\ s.item \notin Bill
                        /\ Unpaid(s.item, run[r].day) =>
                    <<s.item, Cycle(s.item, run[r].day)>> \notin paid'
      PROVE  JobsAccount'
  <2>1. ASSUME NEW r \in Runner, NEW s \in owed'[r], s.day <= s.due
        PROVE  Handled(r, s)'
    <3>1. Handled(r, s)
      BY <1>a, <2>1 DEF JobsAccount
    <3>0. s.day = run[r].day
      BY <3>1 DEF Handled, About
    <3>2. s.item \notin Bill => <<s.item, Cycle(s.item, run[r].day)>> \notin paid'
      BY <1>a, <3>0, <3>1 DEF Handled
    <3>3. \/ s.item \in run'[r].todo
          \/ run'[r].step = "checked" /\ run'[r].subject = s
          \/ \E t \in Recorded' : t.item = s.item /\ t.day = s.day
      BY <1>0, <1>a, <3>1 DEF Handled
    <3>4. run'[r].step # "idle"
      BY <1>a, <3>1 DEF Handled
    <3> QED
      BY <1>0, <1>a, <3>1, <3>2, <3>3, <3>4, HandledStays
  <2> QED
    BY <1>0, <1>a, <2>1 DEF JobsAccount
\* A step of one runner leaves those of the others alone.
<1>b. ASSUME NEW q \in Runner, paid' = paid,
             \A r \in Runner \ {q} : run'[r] = run[r] /\ owed'[r] = owed[r],
             run'[q].step = "delivered" => run'[q].subject \in run'[q].staged,
             \A k \in sent' : k \in sent \/ \E t \in Recorded' : t.item = k[1] /\ t.day = k[3],
             \A s \in served' : s.day <= s.due => s \in served \/ \E t \in Recorded' : t.item = s.item /\ t.day = s.day,
             \A s \in owed'[q] : s.day <= s.due => Handled(q, s)'
      PROVE  JobsAccount'
  <2>1. ASSUME NEW r \in Runner, r # q, NEW s \in owed'[r], s.day <= s.due
        PROVE  Handled(r, s)'
    <3>1. Handled(r, s) /\ run'[r] = run[r]
      BY <1>b, <2>1 DEF JobsAccount
    <3>2. s.item \notin Bill => <<s.item, Cycle(s.item, run[r].day)>> \notin paid'
      BY <1>b, <3>1 DEF Handled, Unpaid
    <3>3. \/ s.item \in run'[r].todo
          \/ run'[r].step = "checked" /\ run'[r].subject = s
          \/ \E t \in Recorded' : t.item = s.item /\ t.day = s.day
      BY <1>0, <3>1 DEF Handled
    <3>4. run'[r].step # "idle"
      BY <3>1 DEF Handled
    <3> QED
      BY <1>0, <3>1, <3>2, <3>3, <3>4, HandledStays
  <2>2. \A r \in Runner : run'[r].step = "delivered" => run'[r].subject \in run'[r].staged
    BY <1>b DEF JobsAccount
  <2>3. \A k \in sent' : \E t \in Recorded' : t.item = k[1] /\ t.day = k[3]
    BY <1>0, <1>b DEF JobsAccount
  <2>4. \A s \in served' : s.day <= s.due => \E t \in Recorded' : t.item = s.item /\ t.day = s.day
    BY <1>0, <1>b DEF JobsAccount
  <2>5. \A r \in Runner : \A s \in owed'[r] : s.day <= s.due => Handled(r, s)'
    BY <1>b, <2>1
  <2> QED
    BY <2>2, <2>3, <2>4, <2>5 DEF JobsAccount
<1>1. ASSUME NEW i \in Item, Pay(i) PROVE JobsAccount'
  <2>1. /\ run' = run /\ sent' = sent /\ served' = served
        /\ paid' = paid \union {<<i, Cycle(i, today)>>}
        /\ \A r \in Runner : owed'[r] =
             {s \in owed[r] : <<s.item, Cycle(s.item, s.day)>> # <<i, Cycle(i, today)>>}
    BY <1>1 DEF Pay
  <2> QED
    BY <2>1, <1>a DEF Unpaid
<1>2. ASSUME NEW i \in Item, NEW d \in DueDayOf(i), Reschedule(i, d) PROVE JobsAccount'
  BY <1>2, <1>a DEF Reschedule, Unpaid
<1>3. ASSUME NEW i \in Item, Delete(i) PROVE JobsAccount'
  BY <1>3, <1>a DEF Delete, Unpaid
<1>4. CASE NextDay
  BY <1>4, <1>a DEF NextDay, Unpaid
<1>5. ASSUME NEW q \in Runner, NEW job \in Jobs, StartJob(q, job) PROVE JobsAccount'
  <2>1. /\ \A r \in Runner \ {q} : run'[r] = run[r] /\ owed'[r] = owed[r]
        /\ run'[q].step = "next" /\ paid' = paid /\ sent' = sent /\ served' = served
    BY <1>5 DEF StartJob, TypeOK
  <2>2. \A s \in owed'[q] : s.day <= s.due => Handled(q, s)'
    BY <1>5, StartedJobHandles
  <2> QED
    BY <2>1, <2>2, <1>b
<1>6. ASSUME NEW q \in Runner, NEW i \in Item, SkipItem(q, i) PROVE JobsAccount'
  <2>0. run[q] \in Loop /\ run[q].step = "next"
    BY <1>6, JobKind DEF SkipItem
  <2>1. /\ \A r \in Runner \ {q} : run'[r] = run[r] /\ owed'[r] = owed[r]
        /\ run'[q] = [run[q] EXCEPT !.todo = @ \ {i}]
        /\ owed' = owed /\ paid' = paid /\ sent' = sent /\ served' = served
    BY <1>6 DEF SkipItem, TypeOK, history
  <2>2. /\ run'[q].step = "next" /\ run'[q].day = run[q].day /\ run'[q].loaded = run[q].loaded
        /\ run'[q].todo = run[q].todo \ {i}
    BY <2>0, <2>1 DEF Loop
  <2>3. ASSUME NEW s \in owed[q], s.day <= s.due PROVE Handled(q, s)'
    <3>1. Handled(q, s)
      BY <2>3 DEF JobsAccount
    <3>2. \/ s.item \in run'[q].todo
          \/ \E t \in Recorded' : t.item = s.item /\ t.day = s.day
      <4>1. CASE s.item \in run[q].todo /\ s.item = i
        <5>1. Relevant(q, i)
          BY <3>1, <4>1 DEF Handled, Relevant
        <5>2. KeyOf(s) \in sent
          BY <1>6, <3>1, <4>1, <5>1 DEF SkipItem, Handled
        <5>3. KeyOf(s)[1] = s.item /\ KeyOf(s)[3] = s.day
          BY DEF KeyOf
        <5> QED
          BY <1>0, <5>2, <5>3 DEF JobsAccount
      <4>2. CASE s.item \in run[q].todo /\ s.item # i
        BY <2>2, <4>2
      <4>3. CASE \E t \in Recorded : t.item = s.item /\ t.day = s.day
        BY <1>0, <4>3
      <4> QED
        BY <2>0, <3>1, <4>1, <4>2, <4>3 DEF Handled
    <3>3. s.item \notin Bill => <<s.item, Cycle(s.item, run[q].day)>> \notin paid'
      BY <2>1, <3>1 DEF Handled, Unpaid
    <3> QED
      BY <1>0, <2>2, <3>1, <3>2, <3>3, HandledStays
  <2> QED
    BY <2>1, <2>2, <2>3, <1>b
<1>7. ASSUME NEW q \in Runner, NEW i \in Item, CheckItem(q, i) PROVE JobsAccount'
  <2>0. run[q].step = "next"
    BY <1>7 DEF CheckItem
  <2>1. /\ \A r \in Runner \ {q} : run'[r] = run[r] /\ owed'[r] = owed[r]
        /\ run'[q].step = "checked" /\ run'[q].day = run[q].day /\ run'[q].loaded = run[q].loaded
        /\ run'[q].todo = run[q].todo \ {i}
        /\ run'[q].subject = About(i, run[q].loaded[i], run[q].day)
        /\ owed' = owed /\ paid' = paid /\ sent' = sent /\ served' = served
    BY <1>7 DEF CheckItem, TypeOK
  <2>2. ASSUME NEW s \in owed[q], s.day <= s.due PROVE Handled(q, s)'
    <3>1. Handled(q, s)
      BY <2>2 DEF JobsAccount
    <3>2. \/ s.item \in run'[q].todo
          \/ run'[q].step = "checked" /\ run'[q].subject = s
          \/ \E t \in Recorded' : t.item = s.item /\ t.day = s.day
      BY <1>0, <2>0, <2>1, <3>1 DEF Handled
    <3>3. s.item \notin Bill => <<s.item, Cycle(s.item, run[q].day)>> \notin paid'
      BY <2>1, <3>1 DEF Handled, Unpaid
    <3> QED
      BY <1>0, <2>1, <3>1, <3>2, <3>3, HandledStays
  <2> QED
    BY <2>1, <2>2, <1>b
<1>8. ASSUME NEW q \in Runner, Deliver(q) PROVE JobsAccount'
  <2>0. run[q] \in Midway /\ run[q].step = "checked"
    BY <1>8, JobKind DEF Deliver
  <2>1. /\ \A r \in Runner \ {q} : run'[r] = run[r] /\ owed'[r] = owed[r]
        /\ run'[q].step = "delivered" /\ run'[q].day = run[q].day /\ run'[q].loaded = run[q].loaded
        /\ run'[q].todo = run[q].todo /\ run'[q].subject = run[q].subject
        /\ run'[q].staged = run[q].staged \union {run[q].subject}
        /\ owed' = owed /\ paid' = paid /\ sent' = sent /\ served' = served
    BY <1>8, <2>0 DEF Deliver, TypeOK, Midway
  <2>2. run[q].subject \in Recorded'
    BY <2>1 DEF Recorded, Staged, Busy
  <2>3. ASSUME NEW s \in owed[q], s.day <= s.due PROVE Handled(q, s)'
    <3>1. Handled(q, s)
      BY <2>3 DEF JobsAccount
    <3>2. \/ s.item \in run'[q].todo
          \/ \E t \in Recorded' : t.item = s.item /\ t.day = s.day
      BY <1>0, <2>1, <2>2, <3>1 DEF Handled
    <3>3. s.item \notin Bill => <<s.item, Cycle(s.item, run[q].day)>> \notin paid'
      BY <2>1, <3>1 DEF Handled, Unpaid
    <3> QED
      BY <1>0, <2>1, <3>1, <3>2, <3>3, HandledStays
  <2> QED
    BY <2>1, <2>3, <1>b
<1>9. ASSUME NEW q \in Runner, MarkSent(q) PROVE JobsAccount'
  <2>0. run[q].step = "delivered" /\ run[q].subject \in run[q].staged
    BY <1>9 DEF MarkSent, JobsAccount
  <2>1. /\ \A r \in Runner \ {q} : run'[r] = run[r] /\ owed'[r] = owed[r]
        /\ run'[q].step = "next" /\ run'[q].day = run[q].day /\ run'[q].loaded = run[q].loaded
        /\ run'[q].todo = run[q].todo
        /\ owed' = owed /\ paid' = paid /\ served' = served
    BY <1>9 DEF MarkSent, TypeOK
  <2>2. run[q].subject \in Recorded'
    BY <1>0, <2>0 DEF Recorded, Staged, Busy
  <2>3. KeyOf(run[q].subject)[1] = run[q].subject.item /\ KeyOf(run[q].subject)[3] = run[q].subject.day
    BY DEF KeyOf
  <2>4. \A k \in sent' : k \in sent \/ \E t \in Recorded' : t.item = k[1] /\ t.day = k[3]
    BY <1>9, <2>2, <2>3 DEF MarkSent, Mark
  <2>5. ASSUME NEW s \in owed[q], s.day <= s.due PROVE Handled(q, s)'
    <3>1. Handled(q, s)
      BY <2>5 DEF JobsAccount
    <3>2. \/ s.item \in run'[q].todo
          \/ \E t \in Recorded' : t.item = s.item /\ t.day = s.day
      BY <1>0, <2>0, <2>1, <3>1 DEF Handled
    <3>3. s.item \notin Bill => <<s.item, Cycle(s.item, run[q].day)>> \notin paid'
      BY <2>1, <3>1 DEF Handled, Unpaid
    <3> QED
      BY <1>0, <2>1, <3>1, <3>2, <3>3, HandledStays
  <2> QED
    BY <2>1, <2>4, <2>5, <1>b
<1>10. ASSUME NEW q \in Runner, CommitJob(q) PROVE JobsAccount'
  <2>1. /\ \A r \in Runner \ {q} : run'[r] = run[r] /\ owed'[r] = owed[r]
        /\ run'[q] = Idle /\ owed'[q] = {}
        /\ paid' = paid /\ sent' = sent /\ served' = served \union owed[q]
        /\ run[q].step = "next" /\ run[q].todo = {}
    BY <1>10 DEF CommitJob, TypeOK
  <2>2. ASSUME NEW s \in owed[q], s.day <= s.due
        PROVE  \E t \in Recorded' : t.item = s.item /\ t.day = s.day
    BY <1>0, <2>1, <2>2 DEF JobsAccount, Handled
  <2>3. run'[q].step # "delivered"
    BY <2>1 DEF Idle
  <2> QED
    BY <2>1, <2>2, <2>3, <1>b
<1>11. ASSUME NEW q \in Runner, Crash(q) PROVE JobsAccount'
  <2>1. /\ \A r \in Runner \ {q} : run'[r] = run[r] /\ owed'[r] = owed[r]
        /\ run'[q] = Idle /\ owed'[q] = {}
        /\ paid' = paid /\ sent' = sent /\ served' = served
    BY <1>11 DEF Crash, TypeOK
  <2>2. run'[q].step # "delivered"
    BY <2>1 DEF Idle
  <2> QED
    BY <2>1, <2>2, <1>b
<1>12. CASE UNCHANGED vars
  BY <1>12, <1>a DEF vars, Unpaid
<1> QED
  BY <1>1, <1>2, <1>3, <1>4, <1>5, <1>6, <1>7, <1>8, <1>9, <1>10, <1>11, <1>12 DEF Next

\* A job that completes leaves nothing that is due without a reminder of that day, with any
\* number of runners, and wherever their jobs die: unless it was overdue.
THEOREM CompletedJobsRemind == Spec => []CompletedJobReminds
<1>1. Init => JobsAccount
  BY DEF Init, JobsAccount, Idle
<1>2. JobsAccount => CompletedJobReminds
  BY DEF JobsAccount, CompletedJobReminds, Reminded, Recorded
<1>3. []TypeOK /\ [][Next]_vars /\ JobsAccount => []JobsAccount
  BY JobsAccountStep, PTL
<1> QED
  BY <1>1, <1>2, <1>3, TypeCorrect, PTL DEF Spec
=============================================================================
