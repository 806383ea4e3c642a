-------------------------------- MODULE Goals --------------------------------
(***************************************************************************)
(* Savings goals (api/v1/goals): contributions that stop at the target,    *)
(* targets that may be edited, and one goal that is the emergency fund.    *)
(* Names, monthly contributions and due days are left out.  Amounts are in *)
(* tenths of a paisa (UnitOfWork).                                         *)
(***************************************************************************)
EXTENDS Requests

CONSTANTS
    Goal,       \* ids of goals
    GoalTarget, \* targets a request may name
    Saving      \* amounts saved that a request may name

ASSUME GoalTargetAssumption == GoalTarget \subseteq Nat \ {0}
ASSUME SavingAssumption == Saving \subseteq Nat \ {0}

VARIABLES
    goals,          \* table goals: id -> row
    goalReq,        \* client -> its request in flight
    credited,       \* history: goal -> what the responses added up to, each to the paisa,
                    \* 0 once it was raced
    goalsRaced,     \* history: goals that two requests wrote at once
    fundsRaced      \* history: did two creations of an emergency fund overlap?

goalVars == <<goals, goalReq, credited, goalsRaced, fundsRaced>>

GoalRow == [status : {"absent", "live", "deleted"}, target : Nat, saved : Nat, emergency : BOOLEAN]

GoalWrite == [op : {"contribute", "update"}, goal : Goal, loaded : GoalRow, computed : GoalRow]
GoalCreate == [op : {"create"}, goal : Goal, cleared : SUBSET Goal, computed : GoalRow]

GoalsTypeOK ==
    /\ goals \in [Goal -> GoalRow]
    /\ goalReq \in [Client -> {NoRequest} \union GoalWrite \union GoalCreate]
    /\ credited \in [Goal -> Int]
    /\ goalsRaced \subseteq Goal
    /\ fundsRaced \in BOOLEAN

GoalsInit ==
    /\ goals = [g \in Goal |-> [status |-> "absent", target |-> 0, saved |-> 0, emergency |-> FALSE]]
    /\ goalReq = [c \in Client |-> NoRequest]
    /\ credited = [g \in Goal |-> 0]
    /\ goalsRaced = {}
    /\ fundsRaced = FALSE

-----------------------------------------------------------------------------
LiveGoals == {g \in Goal : goals[g].status = "live"}
EmergencyFunds == {g \in LiveGoals : goals[g].emergency}

\* Ids that no row and no request has yet.
NewGoals ==
    {g \in Goal : goals[g].status = "absent" /\ \A c \in Client : goalReq[c] = NoRequest \/ goalReq[c].goal # g}

NewGoalRow(target, saved, emergency) ==
    [status |-> "live", target |-> target, saved |-> saved, emergency |-> emergency]

\* A row with its amounts as the columns keep them.
StoredGoal(row) == [row EXCEPT !.target = Stored(@), !.saved = Stored(@)]

\* create_goal of one that is not the emergency fund.
CreateGoal(g, target, saved) ==
    /\ g \in NewGoals
    /\ saved <= target
    /\ goals' = [goals EXCEPT ![g] = StoredGoal(NewGoalRow(target, saved, FALSE))]
    /\ credited' = [credited EXCEPT ![g] = Stored(saved)]
    /\ UNCHANGED <<goalReq, goalsRaced, fundsRaced>>

\* Mutation of ClearsFlagOf: the flag stays where it is.
ClearsFlagOf_None == {}

\* clear_emergency_flag: one UPDATE of the rows that are flagged when it runs.
ClearsFlagOf == EmergencyFunds

\* create_goal of an emergency fund: it clears the flag of the others ...
ClearEmergencyFlag(c, g, target, saved) ==
    /\ goalReq[c] = NoRequest
    /\ g \in NewGoals
    /\ saved <= target
    /\ goalReq' = [goalReq EXCEPT ![c] =
         [op |-> "create", goal |-> g, cleared |-> ClearsFlagOf, computed |-> NewGoalRow(target, saved, TRUE)]]
    /\ UNCHANGED <<goals, credited, goalsRaced, fundsRaced>>

\* ... and inserts the new one.
CommitEmergencyFund(c) ==
    LET r == goalReq[c] IN
    /\ r.op = "create"
    /\ goals' = [g \in Goal |-> CASE g = r.goal -> StoredGoal(r.computed)
                                  [] g \in r.cleared \ {r.goal} -> [goals[g] EXCEPT !.emergency = FALSE]
                                  [] OTHER -> goals[g]]
    /\ credited' = [credited EXCEPT ![r.goal] = Stored(r.computed.saved)]
    /\ goalReq' = [goalReq EXCEPT ![c] = NoRequest]
    /\ fundsRaced' = (fundsRaced \/ \E d \in Client \ {c} : goalReq[d].op = "create")
    /\ UNCHANGED goalsRaced

LoadGoal(c, g, op, computed) ==
    /\ goalReq[c] = NoRequest
    /\ g \in LiveGoals
    /\ goalReq' = [goalReq EXCEPT ![c] =
         [op |-> op, goal |-> g, loaded |-> goals[g], computed |-> computed]]
    /\ UNCHANGED <<goals, credited, goalsRaced, fundsRaced>>

\* Mutation of Contributed: a contribution is not cut off at the target.
Contributed_Uncapped(row, amount) == row.saved + amount

\* What is saved after a contribution, as the response says it.
Contributed(row, amount) == IF row.saved + amount <= row.target THEN row.saved + amount ELSE row.target

\* contribute.
LoadContribution(c, g, amount) ==
    LoadGoal(c, g, "contribute", [goals[g] EXCEPT !.saved = Contributed(goals[g], amount)])

\* update_goal, of the target: less than what is saved is refused.
LoadGoalUpdate(c, g, target) ==
    /\ goals[g].saved <= target
    /\ LoadGoal(c, g, "update", [goals[g] EXCEPT !.target = target])

\* History: does another request in flight write the row of `g`?
GoalContended(c, g) == \E d \in Client \ {c} : goalReq[d] # NoRequest /\ goalReq[d].goal = g

CommitGoal(c) ==
    LET r == goalReq[c] IN
    /\ r.op \in {"contribute", "update"}
    /\ goals' = [goals EXCEPT ![r.goal] = StoredGoal(Flush(@, r.loaded, r.computed))]
    /\ goalsRaced' = IF GoalContended(c, r.goal) THEN goalsRaced \union {r.goal} ELSE goalsRaced
    /\ credited' = [credited EXCEPT ![r.goal] =
         IF r.goal \in goalsRaced' THEN 0 ELSE @ + (Stored(r.computed.saved) - r.loaded.saved)]
    /\ goalReq' = [goalReq EXCEPT ![c] = NoRequest]
    /\ UNCHANGED fundsRaced

RollBackGoal(c) ==
    /\ goalReq[c] # NoRequest
    /\ goalReq' = [goalReq EXCEPT ![c] = NoRequest]
    /\ UNCHANGED <<goals, credited, goalsRaced, fundsRaced>>

DeleteGoal(g) ==
    /\ g \in LiveGoals
    /\ goals' = [goals EXCEPT ![g].status = "deleted"]
    /\ UNCHANGED <<goalReq, credited, goalsRaced, fundsRaced>>

-----------------------------------------------------------------------------
GoalsNext ==
    \/ \E g \in Goal, target \in GoalTarget, saved \in {0} \union Saving : CreateGoal(g, target, saved)
    \/ \E c \in Client, g \in Goal, target \in GoalTarget, saved \in {0} \union Saving :
         ClearEmergencyFlag(c, g, target, saved)
    \/ \E c \in Client, g \in Goal, amount \in Saving : LoadContribution(c, g, amount)
    \/ \E c \in Client, g \in Goal, target \in GoalTarget : LoadGoalUpdate(c, g, target)
    \/ \E c \in Client : CommitEmergencyFund(c) \/ CommitGoal(c) \/ RollBackGoal(c)
    \/ \E g \in Goal : DeleteGoal(g)

GoalsSpec == GoalsInit /\ [][GoalsNext]_goalVars

-----------------------------------------------------------------------------
(* Properties.                                                             *)

\* Nothing is saved beyond a goal's target, through any sequence of contributions and
\* edits of the target, and what is saved is what the responses added, each rounded to
\* the paisa (a response itself is not rounded): but for goals that two requests wrote at
\* once, where one contribution may be lost.
SavingsAddUp ==
    \A g \in LiveGoals \ goalsRaced :
        goals[g].saved <= goals[g].target /\ goals[g].saved = credited[g]

\* There is one emergency fund at most (get_emergency raises if there are two), unless
\* two creations overlapped: each clears the flags it sees, and neither sees the other.
OneEmergencyFund == fundsRaced \/ Cardinality(EmergencyFunds) <= 1
=============================================================================
