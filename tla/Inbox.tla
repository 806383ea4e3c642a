-------------------------------- MODULE Inbox --------------------------------
(***************************************************************************)
(* In-app notifications and push tokens (api/v1/notifications).  Reminders *)
(* says when a notification is created; here the user reads it, and the    *)
(* user's phones say where pushes go.  A phone's token is unique, and goes *)
(* from one user to the next when they share the phone.                    *)
(***************************************************************************)
EXTENDS Requests

CONSTANTS
    Notification,   \* ids of notifications
    PushToken,      \* tokens that phones have
    Holder          \* users

ASSUME HoldersAssumption == "nobody" \notin Holder

VARIABLES
    inbox,          \* table notifications: id -> its user, and whether it was read
    owner,          \* table push_tokens: token -> the user of its row
    inboxReq,       \* client -> its request about a token in flight
    told,           \* history: token -> the user whose registration was confirmed last
    tokensRaced     \* history: tokens that two requests were about at once

inboxVars == <<inbox, owner, inboxReq, told, tokensRaced>>

NoUser == "nobody"
Absent == [user |-> NoUser, read |-> FALSE]

TokenRequest ==
    [op : {"register", "unregister"}, user : Holder, token : PushToken, found : Holder \union {NoUser}]

InboxTypeOK ==
    /\ inbox \in [Notification -> [user : Holder \union {NoUser}, read : BOOLEAN]]
    /\ \A n \in Notification : inbox[n].read => inbox[n].user # NoUser
    /\ owner \in [PushToken -> Holder \union {NoUser}]
    /\ inboxReq \in [Client -> {NoRequest} \union TokenRequest]
    /\ told \in [PushToken -> Holder \union {NoUser}]
    /\ tokensRaced \subseteq PushToken

InboxInit ==
    /\ inbox = [n \in Notification |-> Absent]
    /\ owner = [t \in PushToken |-> NoUser]
    /\ inboxReq = [c \in Client |-> NoRequest]
    /\ told = [t \in PushToken |-> NoUser]
    /\ tokensRaced = {}

-----------------------------------------------------------------------------
\* create_notification, of a reminder run that committed.
CreateNotification(n, u) ==
    /\ inbox[n] = Absent
    /\ inbox' = [inbox EXCEPT ![n] = [user |-> u, read |-> FALSE]]
    /\ UNCHANGED <<owner, inboxReq, told, tokensRaced>>

\* mark_read: the user's own only.
MarkRead(n, u) ==
    /\ inbox[n].user = u
    /\ inbox' = [inbox EXCEPT ![n].read = TRUE]
    /\ UNCHANGED <<owner, inboxReq, told, tokensRaced>>

\* mark_all_read: one UPDATE of what is there by now, seen in a listing or not.
MarkAllRead(u) ==
    /\ inbox' = [n \in Notification |-> [inbox[n] EXCEPT !.read = @ \/ inbox[n].user = u]]
    /\ UNCHANGED <<owner, inboxReq, told, tokensRaced>>

-----------------------------------------------------------------------------
Others(c, t) == {d \in Client \ {c} : inboxReq[d] # NoRequest /\ inboxReq[d].token = t}

\* register_push_token looks for the token's row, delete_push_token for the user's own.
LoadToken(c, op, u, t) ==
    /\ inboxReq[c] = NoRequest
    /\ inboxReq' = [inboxReq EXCEPT ![c] =
         [op |-> op, user |-> u, token |-> t,
          found |-> IF op = "register" \/ owner[t] = u THEN owner[t] ELSE NoUser]]
    /\ tokensRaced' = IF Others(c, t) = {} THEN tokensRaced ELSE tokensRaced \union {t}
    /\ UNCHANGED <<inbox, owner, told>>

\* Mutation of Upserted: a row that is there keeps its user.
Upserted_Kept(r) == IF r.found = NoUser THEN r.user ELSE owner[r.token]

\* upsert_push_token: a new row, or the one that was found with its user changed, if it was.
Upserted(r) == IF r.found = r.user THEN owner[r.token] ELSE r.user

\* An INSERT must not meet the token, nor an UPDATE miss it: the request fails then.
CommitRegister(c) ==
    LET r == inboxReq[c] IN
    /\ r.op = "register"
    /\ r.found = NoUser => owner[r.token] = NoUser
    /\ r.found \notin {NoUser, r.user} => owner[r.token] # NoUser
    /\ owner' = [owner EXCEPT ![r.token] = Upserted(r)]
    /\ told' = [told EXCEPT ![r.token] = r.user]
    /\ inboxReq' = [inboxReq EXCEPT ![c] = NoRequest]
    /\ UNCHANGED <<inbox, tokensRaced>>

\* delete_push_token: the row it found goes, whoever has it by now.
CommitUnregister(c) ==
    LET r == inboxReq[c] IN
    /\ r.op = "unregister"
    /\ owner' = IF r.found = NoUser THEN owner ELSE [owner EXCEPT ![r.token] = NoUser]
    /\ told' = IF told[r.token] = r.user THEN [told EXCEPT ![r.token] = NoUser] ELSE told
    /\ inboxReq' = [inboxReq EXCEPT ![c] = NoRequest]
    /\ UNCHANGED <<inbox, tokensRaced>>

RollBackToken(c) ==
    /\ inboxReq[c] # NoRequest
    /\ inboxReq' = [inboxReq EXCEPT ![c] = NoRequest]
    /\ UNCHANGED <<inbox, owner, told, tokensRaced>>

-----------------------------------------------------------------------------
InboxNext ==
    \/ \E n \in Notification, u \in Holder : CreateNotification(n, u) \/ MarkRead(n, u)
    \/ \E u \in Holder : MarkAllRead(u)
    \/ \E c \in Client, op \in {"register", "unregister"}, u \in Holder, t \in PushToken : LoadToken(c, op, u, t)
    \/ \E c \in Client : CommitRegister(c) \/ CommitUnregister(c) \/ RollBackToken(c)

InboxSpec == InboxInit /\ [][InboxNext]_inboxVars

-----------------------------------------------------------------------------
(* Properties.                                                             *)

\* A phone's pushes go to the user that registered it last and has not signed it off
\* since, unless requests about the phone overlapped: a deletion that began before the
\* phone changed hands takes the next user's row away.
PushesGoToTheUser == \A t \in PushToken \ tokensRaced : owner[t] = told[t]
=============================================================================
