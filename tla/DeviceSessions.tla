---------------------------- MODULE DeviceSessions ----------------------------
(***************************************************************************)
(* The user's signed-in devices (api/v1/security, api/v1/auth).  A token   *)
(* names the credential version and the device session it was issued for,  *)
(* and is accepted while the version is the user's and the session is      *)
(* open.                                                                   *)
(*                                                                         *)
(* An UPDATE without a row's id works on the rows that were committed when *)
(* it began: it waits for the locks of others on them, and does not see a  *)
(* row that was inserted meanwhile.  The steps of a request stop where     *)
(* that matters.  Two that wait for each other's locks are a request that  *)
(* PostgreSQL rolls back.                                                  *)
(*                                                                         *)
(* Tokens do not expire here, passwords are right, every request names its *)
(* browser, and the list of security events, the PIN and the profile are   *)
(* left out.                                                               *)
(***************************************************************************)
EXTENDS Requests

CONSTANTS
    Device,         \* ids of device sessions
    Agent,          \* User-Agent headers
    LastVersion     \* bound: credential versions

ASSUME LastVersionAssumption == LastVersion \in Nat
ASSUME AgentAssumption == Agent # {}

VARIABLES
    version,        \* users.credential_version
    devices,        \* table user_sessions: id -> row
    tokens,         \* tokens issued so far
    authReq,        \* client -> its request in flight
    raced,          \* history: a sign-in did not see the session of one that it overlapped
                    \* with, and what the two left is still there
    late            \* history: tokens for sessions that a sign-out under way did not see

deviceVars == <<version, devices, tokens, authReq, raced, late>>

AnyAgent == CHOOSE a \in Agent : TRUE

\* Nobody reads the other columns of a session that is not open: the model drops them.
Row(status) == [status |-> status, agent |-> AnyAgent, current |-> FALSE]

DeviceRow == [status : {"absent", "open", "revoked"}, agent : Agent, current : BOOLEAN]
Token == [version : 0 .. LastVersion, device : Device]

Login == [op : {"login"}, agent : Agent, version : 0 .. LastVersion]
\* seen: the sessions that the UPDATE of clear_current_flags works on.
Clearing == [op : {"clearing"}, agent : Agent, version : 0 .. LastVersion, seen : SUBSET Device]
\* found: the session of this browser, if one is open, and `row` as it was read.
SigningIn == [op : {"signing_in"}, agent : Agent, version : 0 .. LastVersion, seen : SUBSET Device,
              found : SUBSET Device, row : DeviceRow]
SignOut == [op : {"sign_out"}, version : 0 .. (LastVersion - 1)]
\* rows: the sessions that the UPDATE of revoke_all_except works on.
Revoking == [op : {"revoking"}, version : 0 .. (LastVersion - 1), rows : SUBSET Device]
Listing == [op : {"list"}, duplicates : SUBSET Device]

AuthRequest == {NoRequest} \union Login \union Clearing \union SigningIn
               \union SignOut \union Revoking \union Listing

DevicesTypeOK ==
    /\ version \in 0 .. LastVersion
    /\ devices \in [Device -> DeviceRow]
    /\ tokens \subseteq Token
    /\ authReq \in [Client -> AuthRequest]
    /\ raced \in BOOLEAN
    /\ late \subseteq Token

\* A user that scripts/seed.py created: nobody ever signed in.
DevicesInit ==
    /\ version = 0
    /\ devices = [s \in Device |-> Row("absent")]
    /\ tokens = {}
    /\ authReq = [c \in Client |-> NoRequest]
    /\ raced = FALSE
    /\ late = {}

-----------------------------------------------------------------------------
OpenDevices == {s \in Device : devices[s].status = "open"}
OpenOf(agent) == {s \in OpenDevices : devices[s].agent = agent}
Known == {s \in Device : devices[s].status # "absent"}

\* get_current_user, refresh_tokens: the same test.
Accepted(t) == t.version = version /\ devices[t.device].status = "open"

\* Somebody holds a token that is accepted.
Authenticated == \E t \in tokens : Accepted(t)

\* revoke_duplicate_user_agents: of the sessions in `rows`, all but one of each agent.
\* It keeps the most recently active one; the model leaves open which that is.
DuplicateSets(rows) ==
    {dups \in SUBSET rows :
        /\ \A s \in rows : Cardinality({k \in rows \ dups : devices[k].agent = devices[s].agent}) = 1}

\* No other sign-in holds the lock of one of `rows`: it has cleared their flags.
Unlocked(c, rows) ==
    \A d \in Client : d # c /\ authReq[d].op = "signing_in" => authReq[d].seen \intersect rows = {}

\* Two open sessions of one browser, or two current ones.
Doubled(rows) ==
    \E s, o \in Device :
        /\ s # o /\ rows[s].status = "open" /\ rows[o].status = "open"
        /\ rows[s].agent = rows[o].agent \/ (rows[s].current /\ rows[o].current)

-----------------------------------------------------------------------------
(* Signing in.                                                             *)

\* login reads the user.
LoadLogin(c, agent) ==
    /\ authReq[c] = NoRequest
    /\ authReq' = [authReq EXCEPT ![c] = [op |-> "login", agent |-> agent, version |-> version]]
    /\ UNCHANGED <<version, devices, tokens, raced, late>>

\* clear_current_flags: the UPDATE begins, on the sessions there are ...
ClearFlags(c) ==
    LET r == authReq[c] IN
    /\ r.op = "login"
    /\ authReq' = [authReq EXCEPT ![c] =
         [op |-> "clearing", agent |-> r.agent, version |-> r.version, seen |-> Known]]
    /\ UNCHANGED <<version, devices, tokens, raced, late>>

NewRow(agent) == [status |-> "open", agent |-> agent, current |-> TRUE]

\* Mutation of FoundOpen: no session is looked for.
FoundOpen_None(agent) == {{}}

\* find_open_session_by_user_agent.
FoundOpen(agent) == AnyOf(OpenOf(agent))

\* ... and has their locks, which the sign-in keeps until its commit.  It looks for a
\* session of its browser, and sees what it has cleared itself.
FindSession(c) ==
    LET r == authReq[c] IN
    /\ r.op = "clearing"
    /\ Unlocked(c, r.seen)
    /\ \E found \in FoundOpen(r.agent) : \E row \in DeviceRow :
         /\ found = {} => row = NewRow(r.agent)
         /\ \A s \in found : row = [devices[s] EXCEPT !.current = @ /\ s \notin r.seen]
         /\ authReq' = [authReq EXCEPT ![c] =
              [op |-> "signing_in", agent |-> r.agent, version |-> r.version, seen |-> r.seen,
               found |-> found, row |-> row]]
    /\ UNCHANGED <<version, devices, tokens, raced, late>>

\* A new session has an id that no session had; which one never matters.
NewIds == IF Known = Device THEN {} ELSE {CHOOSE s \in Device : s \notin Known}

\* The sessions that go with a sign-in: the repetitions, when a session was found.
Repeated(found, s) ==
    IF found = {} THEN {{}} ELSE {dups \in DuplicateSets(OpenDevices) : s \notin dups}

\* record_login: `s`, found or new, becomes the current one; of a session that was found
\* the UPDATE names the columns that changed.
LoginRows(r, s, repeated) ==
    [d \in Device |->
        CASE d = s -> IF r.found = {} THEN r.row
                      ELSE Flush(devices[d], r.row, [r.row EXCEPT !.current = TRUE])
          [] d # s /\ d \in repeated -> Row("revoked")
          [] OTHER -> [devices[d] EXCEPT !.current = @ /\ d \notin r.seen]]

\* A sign-out that has begun to close sessions, and does not see `s`.
Misses(d, s) == authReq[d].op = "revoking" /\ s \notin authReq[d].rows

\* The token is issued after the commit, for the version that login read.
CommitLogin(c) ==
    LET r == authReq[c] IN
    /\ r.op = "signing_in"
    /\ \E s \in IF r.found = {} THEN NewIds ELSE r.found : \E repeated \in Repeated(r.found, s) :
         LET t == [version |-> r.version, device |-> s] IN
         /\ Unlocked(c, r.found \union repeated)
         /\ devices' = LoginRows(r, s, repeated)
         /\ tokens' = tokens \union {t}
         /\ late' = late \union {o \in {t} : \E d \in Client : Misses(d, o.device)}
    /\ raced' = ((raced \/ Known \ r.seen # {}) /\ Doubled(devices'))
    /\ authReq' = [authReq EXCEPT ![c] = NoRequest]
    /\ UNCHANGED version

-----------------------------------------------------------------------------
(* Signing out.                                                            *)

\* logout and change_password read the user ...
LoadSignOut(c) ==
    /\ authReq[c] = NoRequest
    /\ Authenticated
    /\ version < LastVersion
    /\ authReq' = [authReq EXCEPT ![c] = [op |-> "sign_out", version |-> version]]
    /\ UNCHANGED <<version, devices, tokens, raced, late>>

\* ... write the version they read plus one, which locks the user's row, and begin to sign
\* out the devices there are: the UPDATE of revoke_all_except ...
BeginRevoking(c) ==
    LET r == authReq[c] IN
    /\ r.op = "sign_out"
    /\ \A d \in Client : authReq[d].op # "revoking"
    /\ authReq' = [authReq EXCEPT ![c] = [op |-> "revoking", version |-> r.version, rows |-> OpenDevices]]
    /\ UNCHANGED <<version, devices, tokens, raced, late>>

\* Mutation of SignedOut: the version goes up, and the sessions stay as they are.
SignedOut_Nobody(rows) == devices

\* Those of `rows` that are still open are signed out.
SignedOut(rows) == [s \in Device |-> IF s \in rows \intersect OpenDevices THEN Row("revoked") ELSE devices[s]]

\* ... which waits for the sign-ins that hold one of them, and is committed.
CommitSignOut(c) ==
    LET r == authReq[c] IN
    /\ r.op = "revoking"
    /\ Unlocked(c, r.rows)
    /\ version' = r.version + 1
    /\ devices' = SignedOut(r.rows)
    /\ raced' = (raced /\ Doubled(devices'))
    /\ authReq' = [authReq EXCEPT ![c] = NoRequest]
    /\ UNCHANGED <<tokens, late>>

\* revoke_session, by any device's request: one UPDATE of a session that exists.
RevokeSession(s) ==
    /\ Authenticated
    /\ s \in Known
    /\ \A c \in Client : authReq[c].op = "signing_in" => s \notin authReq[c].seen
    /\ devices' = [devices EXCEPT ![s] = Row("revoked")]
    /\ raced' = (raced /\ Doubled(devices'))
    /\ UNCHANGED <<version, tokens, authReq, late>>

\* revoke_all_sessions: the router names no session to keep.
RevokeAllSessions ==
    /\ Authenticated
    /\ \A c \in Client : authReq[c].op = "signing_in" => authReq[c].seen \intersect OpenDevices = {}
    /\ devices' = SignedOut(OpenDevices)
    /\ raced' = (raced /\ Doubled(devices'))
    /\ UNCHANGED <<version, tokens, authReq, late>>

\* list_sessions and get_overview: duplicates are looked for ...
LoadListing(c) ==
    /\ authReq[c] = NoRequest
    /\ Authenticated
    /\ \E dups \in DuplicateSets(OpenDevices) \ {{}} :
         authReq' = [authReq EXCEPT ![c] = [op |-> "list", duplicates |-> dups]]
    /\ UNCHANGED <<version, devices, tokens, raced, late>>

\* ... and signed out.
CommitListing(c) ==
    LET r == authReq[c] IN
    /\ r.op = "list"
    /\ Unlocked(c, r.duplicates)
    /\ devices' = [s \in Device |-> IF s \in r.duplicates THEN Row("revoked") ELSE devices[s]]
    /\ raced' = (raced /\ Doubled(devices'))
    /\ authReq' = [authReq EXCEPT ![c] = NoRequest]
    /\ UNCHANGED <<version, tokens, late>>

RollBackAuth(c) ==
    /\ authReq[c] # NoRequest
    /\ authReq' = [authReq EXCEPT ![c] = NoRequest]
    /\ UNCHANGED <<version, devices, tokens, raced, late>>

-----------------------------------------------------------------------------
DevicesNext ==
    \/ \E c \in Client, agent \in Agent : LoadLogin(c, agent)
    \/ \E c \in Client : \/ ClearFlags(c)
                         \/ FindSession(c)
                         \/ CommitLogin(c)
                         \/ LoadSignOut(c)
                         \/ BeginRevoking(c)
                         \/ CommitSignOut(c)
                         \/ LoadListing(c)
                         \/ CommitListing(c)
                         \/ RollBackAuth(c)
    \/ \E s \in Device : RevokeSession(s)
    \/ RevokeAllSessions

DevicesSpec == DevicesInit /\ [][DevicesNext]_deviceVars

-----------------------------------------------------------------------------
(* Properties.                                                             *)

\* What was signed out stays out: a token that was issued, and is not accepted, is never
\* accepted again, however sign-ins, sign-outs and clean-ups overlap; but for a token that
\* a sign-in was given for a session it opened while a sign-out was closing the others.  It
\* takes both halves of the test: the version is written as an absolute value and may go
\* back, and a session alone does not tell the tokens of before a change of password.
RejectedStaysRejected ==
    [][\A t \in tokens \ late : ~Accepted(t) => ~Accepted(t)']_deviceVars

\* A browser is one trusted device however often it signs in, and one device at most is
\* the current one: unless a sign-in overlapped with one that opened a session, which its
\* UPDATE of the flags did not see, and then until a later sign-in or listing has cleaned up.
OneSessionPerDevice == Doubled(devices) => raced
=============================================================================
