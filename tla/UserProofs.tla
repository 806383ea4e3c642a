------------------------------ MODULE UserProofs ------------------------------
(***************************************************************************)
(* Proofs about the components around the user, for any devices, files,    *)
(* phones, users, options, rows and requests: each by itself, and MCUser,  *)
(* which runs each of them.                                                *)
(***************************************************************************)
EXTENDS MCUser, Sums

-----------------------------------------------------------------------------
(* Device sessions.                                                        *)

\* A query that is limited to one row answers with nothing or with one of the rows.
LEMMA OneOfRows ==
    ASSUME NEW s, NEW x \in AnyOf(s)
    PROVE  x \subseteq s
BY DEF AnyOf

\* The session of a sign-in is not among those that go with it.
LEMMA SessionNotRepeated ==
    ASSUME NEW found, NEW s, NEW repeated \in Repeated(found, s)
    PROVE  s \notin repeated
BY DEF Repeated

-----------------------------------------------------------------------------
(* Type correctness.                                                       *)

\* A request in flight is of the kind that its operation names.
LEMMA AuthRequestKind ==
    ASSUME NEW r \in AuthRequest
    PROVE  /\ r.op = "login" => r \in Login
           /\ r.op = "clearing" => r \in Clearing
           /\ r.op = "signing_in" => r \in SigningIn
           /\ r.op = "sign_out" => r \in SignOut
           /\ r.op = "revoking" => r \in Revoking
           /\ r.op = "list" => r \in Listing
<1>1. CASE r = NoRequest
  BY <1>1 DEF NoRequest
<1>2. CASE r \in Login
  BY <1>2 DEF Login
<1>3. CASE r \in Clearing
  BY <1>3 DEF Clearing
<1>4. CASE r \in SigningIn
  BY <1>4 DEF SigningIn
<1>5. CASE r \in SignOut
  BY <1>5 DEF SignOut
<1>6. CASE r \in Revoking
  BY <1>6 DEF Revoking
<1>7. CASE r \in Listing
  BY <1>7 DEF Listing
<1> QED
  BY <1>1, <1>2, <1>3, <1>4, <1>5, <1>6, <1>7 DEF AuthRequest

\* A session that is not open is one.
LEMMA RowType == Row("absent") \in DeviceRow /\ Row("revoked") \in DeviceRow
<1>1. AnyAgent \in Agent
  BY AgentAssumption DEF AnyAgent
<1> QED
  BY <1>1 DEF Row, DeviceRow

\* Signing out devices leaves a table of sessions, and closes those it is about.
LEMMA SignedOutRows ==
    ASSUME devices \in [Device -> DeviceRow], NEW those
    PROVE  /\ SignedOut(those) \in [Device -> DeviceRow]
           /\ \A s \in Device : SignedOut(those)[s] = devices[s] \/ SignedOut(those)[s] = Row("revoked")
           /\ \A s \in those \intersect OpenDevices : SignedOut(those)[s] = Row("revoked")
BY RowType DEF SignedOut, OpenDevices

\* What a sign-in that has found its session, or none, does to the tables: its session is
\* one that is open or that no row had.
SignsIn(r, s, repeated) ==
    /\ s \in Device /\ s \notin repeated
    /\ r.found = {} => s \notin Known
    /\ r.found # {} => s \in r.found
    /\ devices' = LoginRows(r, s, repeated)
    /\ tokens' = tokens \union {[version |-> r.version, device |-> s]}
    /\ late' = late \union {o \in {[version |-> r.version, device |-> s]} : \E d \in Client : Misses(d, o.device)}

LEMMA CommitSignsIn ==
    ASSUME DevicesTypeOK, NEW c \in Client, CommitLogin(c)
    PROVE  /\ authReq[c] \in SigningIn
           /\ \E s, repeated : SignsIn(authReq[c], s, repeated)
<1>1. authReq[c] \in AuthRequest /\ authReq[c].op = "signing_in"
  BY DEF DevicesTypeOK, CommitLogin
<1>2. authReq[c] \in SigningIn
  BY <1>1, AuthRequestKind
<1> PICK r : r = authReq[c]
  OBVIOUS
<1>3. PICK s \in IF r.found = {} THEN NewIds ELSE r.found : \E repeated \in Repeated(r.found, s) :
         /\ devices' = LoginRows(r, s, repeated)
         /\ tokens' = tokens \union {[version |-> r.version, device |-> s]}
         /\ late' = late \union {o \in {[version |-> r.version, device |-> s]} : \E d \in Client : Misses(d, o.device)}
  BY DEF CommitLogin
<1>4. PICK repeated \in Repeated(r.found, s) :
         /\ devices' = LoginRows(r, s, repeated)
         /\ tokens' = tokens \union {[version |-> r.version, device |-> s]}
         /\ late' = late \union {o \in {[version |-> r.version, device |-> s]} : \E d \in Client : Misses(d, o.device)}
  BY <1>3
<1>5. r.found \subseteq Device
  BY <1>2 DEF SigningIn
<1>6. r.found = {} => s \in Device /\ s \notin Known
  <2> SUFFICES ASSUME r.found = {} PROVE s \in Device /\ s \notin Known
    OBVIOUS
  <2>1. s \in NewIds
    BY <1>3
  <2>2. Known # Device /\ s = CHOOSE d \in Device : d \notin Known
    BY <2>1 DEF NewIds
  <2>3. \E d \in Device : d \notin Known
    BY <2>2 DEF Known
  <2> QED
    BY <2>2, <2>3
<1>7. r.found # {} => s \in r.found
  BY <1>3
<1>8. SignsIn(r, s, repeated)
  BY <1>4, <1>5, <1>6, <1>7, SessionNotRepeated DEF SignsIn
<1> QED
  BY <1>2, <1>8

\* What a sign-in leaves of each session.
Leaves(r, s, repeated, after) ==
    /\ after \in [Device -> DeviceRow]
    /\ r.found = {} => after[s] = r.row
    /\ r.found # {} => after[s].status = devices[s].status /\ after[s].agent = devices[s].agent
    /\ \A d \in Device : d # s /\ d \in repeated => after[d] = Row("revoked")
    /\ \A d \in Device : d # s /\ d \notin repeated =>
         /\ after[d].status = devices[d].status /\ after[d].agent = devices[d].agent
         /\ d \in r.seen => after[d].current = FALSE

LEMMA LoginRowsAre ==
    ASSUME devices \in [Device -> DeviceRow], NEW r \in SigningIn, NEW s, NEW repeated,
           SignsIn(r, s, repeated)
    PROVE  Leaves(r, s, repeated, devices')
<1>0. s \in Device /\ s \notin repeated /\ devices' = LoginRows(r, s, repeated) /\ r.row \in DeviceRow
  BY DEF SignsIn, SigningIn
<1>1. devices' = [d \in Device |-> devices'[d]]
  BY <1>0 DEF LoginRows
<1>2. r.found = {} => devices'[s] = r.row
  BY <1>0 DEF LoginRows
<1>3. r.found # {} => /\ devices'[s] \in DeviceRow
                      /\ devices'[s].status = devices[s].status /\ devices'[s].agent = devices[s].agent
  <2> SUFFICES ASSUME r.found # {} PROVE /\ devices'[s] \in DeviceRow
                                         /\ devices'[s].status = devices[s].status
                                         /\ devices'[s].agent = devices[s].agent
    OBVIOUS
  <2>1. devices'[s] = Flush(devices[s], r.row, [r.row EXCEPT !.current = TRUE])
    BY <1>0 DEF LoginRows
  <2>2. devices[s] \in DeviceRow
    BY <1>0
  <2> QED
    BY <1>0, <2>1, <2>2 DEF Flush, DeviceRow
<1>4. ASSUME NEW d \in Device, d # s, d \in repeated
      PROVE  devices'[d] = Row("revoked") /\ devices'[d] \in DeviceRow
  BY <1>0, <1>4, RowType DEF LoginRows
<1>5. ASSUME NEW d \in Device, d # s, d \notin repeated
      PROVE  /\ devices'[d].status = devices[d].status /\ devices'[d].agent = devices[d].agent
             /\ d \in r.seen => devices'[d].current = FALSE
             /\ devices'[d] \in DeviceRow
  <2>1. devices'[d] = [devices[d] EXCEPT !.current = @ /\ d \notin r.seen]
    BY <1>0, <1>5 DEF LoginRows
  <2>2. devices[d] \in DeviceRow
    BY <1>5
  <2>3. PICK current \in BOOLEAN : current = (devices[d].current /\ d \notin r.seen)
    OBVIOUS
  <2>4. devices'[d] = [devices[d] EXCEPT !.current = current]
    BY <2>1, <2>3
  <2>5. d \in r.seen => current = FALSE
    BY <2>3
  <2>6. devices'[d] \in DeviceRow
    BY <2>2, <2>4 DEF DeviceRow
  <2> QED
    BY <2>2, <2>4, <2>5, <2>6 DEF DeviceRow
<1>6. \A d \in Device : devices'[d] \in DeviceRow
  <2>1. devices'[s] \in DeviceRow
    BY <1>0, <1>2, <1>3
  <2> QED
    BY <1>4, <1>5, <2>1
<1> QED
  BY <1>1, <1>2, <1>3, <1>4, <1>5, <1>6 DEF Leaves

\* Every step of a sign-in, a sign-out or a clean-up keeps the type of the state.
LEMMA DevicesTypeStep == DevicesTypeOK /\ [DevicesNext]_deviceVars => DevicesTypeOK'
<1> SUFFICES ASSUME DevicesTypeOK, [DevicesNext]_deviceVars PROVE DevicesTypeOK'
  OBVIOUS
<1>0. /\ version \in 0 .. LastVersion
      /\ devices \in [Device -> DeviceRow]
      /\ tokens \subseteq Token
      /\ authReq \in [Client -> AuthRequest]
      /\ raced \in BOOLEAN
      /\ late \subseteq Token
  BY DEF DevicesTypeOK
<1>1. ASSUME NEW c \in Client, NEW r \in AuthRequest, authReq' = [authReq EXCEPT ![c] = r],
             UNCHANGED <<version, devices, tokens, raced, late>>
      PROVE  DevicesTypeOK'
  BY <1>0, <1>1 DEF DevicesTypeOK
<1>2. ASSUME NEW c \in Client, NEW agent \in Agent, LoadLogin(c, agent)
      PROVE  DevicesTypeOK'
  <2>1. [op |-> "login", agent |-> agent, version |-> version] \in AuthRequest
    BY <1>0 DEF Login, AuthRequest
  <2> QED
    BY <1>1, <1>2, <2>1 DEF LoadLogin
<1>3. ASSUME NEW c \in Client, ClearFlags(c)
      PROVE  DevicesTypeOK'
  <2>1. authReq[c] \in Login
    BY <1>0, <1>3, AuthRequestKind DEF ClearFlags
  <2>2. Known \in SUBSET Device
    BY DEF Known
  <2>3. [op |-> "clearing", agent |-> authReq[c].agent, version |-> authReq[c].version, seen |-> Known] \in AuthRequest
    BY <2>1, <2>2 DEF Login, Clearing, AuthRequest
  <2> QED
    BY <1>1, <1>3, <2>3 DEF ClearFlags
<1>4. ASSUME NEW c \in Client, FindSession(c)
      PROVE  DevicesTypeOK'
  <2>1. authReq[c] \in Clearing
    BY <1>0, <1>4, AuthRequestKind DEF FindSession
  <2>2. PICK found \in FoundOpen(authReq[c].agent), row \in DeviceRow :
          authReq' = [authReq EXCEPT ![c] =
            [op |-> "signing_in", agent |-> authReq[c].agent, version |-> authReq[c].version,
             seen |-> authReq[c].seen, found |-> found, row |-> row]]
    BY <1>4 DEF FindSession
  <2>3. found \in SUBSET Device
    BY <2>2, OneOfRows DEF FoundOpen, OpenOf, OpenDevices
  <2>4. [op |-> "signing_in", agent |-> authReq[c].agent, version |-> authReq[c].version,
         seen |-> authReq[c].seen, found |-> found, row |-> row] \in AuthRequest
    BY <2>1, <2>2, <2>3 DEF Clearing, SigningIn, AuthRequest
  <2> QED
    BY <1>1, <1>4, <2>2, <2>4 DEF FindSession
<1>5. ASSUME NEW c \in Client, LoadSignOut(c)
      PROVE  DevicesTypeOK'
  <2>1. version \in 0 .. (LastVersion - 1)
    <3>1. version < LastVersion
      BY <1>5 DEF LoadSignOut
    <3> QED
      BY <1>0, <3>1, LastVersionAssumption
  <2>2. [op |-> "sign_out", version |-> version] \in AuthRequest
    BY <2>1 DEF SignOut, AuthRequest
  <2> QED
    BY <1>1, <1>5, <2>2 DEF LoadSignOut
<1>6. ASSUME NEW c \in Client, BeginRevoking(c)
      PROVE  DevicesTypeOK'
  <2>1. authReq[c] \in SignOut
    BY <1>0, <1>6, AuthRequestKind DEF BeginRevoking
  <2>2. OpenDevices \in SUBSET Device
    BY DEF OpenDevices
  <2>3. [op |-> "revoking", version |-> authReq[c].version, rows |-> OpenDevices] \in AuthRequest
    BY <2>1, <2>2 DEF SignOut, Revoking, AuthRequest
  <2> QED
    BY <1>1, <1>6, <2>3 DEF BeginRevoking
<1>7. ASSUME NEW c \in Client, LoadListing(c)
      PROVE  DevicesTypeOK'
  <2>1. PICK dups \in DuplicateSets(OpenDevices) :
          authReq' = [authReq EXCEPT ![c] = [op |-> "list", duplicates |-> dups]]
    BY <1>7 DEF LoadListing
  <2>2. [op |-> "list", duplicates |-> dups] \in AuthRequest
    BY DEF DuplicateSets, OpenDevices, Listing, AuthRequest
  <2> QED
    BY <1>1, <1>7, <2>1, <2>2 DEF LoadListing
<1>8. ASSUME NEW c \in Client, RollBackAuth(c)
      PROVE  DevicesTypeOK'
  <2>1. NoRequest \in AuthRequest
    BY DEF AuthRequest
  <2> QED
    BY <1>1, <1>8, <2>1 DEF RollBackAuth
<1>9. ASSUME NEW c \in Client, CommitLogin(c)
      PROVE  DevicesTypeOK'
  <2>1. authReq[c] \in SigningIn
    BY <1>9, CommitSignsIn
  <2>2. PICK s, repeated : SignsIn(authReq[c], s, repeated)
    BY <1>9, CommitSignsIn
  <2>3. devices' \in [Device -> DeviceRow]
    BY <1>0, <2>1, <2>2, LoginRowsAre DEF Leaves
  <2>4. [version |-> authReq[c].version, device |-> s] \in Token
    BY <2>1, <2>2 DEF SigningIn, Token, SignsIn
  <2>5. tokens' \subseteq Token /\ late' \subseteq Token
    BY <1>0, <2>2, <2>4 DEF SignsIn
  <2>6. authReq' \in [Client -> AuthRequest]
    BY <1>0, <1>9 DEF CommitLogin, AuthRequest
  <2>7. raced' \in BOOLEAN /\ version' = version
    BY <1>0, <1>9 DEF CommitLogin, Doubled
  <2> QED
    BY <1>0, <2>3, <2>5, <2>6, <2>7 DEF DevicesTypeOK
<1>10. ASSUME NEW c \in Client, CommitSignOut(c)
       PROVE  DevicesTypeOK'
  <2>1. authReq[c] \in Revoking
    BY <1>0, <1>10, AuthRequestKind DEF CommitSignOut
  <2>2. authReq[c].version \in 0 .. (LastVersion - 1) /\ version' = authReq[c].version + 1
    BY <1>10, <2>1 DEF Revoking, CommitSignOut
  <2>3. version' \in 0 .. LastVersion
    BY <2>2, LastVersionAssumption
  <2>4. devices' \in [Device -> DeviceRow]
    BY <1>0, <1>10, SignedOutRows DEF CommitSignOut
  <2>5. authReq' \in [Client -> AuthRequest]
    BY <1>0, <1>10 DEF CommitSignOut, AuthRequest
  <2>6. raced' \in BOOLEAN /\ tokens' = tokens /\ late' = late
    BY <1>0, <1>10 DEF CommitSignOut, Doubled
  <2> QED
    BY <1>0, <2>3, <2>4, <2>5, <2>6 DEF DevicesTypeOK
<1>11. ASSUME NEW c \in Client, CommitListing(c)
       PROVE  DevicesTypeOK'
  <2>1. devices' \in [Device -> DeviceRow]
    BY <1>0, <1>11, RowType DEF CommitListing
  <2>2. authReq' \in [Client -> AuthRequest]
    BY <1>0, <1>11 DEF CommitListing, AuthRequest
  <2>3. raced' \in BOOLEAN /\ version' = version /\ tokens' = tokens /\ late' = late
    BY <1>0, <1>11 DEF CommitListing, Doubled
  <2> QED
    BY <1>0, <2>1, <2>2, <2>3 DEF DevicesTypeOK
<1>12. ASSUME NEW s \in Device, RevokeSession(s)
       PROVE  DevicesTypeOK'
  <2>1. devices' \in [Device -> DeviceRow]
    BY <1>0, <1>12, RowType DEF RevokeSession
  <2>2. raced' \in BOOLEAN
    BY <1>0, <1>12 DEF RevokeSession, Doubled
  <2> QED
    BY <1>0, <1>12, <2>1, <2>2 DEF RevokeSession, DevicesTypeOK
<1>13. ASSUME RevokeAllSessions
       PROVE  DevicesTypeOK'
  <2>1. devices' \in [Device -> DeviceRow]
    BY <1>0, <1>13, SignedOutRows DEF RevokeAllSessions
  <2>2. raced' \in BOOLEAN
    BY <1>0, <1>13 DEF RevokeAllSessions, Doubled
  <2> QED
    BY <1>0, <1>13, <2>1, <2>2 DEF RevokeAllSessions, DevicesTypeOK
<1>14. CASE UNCHANGED deviceVars
  BY <1>0, <1>14 DEF deviceVars, DevicesTypeOK
<1> QED
  BY <1>2, <1>3, <1>4, <1>5, <1>6, <1>7, <1>8, <1>9, <1>10, <1>11, <1>12, <1>13, <1>14 DEF DevicesNext

\* Type correctness.
THEOREM DevicesTypeCorrect == DevicesSpec => []DevicesTypeOK
<1>1. DevicesInit => DevicesTypeOK
  <2> SUFFICES ASSUME DevicesInit PROVE DevicesTypeOK
    OBVIOUS
  <2>1. version \in 0 .. LastVersion
    BY LastVersionAssumption DEF DevicesInit
  <2>2. devices \in [Device -> DeviceRow]
    BY RowType DEF DevicesInit
  <2>3. authReq \in [Client -> AuthRequest]
    BY DEF DevicesInit, AuthRequest
  <2> QED
    BY <2>1, <2>2, <2>3 DEF DevicesInit, DevicesTypeOK
<1> QED
  BY <1>1, DevicesTypeStep, PTL DEF DevicesSpec

-----------------------------------------------------------------------------
(* What is known of the requests in flight.                                *)

\* A token names a session that there is.  Without it a token could be accepted when its
\* session's row appears.
TokensHaveSessions == \A t \in tokens : devices[t.device].status # "absent"

\* A sign-in has seen sessions that there are, and one that found no session of its browser
\* knows that there is none, until another session comes.
SignInsKnow ==
    \A c \in Client :
        /\ authReq[c].op \in {"clearing", "signing_in"} => authReq[c].seen \subseteq Known
        /\ authReq[c].op = "signing_in" =>
             /\ authReq[c].found \subseteq Known
             /\ authReq[c].found = {} => authReq[c].row = NewRow(authReq[c].agent)
             /\ authReq[c].found = {} /\ Known \subseteq authReq[c].seen => OpenOf(authReq[c].agent) = {}

\* A sign-out that has begun to close sessions sees every open one a token is for; the
\* tokens for others are late.
SignOutsSee ==
    \A t \in tokens \ late, c \in Client :
        authReq[c].op = "revoking" /\ devices[t.device].status = "open" => t.device \in authReq[c].rows

\* The inductive invariant.
DevicesInv == DevicesTypeOK /\ TokensHaveSessions /\ SignInsKnow /\ SignOutsSee

\* How a step may change a session that there is: it stays one, and is open afterwards only
\* if it was, for the browser it was for.
LEMMA SessionsOnlyClose ==
    ASSUME DevicesTypeOK, [DevicesNext]_deviceVars, NEW s \in Device, devices[s].status # "absent"
    PROVE  /\ devices'[s].status # "absent"
           /\ devices'[s].status = "open" => devices[s].status = "open" /\ devices'[s].agent = devices[s].agent
<1> DEFINE Closing == \/ /\ devices'[s].status = devices[s].status
                         /\ devices'[s].agent = devices[s].agent
                      \/ devices'[s] = Row("revoked")
<1>0. devices \in [Device -> DeviceRow] /\ devices[s] \in DeviceRow
  BY DEF DevicesTypeOK
<1>1. ASSUME NEW c \in Client, CommitLogin(c)
      PROVE  Closing
  <2>1. authReq[c] \in SigningIn
    BY <1>1, CommitSignsIn
  <2>2. PICK o, repeated : SignsIn(authReq[c], o, repeated)
    BY <1>1, CommitSignsIn
  <2>3. Leaves(authReq[c], o, repeated, devices')
    BY <1>0, <2>1, <2>2, LoginRowsAre
  <2>4. s = o => authReq[c].found # {}
    BY <2>2 DEF SignsIn, Known
  <2> QED
    BY <2>3, <2>4 DEF Leaves
<1>2. ASSUME NEW those, devices' = SignedOut(those)
      PROVE  Closing
  BY <1>0, <1>2, SignedOutRows
<1>3. ASSUME NEW c \in Client, CommitListing(c)
      PROVE  Closing
  BY <1>3 DEF CommitListing
<1>4. ASSUME NEW o \in Device, RevokeSession(o)
      PROVE  Closing
  BY <1>0, <1>4 DEF RevokeSession
<1>5. CASE UNCHANGED devices
  BY <1>5
<1>6. Closing
  <2>1. ASSUME NEW c \in Client, CommitSignOut(c) PROVE Closing
    BY <1>2, <2>1 DEF CommitSignOut
  <2>2. ASSUME RevokeAllSessions PROVE Closing
    BY <1>2, <2>2 DEF RevokeAllSessions
  <2>3. ASSUME NEW c \in Client,
               \/ ClearFlags(c) \/ FindSession(c) \/ LoadSignOut(c) \/ BeginRevoking(c)
               \/ LoadListing(c) \/ RollBackAuth(c) \/ \E agent \in Agent : LoadLogin(c, agent)
        PROVE  Closing
    BY <1>5, <2>3 DEF ClearFlags, FindSession, LoadSignOut, BeginRevoking, LoadListing, RollBackAuth, LoadLogin
  <2>4. CASE UNCHANGED deviceVars
    BY <1>5, <2>4 DEF deviceVars
  <2> QED
    BY <1>1, <1>3, <1>4, <2>1, <2>2, <2>3, <2>4 DEF DevicesNext
<1>7. Row("revoked").status = "revoked"
  BY DEF Row
<1> QED
  BY <1>6, <1>7

\* A sign-in's session is there afterwards.
LEMMA SignInIsThere ==
    ASSUME DevicesInv, NEW c \in Client, CommitLogin(c), NEW s, NEW repeated, SignsIn(authReq[c], s, repeated)
    PROVE  devices'[s].status # "absent"
<1>1. authReq[c] \in SigningIn /\ authReq[c].op = "signing_in" /\ devices \in [Device -> DeviceRow]
  BY CommitSignsIn DEF DevicesInv, DevicesTypeOK, CommitLogin
<1>2. /\ authReq[c].found \subseteq Known
      /\ authReq[c].found = {} => authReq[c].row = NewRow(authReq[c].agent)
  BY <1>1 DEF DevicesInv, SignInsKnow
<1>3. Leaves(authReq[c], s, repeated, devices')
  BY <1>1, LoginRowsAre
<1>4. CASE authReq[c].found = {}
  <2>1. devices'[s] = authReq[c].row
    BY <1>4, <1>3 DEF Leaves
  <2>2. NewRow(authReq[c].agent).status = "open"
    BY DEF NewRow
  <2> QED
    BY <1>2, <1>4, <2>1, <2>2
<1>5. CASE authReq[c].found # {}
  <2>1. s \in Known
    BY <1>2, <1>5 DEF SignsIn
  <2> QED
    BY <1>5, <1>3, <2>1 DEF Known, Leaves
<1> QED
  BY <1>4, <1>5

\* How a step may change a request in flight, told by the request afterwards: it is as it was, or it ends or
\* reads the user, or it goes one step on.
LEMMA RequestGoesOn ==
    ASSUME DevicesTypeOK, [DevicesNext]_deviceVars, NEW d \in Client
    PROVE  \/ authReq'[d] = authReq[d]
           \/ authReq'[d].op \notin {"clearing", "signing_in", "revoking"}
           \/ ClearFlags(d) \/ FindSession(d) \/ BeginRevoking(d)
<1>0. authReq \in [Client -> AuthRequest]
  BY DEF DevicesTypeOK
<1> DEFINE Goes == \/ authReq'[d] = authReq[d]
                   \/ authReq'[d].op \notin {"clearing", "signing_in", "revoking"}
                   \/ ClearFlags(d) \/ FindSession(d) \/ BeginRevoking(d)
<1>2. ASSUME NEW c \in Client, authReq' = [authReq EXCEPT ![c] = NoRequest] PROVE Goes
  BY <1>0, <1>2 DEF NoRequest
<1>3. ASSUME NEW c \in Client, NEW agent \in Agent, LoadLogin(c, agent) PROVE Goes
  BY <1>0, <1>3 DEF LoadLogin
<1>4. ASSUME NEW c \in Client, LoadSignOut(c) PROVE Goes
  BY <1>0, <1>4 DEF LoadSignOut
<1>5. ASSUME NEW c \in Client, LoadListing(c) PROVE Goes
  BY <1>0, <1>5 DEF LoadListing
<1>6. ASSUME NEW c \in Client, ClearFlags(c) PROVE Goes
  BY <1>0, <1>6 DEF ClearFlags
<1>7. ASSUME NEW c \in Client, FindSession(c) PROVE Goes
  <2>1. \E q : authReq' = [authReq EXCEPT ![c] = q]
    BY <1>7 DEF FindSession
  <2> QED
    BY <1>0, <1>7, <2>1
<1>8. ASSUME NEW c \in Client, BeginRevoking(c) PROVE Goes
  BY <1>0, <1>8 DEF BeginRevoking
<1>9. ASSUME NEW c \in Client, CommitLogin(c) \/ CommitSignOut(c) \/ CommitListing(c) \/ RollBackAuth(c) PROVE Goes
  BY <1>2, <1>9 DEF CommitLogin, CommitSignOut, CommitListing, RollBackAuth
<1>10. ASSUME (\E s \in Device : RevokeSession(s)) \/ RevokeAllSessions PROVE Goes
  BY <1>10 DEF RevokeSession, RevokeAllSessions
<1>11. CASE UNCHANGED deviceVars
  BY <1>11 DEF deviceVars
<1> QED
  BY <1>3, <1>4, <1>5, <1>6, <1>7, <1>8, <1>9, <1>10, <1>11 DEF DevicesNext

\* Only a sign-in issues tokens, and it makes none late that was not.
LEMMA TokensCome ==
    ASSUME DevicesTypeOK, [DevicesNext]_deviceVars
    PROVE  \/ UNCHANGED <<tokens, late>>
           \/ \E c \in Client : CommitLogin(c)
BY DEF DevicesNext, deviceVars, LoadLogin, ClearFlags, FindSession, LoadSignOut, BeginRevoking, CommitSignOut,
       LoadListing, CommitListing, RollBackAuth, RevokeSession, RevokeAllSessions

\* Every step keeps the sessions of the tokens.
LEMMA TokensStayWithSessions == DevicesInv /\ [DevicesNext]_deviceVars => TokensHaveSessions'
<1> SUFFICES ASSUME DevicesInv, [DevicesNext]_deviceVars, NEW t \in tokens'
             PROVE  devices'[t.device].status # "absent"
  BY DEF TokensHaveSessions
<1>0. /\ DevicesTypeOK
      /\ \A o \in tokens : o.device \in Device /\ devices[o.device].status # "absent"
  BY DEF DevicesInv, TokensHaveSessions, DevicesTypeOK, Token
<1>1. CASE t \in tokens
  BY <1>0, <1>1, SessionsOnlyClose
<1>2. CASE t \notin tokens
  <2>1. PICK c \in Client : CommitLogin(c)
    BY <1>0, <1>2, TokensCome
  <2>2. PICK s, repeated : SignsIn(authReq[c], s, repeated)
    BY <1>0, <2>1, CommitSignsIn
  <2>3. t.device = s
    BY <1>2, <2>2 DEF SignsIn
  <2> QED
    BY <2>1, <2>2, <2>3, SignInIsThere
<1> QED
  BY <1>1, <1>2

\* Every step keeps what sign-ins know: sessions only come and close.
LEMMA SignInsStillKnow == DevicesInv /\ [DevicesNext]_deviceVars => SignInsKnow'
<1> DEFINE After(agent) == {s \in Device : devices'[s].status = "open" /\ devices'[s].agent = agent}
<1> SUFFICES ASSUME DevicesInv, [DevicesNext]_deviceVars, NEW d \in Client
             PROVE  /\ authReq'[d].op \in {"clearing", "signing_in"} => authReq'[d].seen \subseteq Known'
                    /\ authReq'[d].op = "signing_in" =>
                         /\ authReq'[d].found \subseteq Known'
                         /\ authReq'[d].found = {} => authReq'[d].row = NewRow(authReq'[d].agent)
                         /\ authReq'[d].found = {} /\ Known' \subseteq authReq'[d].seen => After(authReq'[d].agent) = {}
  <2>1. \A c \in Client : OpenOf(authReq[c].agent)' = After(authReq'[c].agent)
    BY DEF OpenOf, OpenDevices
  <2> QED
    BY <2>1 DEF SignInsKnow, NewRow
<1>0. DevicesTypeOK /\ authReq \in [Client -> AuthRequest]
  BY DEF DevicesInv, DevicesTypeOK
<1>1. Known \subseteq Known'
  BY <1>0, SessionsOnlyClose DEF Known
<1>2. Known' \subseteq Known => \A agent : After(agent) \subseteq OpenOf(agent)
  <2> SUFFICES ASSUME Known' \subseteq Known, NEW agent, NEW s \in Device,
                      devices'[s].status = "open", devices'[s].agent = agent
               PROVE  devices[s].status = "open" /\ devices[s].agent = agent
    BY DEF OpenOf, OpenDevices
  <2>1. devices[s].status # "absent"
    BY DEF Known
  <2> QED
    BY <1>0, <2>1, SessionsOnlyClose
<1>3. CASE authReq'[d] = authReq[d]
  <2>1. authReq[d].op = "signing_in" /\ Known' \subseteq authReq[d].seen => Known' \subseteq Known
    BY DEF DevicesInv, SignInsKnow
  <2>2. authReq[d].op = "signing_in" /\ authReq[d].found = {} /\ Known' \subseteq authReq[d].seen
          => OpenOf(authReq[d].agent) = {}
    BY <1>1 DEF DevicesInv, SignInsKnow
  <2> QED
    BY <1>1, <1>2, <1>3, <2>1, <2>2 DEF DevicesInv, SignInsKnow
<1>4. CASE ClearFlags(d)
  <2>1. authReq'[d] = [op |-> "clearing", agent |-> authReq[d].agent, version |-> authReq[d].version, seen |-> Known]
    BY <1>0, <1>4 DEF ClearFlags
  <2> QED
    BY <1>1, <2>1
<1>5. CASE FindSession(d)
  <2>1. PICK found \in FoundOpen(authReq[d].agent), row \in DeviceRow :
          /\ found = {} => row = NewRow(authReq[d].agent)
          /\ authReq' = [authReq EXCEPT ![d] =
               [op |-> "signing_in", agent |-> authReq[d].agent, version |-> authReq[d].version,
                seen |-> authReq[d].seen, found |-> found, row |-> row]]
    BY <1>5 DEF FindSession
  <2>2. authReq'[d] = [op |-> "signing_in", agent |-> authReq[d].agent, version |-> authReq[d].version,
                       seen |-> authReq[d].seen, found |-> found, row |-> row]
    BY <1>0, <2>1
  <2>3. UNCHANGED devices /\ authReq[d].op = "clearing"
    BY <1>5 DEF FindSession
  <2>4. authReq[d].seen \subseteq Known /\ Known' = Known
    BY <2>3 DEF DevicesInv, SignInsKnow, Known
  <2>5. found \subseteq OpenOf(authReq[d].agent) /\ (found = {} => OpenOf(authReq[d].agent) = {})
    BY <2>1 DEF FoundOpen, AnyOf
  <2>6. found \subseteq Known
    BY <2>5 DEF OpenOf, OpenDevices, Known
  <2>7. After(authReq[d].agent) = OpenOf(authReq[d].agent)
    BY <2>3 DEF OpenOf, OpenDevices
  <2>8. found = {} => row = NewRow(authReq[d].agent)
    BY <2>1
  <2>9. /\ authReq'[d].seen = authReq[d].seen /\ authReq'[d].found = found
        /\ authReq'[d].row = row /\ authReq'[d].agent = authReq[d].agent
    <3> HIDE DEF After
    <3>1. authReq'[d].seen = authReq[d].seen
      BY <2>2
    <3>2. authReq'[d].found = found
      BY <2>2
    <3>3. authReq'[d].row = row
      BY <2>2
    <3>4. authReq'[d].agent = authReq[d].agent
      BY <2>2
    <3> QED
      BY <3>1, <3>2, <3>3, <3>4
  <2>10. After(authReq'[d].agent) = After(authReq[d].agent)
    BY <2>9
  <2> HIDE DEF After
  <2>11. authReq'[d].seen \subseteq Known' /\ authReq'[d].found \subseteq Known'
    BY <2>4, <2>6, <2>9
  <2>12. found = {} => After(authReq'[d].agent) = {}
    BY <2>5, <2>7, <2>10
  <2> QED
    BY <2>8, <2>9, <2>11, <2>12
<1>6. CASE BeginRevoking(d)
  <2>1. authReq'[d].op = "revoking"
    BY <1>0, <1>6 DEF BeginRevoking
  <2> QED
    BY <2>1
<1>7. CASE authReq'[d].op \notin {"clearing", "signing_in", "revoking"}
  BY <1>7
<1> QED
  BY <1>0, <1>3, <1>4, <1>5, <1>6, <1>7, RequestGoesOn

\* Every step keeps what sign-outs see: a token for a session they do not see is late.
LEMMA SignOutsStillSee == DevicesInv /\ DevicesTypeOK' /\ [DevicesNext]_deviceVars => SignOutsSee'
<1> SUFFICES ASSUME DevicesInv, DevicesTypeOK', [DevicesNext]_deviceVars, NEW t \in tokens', t \notin late',
                    NEW d \in Client, authReq'[d].op = "revoking", devices'[t.device].status = "open"
             PROVE  t.device \in authReq'[d].rows
  BY DEF SignOutsSee
<1>0. /\ DevicesTypeOK
      /\ \A o \in tokens : o.device \in Device /\ devices[o.device].status # "absent"
      /\ authReq \in [Client -> AuthRequest]
      /\ t.device \in Device
  BY DEF DevicesInv, TokensHaveSessions, DevicesTypeOK, Token
<1>1. CASE BeginRevoking(d)
  <2>1. authReq'[d].rows = OpenDevices /\ UNCHANGED devices
    BY <1>0, <1>1 DEF BeginRevoking
  <2> QED
    BY <1>0, <2>1 DEF OpenDevices
<1>2. CASE authReq'[d] = authReq[d]
  <2>1. CASE t \in tokens /\ t \notin late
    <3>1. devices[t.device].status = "open"
      BY <1>0, <2>1, SessionsOnlyClose
    <3> QED
      BY <1>2, <2>1, <3>1 DEF DevicesInv, SignOutsSee
  <2>2. CASE ~(t \in tokens /\ t \notin late)
    <3>1. PICK c \in Client : CommitLogin(c)
      BY <1>0, <2>2, TokensCome
    <3>2. PICK s, repeated : SignsIn(authReq[c], s, repeated)
      BY <1>0, <3>1, CommitSignsIn
    <3>3. late \subseteq late'
      BY <3>2 DEF SignsIn
    <3>4. t = [version |-> authReq[c].version, device |-> s]
      BY <2>2, <3>2, <3>3 DEF SignsIn
    <3>5. ~Misses(d, t.device)
      BY <3>2, <3>4 DEF SignsIn
    <3> QED
      BY <1>2, <3>5 DEF Misses
  <2> QED
    BY <2>1, <2>2
<1>3. CASE ClearFlags(d) \/ FindSession(d)
  <2>1. CASE ClearFlags(d)
    BY <1>0, <2>1 DEF ClearFlags
  <2>2. CASE FindSession(d)
    <3>1. \E r : r.op = "signing_in" /\ authReq' = [authReq EXCEPT ![d] = r]
      BY <2>2 DEF FindSession
    <3> QED
      BY <1>0, <3>1
  <2> QED
    BY <1>3, <2>1, <2>2
<1> QED
  BY <1>0, <1>1, <1>2, <1>3, RequestGoesOn

\* Every step keeps the invariant.
LEMMA DevicesInvStep == DevicesInv /\ [DevicesNext]_deviceVars => DevicesInv'
<1>1. DevicesInv => DevicesTypeOK
  BY DEF DevicesInv
<1>2. DevicesTypeOK' /\ TokensHaveSessions' /\ SignInsKnow' /\ SignOutsSee' => DevicesInv'
  BY DEF DevicesInv
<1> QED
  BY <1>1, <1>2, DevicesTypeStep, TokensStayWithSessions, SignInsStillKnow, SignOutsStillSee

\* It holds in every reachable state.
LEMMA DevicesStay == DevicesSpec => []DevicesInv
<1>1. DevicesInit => TokensHaveSessions /\ SignInsKnow /\ SignOutsSee
  <2> SUFFICES ASSUME DevicesInit PROVE TokensHaveSessions /\ SignInsKnow /\ SignOutsSee
    OBVIOUS
  <2>1. tokens = {} /\ \A c \in Client : authReq[c] = NoRequest
    BY DEF DevicesInit
  <2>2. NoRequest.op \notin {"clearing", "signing_in", "revoking"}
    BY DEF NoRequest
  <2> QED
    BY <2>1, <2>2 DEF TokensHaveSessions, SignInsKnow, SignOutsSee
<1>2. DevicesInit /\ DevicesTypeOK => DevicesInv
  BY <1>1 DEF DevicesInv
<1> QED
  BY <1>2, DevicesInvStep, DevicesTypeCorrect, PTL DEF DevicesSpec

-----------------------------------------------------------------------------
(* What was rejected stays rejected.                                       *)

\* Signing out writes the version, and closes the sessions that its UPDATE sees.
LEMMA VersionsCloseSessions ==
    ASSUME DevicesInv, [DevicesNext]_deviceVars, version' # version, NEW t \in tokens \ late
    PROVE  devices'[t.device].status # "open"
<1>0. /\ DevicesTypeOK /\ devices \in [Device -> DeviceRow]
      /\ t.device \in Device /\ devices[t.device].status # "absent"
  BY DEF DevicesInv, TokensHaveSessions, DevicesTypeOK, Token
<1>1. PICK c \in Client : CommitSignOut(c)
  BY DEF DevicesNext, deviceVars, LoadLogin, ClearFlags, FindSession, CommitLogin, LoadSignOut, BeginRevoking,
         LoadListing, CommitListing, RollBackAuth, RevokeSession, RevokeAllSessions
<1>2. CASE devices[t.device].status = "open"
  <2>1. t.device \in authReq[c].rows \intersect OpenDevices
    BY <1>0, <1>1, <1>2 DEF DevicesInv, SignOutsSee, CommitSignOut, OpenDevices
  <2>2. devices'[t.device] = Row("revoked")
    BY <1>0, <1>1, <2>1, SignedOutRows DEF CommitSignOut
  <2> QED
    BY <2>2 DEF Row
<1>3. CASE devices[t.device].status # "open"
  BY <1>0, <1>3, SessionsOnlyClose
<1> QED
  BY <1>2, <1>3

\* A token that was issued, and is not accepted, is never accepted again, however
\* sign-ins, sign-outs and clean-ups of any number of devices overlap, but for one that was
\* issued for a session that a sign-out under way does not see.  If its session is signed
\* out, no step opens it; if its version is not the user's, only a sign-out can write that
\* version again, and it closes the session.
THEOREM RejectedForGood == DevicesSpec => RejectedStaysRejected
<1>1. DevicesInv /\ [DevicesNext]_deviceVars
        => [\A t \in tokens \ late : ~Accepted(t) => ~Accepted(t)']_deviceVars
  <2> SUFFICES ASSUME DevicesInv, [DevicesNext]_deviceVars, NEW t \in tokens \ late, ~Accepted(t)
               PROVE  ~Accepted(t)'
    OBVIOUS
  <2>1. DevicesTypeOK /\ t.device \in Device /\ devices[t.device].status # "absent"
    BY DEF DevicesInv, TokensHaveSessions, DevicesTypeOK, Token
  <2>2. CASE devices[t.device].status # "open"
    <3>1. devices'[t.device].status # "open"
      BY <2>1, <2>2, SessionsOnlyClose
    <3> QED
      BY <3>1 DEF Accepted
  <2>3. CASE t.version # version /\ version' = version
    BY <2>3 DEF Accepted
  <2>4. CASE version' # version
    <3>1. devices'[t.device].status # "open"
      BY <2>1, <2>4, VersionsCloseSessions
    <3> QED
      BY <3>1 DEF Accepted
  <2> QED
    BY <2>2, <2>3, <2>4 DEF Accepted
<1>2. []DevicesInv /\ [][DevicesNext]_deviceVars
        => [][\A t \in tokens \ late : ~Accepted(t) => ~Accepted(t)']_deviceVars
  BY <1>1, PTL
<1> QED
  BY <1>2, DevicesStay, PTL DEF DevicesSpec, RejectedStaysRejected

-----------------------------------------------------------------------------
(* One session per device.                                                 *)

\* Sessions that are still open, and are as they were, are doubled only if they were.
LEMMA StillDoubled ==
    ASSUME \A d \in Device : devices'[d].status = "open" => devices'[d] = devices[d],
           Doubled(devices')
    PROVE  Doubled(devices)
<1>1. PICK s \in Device, o \in Device :
        /\ s # o /\ devices'[s].status = "open" /\ devices'[o].status = "open"
        /\ devices'[s].agent = devices'[o].agent \/ (devices'[s].current /\ devices'[o].current)
  BY DEF Doubled
<1> QED
  BY <1>1 DEF Doubled

\* A sign-in that has seen every session doubles none.
LEMMA SignInDoublesNone ==
    ASSUME DevicesInv, [DevicesNext]_deviceVars, NEW c \in Client, CommitLogin(c), Known \subseteq authReq[c].seen,
           Doubled(devices')
    PROVE  Doubled(devices)
<1>0. DevicesTypeOK /\ devices \in [Device -> DeviceRow]
  BY DEF DevicesInv, DevicesTypeOK
<1> PICK r : r = authReq[c]
  OBVIOUS
<1>1. r \in SigningIn /\ r.op = "signing_in"
  BY <1>0, CommitSignsIn DEF CommitLogin
<1>2. PICK s, repeated : SignsIn(r, s, repeated)
  BY <1>0, CommitSignsIn
<1>3. /\ r.found \subseteq Known
      /\ r.found = {} => r.row = NewRow(r.agent) /\ OpenOf(r.agent) = {}
  BY <1>1 DEF DevicesInv, SignInsKnow
<1>4. Leaves(r, s, repeated, devices')
  BY <1>0, <1>1, <1>2, LoginRowsAre
<1>5. ASSUME NEW d \in Device, d # s, devices'[d].status = "open"
      PROVE  devices[d].status = "open" /\ devices'[d].agent = devices[d].agent /\ ~devices'[d].current
  <2>1. d \notin repeated
    <3>1. d \in repeated => devices'[d] = Row("revoked")
      BY <1>5, <1>4 DEF Leaves
    <3>2. Row("revoked").status = "revoked"
      BY DEF Row
    <3> QED
      BY <1>5, <3>1, <3>2
  <2>2. /\ devices'[d].status = devices[d].status /\ devices'[d].agent = devices[d].agent
        /\ d \in r.seen => devices'[d].current = FALSE
    BY <1>5, <1>4, <2>1 DEF Leaves
  <2>3. d \in r.seen
    BY <1>5, <2>2 DEF Known
  <2> QED
    BY <1>5, <2>2, <2>3
<1>6. PICK a \in Device, b \in Device :
        /\ a # b /\ devices'[a].status = "open" /\ devices'[b].status = "open"
        /\ devices'[a].agent = devices'[b].agent \/ (devices'[a].current /\ devices'[b].current)
  BY DEF Doubled
<1>7. CASE a # s /\ b # s
  BY <1>5, <1>6, <1>7 DEF Doubled
<1>8. ASSUME NEW d \in Device, d # s, devices'[d].status = "open", devices'[s].status = "open",
             devices'[d].agent = devices'[s].agent
      PROVE  Doubled(devices)
  <2>1. devices[d].status = "open" /\ devices'[d].agent = devices[d].agent
    BY <1>5, <1>8
  <2>2. CASE r.found = {}
    <3>1. devices'[s].agent = r.agent
      <4>1. devices'[s] = r.row
        BY <1>4, <2>2 DEF Leaves
      <4>2. NewRow(r.agent).agent = r.agent
        BY DEF NewRow
      <4> QED
        BY <1>3, <2>2, <4>1, <4>2
    <3>2. d \in OpenOf(r.agent)
      BY <1>8, <2>1, <3>1 DEF OpenOf, OpenDevices
    <3> QED
      BY <1>3, <2>2, <3>2
  <2>3. CASE r.found # {}
    <3>1. devices'[s].status = devices[s].status /\ devices'[s].agent = devices[s].agent
      BY <1>4, <2>3 DEF Leaves
    <3>2. s \in Device
      BY <1>2 DEF SignsIn
    <3> QED
      BY <1>8, <2>1, <3>1, <3>2 DEF Doubled
  <2> QED
    BY <2>2, <2>3
<1>9. CASE a = s
  BY <1>5, <1>6, <1>8, <1>9
<1>10. CASE b = s
  BY <1>5, <1>6, <1>8, <1>10
<1> QED
  BY <1>7, <1>9, <1>10

\* Every step keeps it: sign-outs and clean-ups only close sessions, and a sign-in takes
\* up its browser's session or knows that there is none.
LEMMA OneSessionStep == DevicesInv /\ OneSessionPerDevice /\ [DevicesNext]_deviceVars => OneSessionPerDevice'
<1> SUFFICES ASSUME DevicesInv, OneSessionPerDevice, [DevicesNext]_deviceVars
             PROVE  OneSessionPerDevice'
  OBVIOUS
<1>0. devices \in [Device -> DeviceRow] /\ raced \in BOOLEAN
  BY DEF DevicesInv, DevicesTypeOK
<1>1. ASSUME NEW c \in Client, CommitLogin(c) PROVE OneSessionPerDevice'
  <2>1. raced' = ((raced \/ Known \ authReq[c].seen # {}) /\ Doubled(devices'))
    BY <1>1 DEF CommitLogin
  <2>2. CASE Known \subseteq authReq[c].seen
    BY <1>1, <2>1, <2>2, SignInDoublesNone DEF OneSessionPerDevice
  <2>3. CASE ~(Known \subseteq authReq[c].seen)
    BY <2>1, <2>3 DEF OneSessionPerDevice
  <2> QED
    BY <2>2, <2>3
<1>2. ASSUME \A d \in Device : devices'[d] = devices[d] \/ devices'[d] = Row("revoked"),
             raced' = (raced /\ Doubled(devices'))
      PROVE  OneSessionPerDevice'
  <2>1. \A d \in Device : devices'[d].status = "open" => devices'[d] = devices[d]
    BY <1>2 DEF Row
  <2> QED
    BY <1>2, <2>1, StillDoubled DEF OneSessionPerDevice
<1>3. ASSUME NEW those, devices' = SignedOut(those), raced' = (raced /\ Doubled(devices')) PROVE OneSessionPerDevice'
  <2>1. \A d \in Device : devices'[d] = devices[d] \/ devices'[d] = Row("revoked")
    BY <1>0, <1>3, SignedOutRows
  <2> QED
    BY <1>2, <1>3, <2>1
<1>4. ASSUME NEW c \in Client, CommitListing(c) PROVE OneSessionPerDevice'
  <2>1. \A d \in Device : devices'[d] = devices[d] \/ devices'[d] = Row("revoked")
    BY <1>4 DEF CommitListing
  <2> QED
    BY <1>2, <1>4, <2>1 DEF CommitListing
<1>5. ASSUME NEW o \in Device, RevokeSession(o) PROVE OneSessionPerDevice'
  <2>1. \A d \in Device : devices'[d] = devices[d] \/ devices'[d] = Row("revoked")
    BY <1>0, <1>5 DEF RevokeSession
  <2> QED
    BY <1>2, <1>5, <2>1 DEF RevokeSession
<1>6. ASSUME UNCHANGED <<devices, raced>> PROVE OneSessionPerDevice'
  BY <1>6 DEF OneSessionPerDevice, Doubled
<1>7. ASSUME NEW c \in Client, CommitSignOut(c) PROVE OneSessionPerDevice'
  BY <1>3, <1>7 DEF CommitSignOut
<1>8. ASSUME RevokeAllSessions PROVE OneSessionPerDevice'
  BY <1>3, <1>8 DEF RevokeAllSessions
<1>9. ASSUME NEW c \in Client,
             \/ ClearFlags(c) \/ FindSession(c) \/ LoadSignOut(c) \/ BeginRevoking(c)
             \/ LoadListing(c) \/ RollBackAuth(c) \/ \E agent \in Agent : LoadLogin(c, agent)
      PROVE  OneSessionPerDevice'
  BY <1>6, <1>9 DEF ClearFlags, FindSession, LoadSignOut, BeginRevoking, LoadListing, RollBackAuth, LoadLogin
<1>10. CASE UNCHANGED deviceVars
  BY <1>6, <1>10 DEF deviceVars
<1> QED
  BY <1>1, <1>4, <1>5, <1>7, <1>8, <1>9, <1>10 DEF DevicesNext

\* However often a browser signs in, it is one device, and one device is the current one,
\* unless a sign-in overlapped with one that opened a session.
THEOREM OneSessionAlways == DevicesSpec => []OneSessionPerDevice
<1>1. DevicesInit => OneSessionPerDevice
  <2> SUFFICES ASSUME DevicesInit PROVE ~Doubled(devices)
    BY DEF OneSessionPerDevice
  <2>1. \A d \in Device : devices[d].status = "absent"
    BY DEF DevicesInit, Row
  <2> QED
    BY <2>1 DEF Doubled
<1>2. DevicesInit /\ [][DevicesNext]_deviceVars /\ []DevicesInv => []OneSessionPerDevice
  BY <1>1, OneSessionStep, PTL
<1> QED
  BY <1>2, DevicesStay, PTL DEF DevicesSpec

-----------------------------------------------------------------------------
(* Inbox.                                                                  *)

\* A request in flight is about a token and a user.
LEMMA InboxRequestKind ==
    ASSUME InboxTypeOK, NEW c \in Client
    PROVE  /\ inboxReq[c] # NoRequest => inboxReq[c] \in TokenRequest
           /\ inboxReq[c].op \in {"register", "unregister"} => inboxReq[c] # NoRequest
<1>1. inboxReq[c] \in {NoRequest} \union TokenRequest
  BY DEF InboxTypeOK
<1>2. NoRequest.op \notin {"register", "unregister"}
  BY DEF NoRequest
<1> QED
  BY <1>1, <1>2

\* Every step of the inbox keeps the type of the state.
LEMMA InboxTypeStep == InboxTypeOK /\ [InboxNext]_inboxVars => InboxTypeOK'
<1> SUFFICES ASSUME InboxTypeOK, [InboxNext]_inboxVars PROVE InboxTypeOK'
  OBVIOUS
<1>0. /\ inbox \in [Notification -> [user : Holder \union {NoUser}, read : BOOLEAN]]
      /\ \A n \in Notification : inbox[n].read => inbox[n].user # NoUser
      /\ owner \in [PushToken -> Holder \union {NoUser}]
      /\ inboxReq \in [Client -> {NoRequest} \union TokenRequest]
      /\ told \in [PushToken -> Holder \union {NoUser}]
      /\ tokensRaced \subseteq PushToken
  BY DEF InboxTypeOK
<1>1. ASSUME NEW n \in Notification, NEW u \in Holder, CreateNotification(n, u)
      PROVE  InboxTypeOK'
  <2>1. inbox' \in [Notification -> [user : Holder \union {NoUser}, read : BOOLEAN]]
    BY <1>0, <1>1 DEF CreateNotification
  <2>2. \A m \in Notification : inbox'[m].read => inbox'[m].user # NoUser
    BY <1>0, <1>1 DEF CreateNotification
  <2> QED
    BY <1>0, <1>1, <2>1, <2>2 DEF CreateNotification, InboxTypeOK
<1>2. ASSUME NEW n \in Notification, NEW u \in Holder, MarkRead(n, u)
      PROVE  InboxTypeOK'
  <2>1. inbox' \in [Notification -> [user : Holder \union {NoUser}, read : BOOLEAN]]
    BY <1>0, <1>2 DEF MarkRead
  <2>2. \A m \in Notification : inbox'[m].read => inbox'[m].user # NoUser
    BY <1>0, <1>2, HoldersAssumption DEF MarkRead, NoUser
  <2> QED
    BY <1>0, <1>2, <2>1, <2>2 DEF MarkRead, InboxTypeOK
<1>3. ASSUME NEW u \in Holder, MarkAllRead(u)
      PROVE  InboxTypeOK'
  <2>1. \A n \in Notification : /\ inbox'[n] \in [user : Holder \union {NoUser}, read : BOOLEAN]
                                /\ inbox'[n].user = inbox[n].user
                                 /\ inbox'[n].read = (inbox[n].read \/ inbox[n].user = u)
    BY <1>0, <1>3 DEF MarkAllRead
  <2>2. inbox' \in [Notification -> [user : Holder \union {NoUser}, read : BOOLEAN]]
    BY <1>3, <2>1 DEF MarkAllRead
  <2>3. \A n \in Notification : inbox'[n].read => inbox'[n].user # NoUser
    BY <1>0, <2>1, HoldersAssumption DEF NoUser
  <2> QED
    BY <1>0, <1>3, <2>2, <2>3 DEF MarkAllRead, InboxTypeOK
<1>4. ASSUME NEW c \in Client, NEW op \in {"register", "unregister"}, NEW u \in Holder,
             NEW t \in PushToken, LoadToken(c, op, u, t)
      PROVE  InboxTypeOK'
  <2>1. [op |-> op, user |-> u, token |-> t,
         found |-> IF op = "register" \/ owner[t] = u THEN owner[t] ELSE NoUser] \in TokenRequest
    BY <1>0 DEF TokenRequest
  <2>2. inboxReq' \in [Client -> {NoRequest} \union TokenRequest] /\ tokensRaced' \subseteq PushToken
    BY <1>0, <1>4, <2>1 DEF LoadToken
  <2> QED
    BY <1>0, <1>4, <2>2 DEF LoadToken, InboxTypeOK
<1>5. ASSUME NEW c \in Client, CommitRegister(c)
      PROVE  InboxTypeOK'
  <2>1. inboxReq[c].token \in PushToken /\ inboxReq[c].user \in Holder
    BY <1>5, InboxRequestKind DEF CommitRegister, TokenRequest
  <2>2. Upserted(inboxReq[c]) \in Holder \union {NoUser}
    BY <1>0, <2>1 DEF Upserted
  <2>3. /\ owner' \in [PushToken -> Holder \union {NoUser}] /\ told' \in [PushToken -> Holder \union {NoUser}]
        /\ inboxReq' \in [Client -> {NoRequest} \union TokenRequest]
    BY <1>0, <1>5, <2>1, <2>2 DEF CommitRegister
  <2> QED
    BY <1>0, <1>5, <2>3 DEF CommitRegister, InboxTypeOK
<1>6. ASSUME NEW c \in Client, CommitUnregister(c)
      PROVE  InboxTypeOK'
  <2>1. /\ owner' \in [PushToken -> Holder \union {NoUser}] /\ told' \in [PushToken -> Holder \union {NoUser}]
        /\ inboxReq' \in [Client -> {NoRequest} \union TokenRequest]
    BY <1>0, <1>6 DEF CommitUnregister
  <2> QED
    BY <1>0, <1>6, <2>1 DEF CommitUnregister, InboxTypeOK
<1>7. ASSUME NEW c \in Client, RollBackToken(c)
      PROVE  InboxTypeOK'
  <2>1. inboxReq' \in [Client -> {NoRequest} \union TokenRequest]
    BY <1>0, <1>7 DEF RollBackToken
  <2> QED
    BY <1>0, <1>7, <2>1 DEF RollBackToken, InboxTypeOK
<1>8. CASE UNCHANGED inboxVars
  BY <1>0, <1>8 DEF inboxVars, InboxTypeOK
<1> QED
  BY <1>1, <1>2, <1>3, <1>4, <1>5, <1>6, <1>7, <1>8 DEF InboxNext

-----------------------------------------------------------------------------

\* Type correctness: every reachable state of notifications and tokens has its type, and
\* what was read is somebody's.
THEOREM InboxTypeCorrect == InboxSpec => []InboxTypeOK
<1>1. InboxInit => InboxTypeOK
  BY DEF InboxInit, InboxTypeOK, Absent
<1> QED
  BY <1>1, InboxTypeStep, PTL DEF InboxSpec

-----------------------------------------------------------------------------
(* Pushes go to the user.                                                  *)

\* The inductive invariant.  Who owns a token is not inductive, for a request writes what
\* it concluded from an earlier read.  But a request about a token that was not raced is
\* the only one about it, and what it found is still there.
IsAlone(c) == \A d \in Client \ {c} : inboxReq[d] = NoRequest \/ inboxReq[d].token # inboxReq[c].token

FoundIsThere(r) ==
    r.found = IF r.op = "register" \/ owner[r.token] = r.user THEN owner[r.token] ELSE NoUser

RequestsKnow ==
    \A c \in Client :
        inboxReq[c] # NoRequest /\ inboxReq[c].token \notin tokensRaced =>
            IsAlone(c) /\ FoundIsThere(inboxReq[c])

InboxInv == InboxTypeOK /\ PushesGoToTheUser /\ RequestsKnow

\* A request that ends leaves the others as alone as they were, and takes the owner of no
\* token but its own.
LEMMA EndOfRequest ==
    ASSUME InboxInv, NEW c \in Client, inboxReq[c] # NoRequest,
           inboxReq' = [inboxReq EXCEPT ![c] = NoRequest], tokensRaced' = tokensRaced,
           \A t \in PushToken \ {inboxReq[c].token} : owner'[t] = owner[t]
    PROVE  RequestsKnow'
<1>1. inboxReq'[c] = NoRequest /\ \A d \in Client \ {c} : inboxReq'[d] = inboxReq[d]
  BY DEF InboxInv, InboxTypeOK
<1> SUFFICES ASSUME NEW d \in Client, inboxReq'[d] # NoRequest, inboxReq'[d].token \notin tokensRaced
             PROVE  /\ \A e \in Client \ {d} : inboxReq'[e] = NoRequest \/ inboxReq'[e].token # inboxReq'[d].token
                    /\ inboxReq'[d].found =
                         IF inboxReq'[d].op = "register" \/ owner'[inboxReq'[d].token] = inboxReq'[d].user
                           THEN owner'[inboxReq'[d].token] ELSE NoUser
  BY DEF RequestsKnow, IsAlone, FoundIsThere
<1>2. d # c /\ inboxReq'[d] = inboxReq[d] /\ IsAlone(d) /\ FoundIsThere(inboxReq[d])
  BY <1>1 DEF InboxInv, RequestsKnow
<1>3. inboxReq[d].token \in PushToken /\ inboxReq[d].token # inboxReq[c].token
  BY <1>2, InboxRequestKind DEF InboxInv, IsAlone, TokenRequest
<1>4. owner'[inboxReq[d].token] = owner[inboxReq[d].token]
  BY <1>3
<1>5. \A e \in Client \ {d} : inboxReq'[e] = NoRequest \/ inboxReq'[e].token # inboxReq'[d].token
  BY <1>1, <1>2 DEF IsAlone
<1> QED
  BY <1>2, <1>4, <1>5 DEF FoundIsThere

\* A request that begins is alone with its token, or races it.
LEMMA LoadTokenKeeps ==
    ASSUME InboxInv, NEW c \in Client, NEW op \in {"register", "unregister"}, NEW u \in Holder,
           NEW t \in PushToken, LoadToken(c, op, u, t)
    PROVE  PushesGoToTheUser' /\ RequestsKnow'
<1> DEFINE r == [op |-> op, user |-> u, token |-> t,
                 found |-> IF op = "register" \/ owner[t] = u THEN owner[t] ELSE NoUser]
<1>1. /\ inboxReq'[c] = r /\ \A d \in Client \ {c} : inboxReq'[d] = inboxReq[d]
      /\ owner' = owner /\ told' = told
      /\ tokensRaced' = IF Others(c, t) = {} THEN tokensRaced ELSE tokensRaced \union {t}
      /\ inboxReq[c] = NoRequest
  BY DEF InboxInv, InboxTypeOK, LoadToken
<1>2. tokensRaced \subseteq tokensRaced'
  BY <1>1
<1>3. r.token = t /\ FoundIsThere(r)
  BY DEF FoundIsThere
<1> HIDE DEF r
<1>4. ASSUME NEW d \in Client \ {c}, inboxReq[d] # NoRequest, t \notin tokensRaced'
      PROVE  inboxReq[d].token # t
  BY <1>1, <1>4 DEF Others
<1>5. PushesGoToTheUser'
  BY <1>1, <1>2 DEF InboxInv, PushesGoToTheUser
<1>6. RequestsKnow'
  <2> SUFFICES ASSUME NEW d \in Client, inboxReq'[d] # NoRequest, inboxReq'[d].token \notin tokensRaced'
               PROVE  /\ \A e \in Client \ {d} :
                           inboxReq'[e] = NoRequest \/ inboxReq'[e].token # inboxReq'[d].token
                      /\ FoundIsThere(inboxReq'[d])
    BY <1>1 DEF RequestsKnow, IsAlone, FoundIsThere
  <2>1. CASE d = c
    BY <1>1, <1>3, <1>4, <2>1
  <2>2. CASE d # c
    <3>1. inboxReq'[d] = inboxReq[d] /\ IsAlone(d) /\ FoundIsThere(inboxReq[d])
      BY <1>1, <1>2, <2>2 DEF InboxInv, RequestsKnow
    <3>2. r.token # inboxReq[d].token
      BY <1>3, <1>4, <2>2, <3>1
    <3> QED
      BY <1>1, <3>1, <3>2 DEF IsAlone
  <2> QED
    BY <2>1, <2>2
<1> QED
  BY <1>5, <1>6

\* A registration that ends: the token is its user's, if nobody raced it.
LEMMA CommitRegisterKeeps ==
    ASSUME InboxInv, NEW c \in Client, CommitRegister(c)
    PROVE  PushesGoToTheUser' /\ RequestsKnow'
<1> DEFINE r == inboxReq[c]
           k == inboxReq[c].token
<1>1. r # NoRequest /\ r.op = "register" /\ k \in PushToken
  BY InboxRequestKind DEF InboxInv, CommitRegister, TokenRequest
<1>2. /\ owner'[k] = Upserted(r) /\ told'[k] = r.user
      /\ \A t \in PushToken \ {k} : owner'[t] = owner[t] /\ told'[t] = told[t]
      /\ inboxReq' = [inboxReq EXCEPT ![c] = NoRequest] /\ tokensRaced' = tokensRaced
  BY <1>1 DEF InboxInv, InboxTypeOK, CommitRegister
<1>3. k \notin tokensRaced => owner'[k] = told'[k]
  BY <1>1, <1>2 DEF InboxInv, RequestsKnow, FoundIsThere, Upserted
<1>4. PushesGoToTheUser'
  BY <1>2, <1>3 DEF InboxInv, PushesGoToTheUser
<1> QED
  BY <1>1, <1>2, <1>4, EndOfRequest

\* A deletion that ends: the token is nobody's, or still another user's.
LEMMA CommitUnregisterKeeps ==
    ASSUME InboxInv, NEW c \in Client, CommitUnregister(c)
    PROVE  PushesGoToTheUser' /\ RequestsKnow'
<1> DEFINE r == inboxReq[c]
           k == inboxReq[c].token
<1>1. r # NoRequest /\ r.op = "unregister" /\ k \in PushToken
  BY InboxRequestKind DEF InboxInv, CommitUnregister, TokenRequest
<1>2. /\ owner'[k] = IF r.found = NoUser THEN owner[k] ELSE NoUser
      /\ told'[k] = IF told[k] = r.user THEN NoUser ELSE told[k]
      /\ \A t \in PushToken \ {k} : owner'[t] = owner[t] /\ told'[t] = told[t]
      /\ inboxReq' = [inboxReq EXCEPT ![c] = NoRequest] /\ tokensRaced' = tokensRaced
  BY <1>1 DEF InboxInv, InboxTypeOK, CommitUnregister
<1>3. k \notin tokensRaced => owner'[k] = told'[k]
  BY <1>1, <1>2 DEF InboxInv, RequestsKnow, FoundIsThere, PushesGoToTheUser
<1>4. PushesGoToTheUser'
  BY <1>2, <1>3 DEF InboxInv, PushesGoToTheUser
<1> QED
  BY <1>1, <1>2, <1>4, EndOfRequest

\* The invariant is inductive: one step per action.
LEMMA InboxInvStep == InboxInv /\ InboxTypeOK' /\ [InboxNext]_inboxVars => InboxInv'
<1> SUFFICES ASSUME InboxInv, InboxTypeOK', [InboxNext]_inboxVars
             PROVE  PushesGoToTheUser' /\ RequestsKnow'
  BY DEF InboxInv
<1>1. ASSUME owner' = owner, told' = told, inboxReq' = inboxReq, tokensRaced' = tokensRaced
      PROVE  PushesGoToTheUser' /\ RequestsKnow'
  BY <1>1 DEF InboxInv, PushesGoToTheUser, RequestsKnow, IsAlone, FoundIsThere
<1>2. ASSUME NEW n \in Notification, NEW u \in Holder, CreateNotification(n, u) \/ MarkRead(n, u)
      PROVE  PushesGoToTheUser' /\ RequestsKnow'
  BY <1>1, <1>2 DEF CreateNotification, MarkRead
<1>3. ASSUME NEW u \in Holder, MarkAllRead(u)
      PROVE  PushesGoToTheUser' /\ RequestsKnow'
  BY <1>1, <1>3 DEF MarkAllRead
<1>4. ASSUME NEW c \in Client, NEW op \in {"register", "unregister"}, NEW u \in Holder,
             NEW t \in PushToken, LoadToken(c, op, u, t)
      PROVE  PushesGoToTheUser' /\ RequestsKnow'
  BY <1>4, LoadTokenKeeps
<1>5. ASSUME NEW c \in Client, CommitRegister(c)
      PROVE  PushesGoToTheUser' /\ RequestsKnow'
  BY <1>5, CommitRegisterKeeps
<1>6. ASSUME NEW c \in Client, CommitUnregister(c)
      PROVE  PushesGoToTheUser' /\ RequestsKnow'
  BY <1>6, CommitUnregisterKeeps
<1>7. ASSUME NEW c \in Client, RollBackToken(c)
      PROVE  PushesGoToTheUser' /\ RequestsKnow'
  <2>1. RequestsKnow'
    BY <1>7, EndOfRequest DEF RollBackToken
  <2> QED
    BY <1>7, <2>1 DEF InboxInv, PushesGoToTheUser, RollBackToken
<1>8. CASE UNCHANGED inboxVars
  BY <1>1, <1>8 DEF inboxVars
<1> QED
  BY <1>2, <1>3, <1>4, <1>5, <1>6, <1>7, <1>8 DEF InboxNext

\* A phone's pushes go to the user that registered it last and has not signed it off since,
\* for any users and phones: unless requests about the phone overlapped.
THEOREM PushesAlwaysGoToTheUser == InboxSpec => []PushesGoToTheUser
<1>1. InboxInit /\ InboxTypeOK => InboxInv
  BY DEF InboxInit, InboxInv, PushesGoToTheUser, RequestsKnow
<1>2. InboxInv => PushesGoToTheUser
  BY DEF InboxInv
<1>3. []InboxTypeOK /\ [][InboxNext]_inboxVars /\ InboxInv => []InboxInv
  BY InboxInvStep, PTL
<1> QED
  BY <1>1, <1>2, <1>3, InboxTypeCorrect, PTL DEF InboxSpec

-----------------------------------------------------------------------------
(* Budget.                                                                 *)

\* A request in flight is a PUT.
LEMMA BudgetRequestKind ==
    ASSUME BudgetTypeOK, NEW c \in Client
    PROVE  /\ budgetReq[c].op = "put" => budgetReq[c] \in BudgetPut
           /\ budgetReq[c] # NoRequest => budgetReq[c].op = "put"
<1>1. budgetReq[c] \in {NoRequest} \union BudgetPut
  BY DEF BudgetTypeOK
<1> QED
  BY <1>1 DEF NoRequest, BudgetPut

\* A flush writes what was computed where it differs from what was loaded.
LEMMA FlushBudget ==
    ASSUME NEW current \in BudgetRow, NEW loaded \in BudgetRow, NEW computed \in BudgetRow
    PROVE  /\ Flush(current, loaded, computed) \in BudgetRow
           /\ current = loaded => Flush(current, loaded, computed) = computed
BY DEF Flush, BudgetRow

\* What the columns keep of a row is a row, and keeping it again changes nothing.
LEMMA StoredRow ==
    ASSUME NEW row \in BudgetRow \union {NoRow}
    PROVE  /\ StoredBudget(row) \in BudgetRow \union {NoRow}
           /\ row \in BudgetRow => StoredBudget(row) \in BudgetRow
           /\ StoredBudget(StoredBudget(row)) = StoredBudget(row)
           /\ StoredBudget(NoRow) = NoRow
<1>1. row.limit \in Nat
  BY DEF BudgetRow, NoRow
<1>2. PICK kept \in Nat : kept = Stored(row.limit) /\ kept % 10 = 0
  <2>1. row.limit \in Int /\ row.limit >= 0
    BY <1>1
  <2>2. Stored(row.limit) \in Int /\ Stored(row.limit) % 10 = 0 /\ Stored(row.limit) >= 0
    BY <2>1, StoredAmount
  <2> QED
    BY <2>2
<1>3. Stored(kept) = kept
  <2>1. kept \in Int /\ kept % 10 = 0
    BY <1>2
  <2> QED
    BY <2>1, StoredWhole
<1>4. Stored(0) = 0
  <2>1. 0 \in Int /\ 0 % 10 = 0
    OBVIOUS
  <2> QED
    BY <2>1, StoredWhole
<1>5. StoredBudget(NoRow) = NoRow
  BY <1>4 DEF StoredBudget, NoRow
<1>6. row \in BudgetRow => StoredBudget(row) \in BudgetRow
  BY <1>2 DEF StoredBudget, BudgetRow
<1>7. StoredBudget(row).limit = kept /\ StoredBudget(row) = [row EXCEPT !.limit = kept]
  BY <1>2 DEF StoredBudget, BudgetRow, NoRow
<1>8. StoredBudget(StoredBudget(row)) = [StoredBudget(row) EXCEPT !.limit = kept]
  BY <1>3, <1>7 DEF StoredBudget
<1>9. [StoredBudget(row) EXCEPT !.limit = kept] = StoredBudget(row)
  BY <1>7 DEF BudgetRow, NoRow
<1> QED
  BY <1>5, <1>6, <1>8, <1>9

\* A request names a row.
LEMMA NamedRow ==
    ASSUME NEW limit \in Limit, NEW pct \in AlertPct
    PROVE  [limit |-> limit, alertPct |-> pct] \in BudgetRow
<1>1. limit \in Nat
  BY BudgetAssumption
<1> QED
  BY <1>1 DEF BudgetRow

\* The inductive invariant.  A row that is there is whole: the row that is answered for one
\* that is not there, whose percentage nobody chose, is never flushed to.
RowsAreWhole ==
    /\ budget.exists => budget.row \in BudgetRow
    /\ \A c \in Client : budgetReq[c].op = "put" /\ budgetReq[c].exists =>
         budget.exists /\ budgetReq[c].loaded \in BudgetRow

\* A PUT that is alone found the row that is there.
PutIsAlone(c) ==
    /\ \A d \in Client \ {c} : budgetReq[d] = NoRequest
    /\ budgetReq[c].exists = budget.exists
    /\ budgetReq[c].loaded = budget.row

PutsAreFresh == \A c \in Client : budgetReq[c].op = "put" /\ budgetReq[c].alone => PutIsAlone(c)

BudgetInv == BudgetTypeOK /\ RowsAreWhole /\ PutsAreFresh /\ BudgetAsAnswered

\* A PUT that reads: the others in flight are not alone any more.
LEMMA LoadBudgetKeeps ==
    ASSUME BudgetInv, NEW c \in Client, NEW row \in BudgetRow, LoadBudget(c, row)
    PROVE  BudgetInv'
<1>0. /\ budget \in [exists : BOOLEAN, row : BudgetRow \union {NoRow}]
      /\ budgetReq \in [Client -> {NoRequest} \union BudgetPut]
      /\ budgetReq[c] = NoRequest
      /\ budget' = budget /\ answered' = answered
  BY DEF BudgetInv, BudgetTypeOK, LoadBudget
<1> PICK r : r = [op |-> "put", exists |-> budget.exists, loaded |-> budget.row, computed |-> row,
                  alone |-> \A d \in Client : budgetReq[d] = NoRequest]
  OBVIOUS
<1>1. r \in BudgetPut
  BY <1>0 DEF BudgetPut
<1>2. budgetReq'[c] = r
  BY <1>0 DEF LoadBudget, Joined
<1>3. ASSUME NEW d \in Client, d # c
      PROVE  /\ budgetReq[d] = NoRequest => budgetReq'[d] = NoRequest
             /\ budgetReq[d] # NoRequest =>
                  /\ budgetReq'[d] = [budgetReq[d] EXCEPT !.alone = FALSE]
                  /\ budgetReq[d] \in BudgetPut
  BY <1>0, <1>3 DEF LoadBudget, Joined
<1>4. ASSUME NEW d \in Client, d # c, budgetReq'[d] # NoRequest
      PROVE  /\ budgetReq'[d] \in BudgetPut
             /\ ~budgetReq'[d].alone
             /\ budgetReq[d].op = "put"
             /\ budgetReq'[d].exists = budgetReq[d].exists /\ budgetReq'[d].loaded = budgetReq[d].loaded
  BY <1>3, <1>4 DEF BudgetPut
<1>5. budgetReq' \in [Client -> {NoRequest} \union BudgetPut]
  <2>1. \A d \in Client : budgetReq'[d] \in {NoRequest} \union BudgetPut
    BY <1>1, <1>2, <1>4
  <2>2. budgetReq' = [d \in Client |-> budgetReq'[d]]
    BY DEF LoadBudget, Joined
  <2> QED
    BY <2>1, <2>2
<1>6. BudgetTypeOK'
  BY <1>0, <1>5 DEF BudgetInv, BudgetTypeOK
<1>7. RowsAreWhole'
  <2>1. budget.exists => r.loaded \in BudgetRow
    BY DEF BudgetInv, RowsAreWhole
  <2>2. ASSUME NEW d \in Client, budgetReq'[d].op = "put", budgetReq'[d].exists
        PROVE  budget.exists /\ budgetReq'[d].loaded \in BudgetRow
    <3>1. CASE d = c
      BY <1>2, <2>1, <2>2, <3>1
    <3>2. CASE d # c
      <4>1. budgetReq'[d] # NoRequest
        BY <2>2 DEF NoRequest
      <4> QED
        BY <1>4, <2>2, <3>2, <4>1 DEF BudgetInv, RowsAreWhole
    <3> QED
      BY <3>1, <3>2
  <2> QED
    BY <1>0, <2>2 DEF BudgetInv, RowsAreWhole
<1>8. PutsAreFresh'
  <2> SUFFICES ASSUME NEW d \in Client, budgetReq'[d].op = "put", budgetReq'[d].alone PROVE PutIsAlone(d)'
    BY DEF PutsAreFresh
  <2>1. d = c
    BY <1>4 DEF NoRequest
  <2>2. \A e \in Client : budgetReq[e] = NoRequest
    BY <1>2, <2>1
  <2>3. \A e \in Client \ {d} : budgetReq'[e] = NoRequest
    BY <1>3, <2>1, <2>2
  <2> QED
    BY <1>0, <1>2, <2>1, <2>3 DEF PutIsAlone
<1> QED
  BY <1>0, <1>6, <1>7, <1>8 DEF BudgetInv, BudgetAsAnswered

\* A commit answers with the row it wrote: alone, it finds the row it read.
LEMMA CommitBudgetKeeps ==
    ASSUME BudgetInv, NEW c \in Client, CommitBudget(c)
    PROVE  BudgetInv'
<1> PICK r : r = budgetReq[c]
  OBVIOUS
<1>0. /\ budget \in [exists : BOOLEAN, row : BudgetRow \union {NoRow}]
      /\ r \in BudgetPut /\ r.op = "put" /\ (r.exists \/ ~budget.exists)
      /\ r.exists => budget.exists /\ budget.row \in BudgetRow /\ r.loaded \in BudgetRow
      /\ r.exists \in BOOLEAN /\ r.computed \in BudgetRow /\ r.alone \in BOOLEAN
      /\ r.alone => PutIsAlone(c)
  <2>1. r.op = "put" /\ (r.exists \/ ~budget.exists)
    BY DEF CommitBudget
  <2>2. r \in BudgetPut
    BY <2>1, BudgetRequestKind DEF BudgetInv
  <2> QED
    BY <2>1, <2>2 DEF BudgetInv, BudgetTypeOK, BudgetPut, RowsAreWhole, PutsAreFresh
<1>1. /\ budget' = [exists |-> TRUE, row |-> IF r.exists THEN ReplacedRow(r) ELSE StoredBudget(r.computed)]
      /\ answered' = [row |-> r.computed, alone |-> r.alone]
      /\ budgetReq' = [budgetReq EXCEPT ![c] = NoRequest]
  BY DEF CommitBudget
<1>2. budget'.exists /\ budget'.row \in BudgetRow /\ budget' \in [exists : BOOLEAN, row : BudgetRow]
  <2>1. r.exists => ReplacedRow(r) \in BudgetRow
    <3>1. r.exists => Flush(budget.row, r.loaded, r.computed) \in BudgetRow
      BY <1>0, FlushBudget
    <3> QED
      BY <3>1, StoredRow DEF ReplacedRow
  <2>2. StoredBudget(r.computed) \in BudgetRow
    BY <1>0, StoredRow
  <2> QED
    BY <1>0, <1>1, <2>1, <2>2
<1>3. r.alone => budget'.row = StoredBudget(r.computed)
  <2>1. r.exists /\ r.alone => Flush(budget.row, r.loaded, r.computed) = r.computed
    BY <1>0, FlushBudget DEF PutIsAlone
  <2> QED
    BY <1>0, <1>1, <2>1 DEF ReplacedRow
<1>4. BudgetAsAnswered'
  <2>1. answered'.row = r.computed /\ answered'.alone = r.alone
    BY <1>1
  <2>2. budgetReq[c].alone => budget'.row = StoredBudget(answered'.row)
    BY <1>3, <2>1
  <2> QED
    BY <2>1, <2>2 DEF BudgetAsAnswered, StoredBudget
<1>5. \A d \in Client : budgetReq'[d] # NoRequest => d # c /\ budgetReq'[d] = budgetReq[d]
  BY <1>1 DEF BudgetInv, BudgetTypeOK
<1>6. BudgetTypeOK'
  <2>1. budgetReq' \in [Client -> {NoRequest} \union BudgetPut]
    BY <1>1 DEF BudgetInv, BudgetTypeOK
  <2>2. answered' \in [row : BudgetRow \union {NoRow}, alone : BOOLEAN]
    BY <1>0, <1>1
  <2> QED
    BY <1>2, <2>1, <2>2 DEF BudgetTypeOK
<1>7. RowsAreWhole'
  <2>1. ASSUME NEW d \in Client, budgetReq'[d].op = "put", budgetReq'[d].exists
        PROVE  budgetReq'[d].loaded \in BudgetRow
    BY <1>5, <2>1 DEF NoRequest, BudgetInv, RowsAreWhole
  <2> QED
    BY <1>2, <2>1 DEF RowsAreWhole
<1>8. PutsAreFresh'
  <2> SUFFICES ASSUME NEW d \in Client, budgetReq'[d].op = "put", budgetReq'[d].alone PROVE FALSE
    BY DEF PutsAreFresh
  <2>1. d # c /\ budgetReq[d].op = "put" /\ budgetReq[d].alone
    BY <1>5 DEF NoRequest
  <2>2. PutIsAlone(d)
    BY <2>1 DEF BudgetInv, PutsAreFresh
  <2> QED
    BY <1>0, <2>1, <2>2 DEF PutIsAlone, NoRequest
<1> QED
  BY <1>4, <1>6, <1>7, <1>8 DEF BudgetInv

\* A PUT that fails leaves the row.
LEMMA RollBackBudgetKeeps ==
    ASSUME BudgetInv, NEW c \in Client, RollBackBudget(c)
    PROVE  BudgetInv'
<1>1. budget' = budget /\ answered' = answered /\ budgetReq' = [budgetReq EXCEPT ![c] = NoRequest]
  BY DEF RollBackBudget
<1>2. \A d \in Client : budgetReq'[d] = NoRequest \/ (d # c /\ budgetReq'[d] = budgetReq[d])
  BY <1>1 DEF BudgetInv, BudgetTypeOK
<1>3. BudgetTypeOK'
  BY <1>1 DEF BudgetInv, BudgetTypeOK
<1>4. RowsAreWhole'
  BY <1>1, <1>2 DEF BudgetInv, RowsAreWhole, NoRequest
<1>5. PutsAreFresh'
  <2> SUFFICES ASSUME NEW d \in Client, budgetReq'[d].op = "put", budgetReq'[d].alone PROVE PutIsAlone(d)'
    BY DEF PutsAreFresh
  <2>1. budgetReq'[d] = budgetReq[d]
    BY <1>2 DEF NoRequest
  <2>2. PutIsAlone(d)
    BY <2>1 DEF BudgetInv, PutsAreFresh
  <2> QED
    BY <1>1, <1>2, <2>1, <2>2 DEF PutIsAlone
<1> QED
  BY <1>1, <1>3, <1>4, <1>5 DEF BudgetInv, BudgetAsAnswered

\* Every step keeps the invariant.
LEMMA BudgetInvStep == BudgetInv /\ [BudgetNext]_budgetVars => BudgetInv'
<1> SUFFICES ASSUME BudgetInv, [BudgetNext]_budgetVars PROVE BudgetInv'
  OBVIOUS
<1>1. CASE BudgetNext
  <2>1. ASSUME NEW c \in Client, NEW limit \in Limit, NEW pct \in AlertPct,
               LoadBudget(c, [limit |-> limit, alertPct |-> pct])
        PROVE  BudgetInv'
    BY <2>1, NamedRow, LoadBudgetKeeps
  <2> QED
    BY <1>1, <2>1, CommitBudgetKeeps, RollBackBudgetKeeps DEF BudgetNext
<1>2. CASE UNCHANGED budgetVars
  BY <1>2 DEF budgetVars, BudgetInv, BudgetTypeOK, RowsAreWhole, PutsAreFresh, PutIsAlone, BudgetAsAnswered
<1> QED
  BY <1>1, <1>2

\* The invariant holds in every reachable state.
LEMMA BudgetStays == BudgetSpec => []BudgetInv
<1>1. BudgetInit => BudgetInv
  <2> SUFFICES ASSUME BudgetInit PROVE BudgetInv
    OBVIOUS
  <2>1. /\ budget \in [exists : BOOLEAN, row : BudgetRow \union {NoRow}]
        /\ budget.exists => budget.row \in BudgetRow
        /\ budget.row = StoredBudget(budget.row)
    <3>1. CASE budget = [exists |-> FALSE, row |-> NoRow]
      BY <3>1, StoredRow
    <3>2. ASSUME NEW row \in BudgetRow, budget = [exists |-> TRUE, row |-> StoredBudget(row)]
          PROVE  /\ budget \in [exists : BOOLEAN, row : BudgetRow \union {NoRow}]
                 /\ budget.exists => budget.row \in BudgetRow
                 /\ budget.row = StoredBudget(budget.row)
      <4>1. StoredBudget(row) \in BudgetRow /\ StoredBudget(StoredBudget(row)) = StoredBudget(row)
        BY StoredRow
      <4> QED
        BY <3>2, <4>1
    <3> QED
      BY <3>1, <3>2, NamedRow DEF BudgetInit
  <2>2. \A c \in Client : budgetReq[c] = NoRequest /\ budgetReq[c].op # "put"
    BY DEF BudgetInit, NoRequest
  <2>3. BudgetTypeOK
    BY <2>1 DEF BudgetInit, BudgetTypeOK
  <2>4. RowsAreWhole /\ PutsAreFresh /\ BudgetAsAnswered
    <3>1. answered.row = budget.row
      BY DEF BudgetInit
    <3> QED
      BY <2>1, <2>2, <3>1 DEF RowsAreWhole, PutsAreFresh, BudgetAsAnswered
  <2> QED
    BY <2>3, <2>4 DEF BudgetInv
<1> QED
  BY <1>1, BudgetInvStep, PTL DEF BudgetSpec

\* Every reachable state of the budget has its type.
THEOREM BudgetTypeCorrect == BudgetSpec => []BudgetTypeOK
<1>1. BudgetInv => BudgetTypeOK
  BY DEF BudgetInv
<1> QED
  BY <1>1, BudgetStays, PTL

\* The budget is the one the latest response told, as the columns keep it, unless its PUT
\* overlapped with another.
THEOREM BudgetIsAsAnswered == BudgetSpec => []BudgetAsAnswered
<1>1. BudgetInv => BudgetAsAnswered
  BY DEF BudgetInv
<1> QED
  BY <1>1, BudgetStays, PTL

-----------------------------------------------------------------------------
(* The books.                                                              *)

\* The rows, without the budget.
RowsOK ==
    /\ book \in Seq(Recorded \union {Gone}) /\ Len(book) <= MaxRows
    /\ \A i \in DOMAIN book : book[i].kind = "income" => book[i].category \in IncomeCategory
    /\ plan \in Plan

\* A row as requests write them is one.
LEMMA RowIsRecorded ==
    ASSUME NEW kind \in {"expense", "income", "spend", "payment"}, NEW category \in Category,
           NEW amount \in BookAmount, NEW date \in BookDate
    PROVE  /\ [kind |-> kind, category |-> category, amount |-> amount, date |-> date] \in Recorded
           /\ [kind |-> kind, category |-> category, amount |-> amount, date |-> date].kind = kind
           /\ [kind |-> kind, category |-> category, amount |-> amount, date |-> date].category = category
BY DEF Recorded

\* What is gone is no row.
LEMMA GoneIsNoRow == Gone.kind = "gone" /\ Gone \notin Recorded
BY DEF Gone, Recorded

\* A new row.
LEMMA RecordKeeps ==
    ASSUME RowsOK, NEW row \in Recorded, Record(row), row.kind = "income" => row.category \in IncomeCategory
    PROVE  RowsOK'
<1>1. book' = Append(book, row) /\ Len(book) < MaxRows /\ plan' = plan
  BY DEF Record
<1>2. book' \in Seq(Recorded \union {Gone}) /\ Len(book') <= MaxRows
  BY <1>1, BookAssumption DEF RowsOK
<1>3. ASSUME NEW i \in DOMAIN book', book'[i].kind = "income" PROVE book'[i].category \in IncomeCategory
  <2>1. CASE i \in DOMAIN book
    <3>1. book'[i] = book[i]
      BY <1>1, <2>1 DEF RowsOK
    <3> QED
      BY <1>3, <2>1, <3>1 DEF RowsOK
  <2>2. CASE i \notin DOMAIN book
    <3>1. book'[i] = row
      BY <1>1, <2>2 DEF RowsOK
    <3> QED
      BY <1>3, <3>1
  <2> QED
    BY <2>1, <2>2
<1> QED
  BY <1>1, <1>2, <1>3 DEF RowsOK

\* A row that takes the place of another.
LEMMA ReplaceKeeps ==
    ASSUME RowsOK, NEW i \in DOMAIN book, NEW row \in Recorded \union {Gone}, plan' = plan,
           book' = [book EXCEPT ![i] = row], row.kind = "income" => row.category \in IncomeCategory
    PROVE  RowsOK'
<1>1. book' \in Seq(Recorded \union {Gone}) /\ Len(book') = Len(book) /\ DOMAIN book' = DOMAIN book
  BY DEF RowsOK
<1>2. ASSUME NEW j \in DOMAIN book', book'[j].kind = "income" PROVE book'[j].category \in IncomeCategory
  <2>1. CASE j = i
    <3>1. book'[j] = row
      BY <2>1
    <3> QED
      BY <1>2, <3>1
  <2>2. CASE j # i
    <3>1. book'[j] = book[j] /\ j \in DOMAIN book
      BY <1>1, <2>2
    <3> QED
      BY <1>2, <3>1 DEF RowsOK
  <2> QED
    BY <2>1, <2>2
<1> QED
  BY <1>1, <1>2 DEF RowsOK

\* Every request about transactions keeps the rows' type.
LEMMA TransactionsKeep == RowsOK /\ TransactionsNext => RowsOK'
<1> SUFFICES ASSUME RowsOK, TransactionsNext PROVE RowsOK'
  OBVIOUS
<1>1. ASSUME NEW category \in Category, NEW amount \in BookAmount, NEW date \in BookDate,
             NEW kind \in {"income", "expense"}, CreateTransaction(kind, category, amount, date)
      PROVE  RowsOK'
  <2> DEFINE row == [kind |-> kind, category |-> category, amount |-> amount, date |-> date]
  <2>1. row \in Recorded /\ row.kind = kind /\ row.category = category
    BY RowIsRecorded
  <2>2. Record(row) /\ (kind = "income" => category \in IncomeCategory)
    BY <1>1 DEF CreateTransaction, FitsKind
  <2> HIDE DEF row
  <2> QED
    BY <2>1, <2>2, RecordKeeps
<1>2. ASSUME NEW category \in Category, NEW amount \in BookAmount, NEW date \in BookDate,
             NEW kind \in {"expense", "spend", "payment"},
             Record([kind |-> kind, category |-> category, amount |-> amount, date |-> date])
      PROVE  RowsOK'
  <2> DEFINE row == [kind |-> kind, category |-> category, amount |-> amount, date |-> date]
  <2>1. row \in Recorded /\ row.kind = kind
    BY RowIsRecorded
  <2>2. Record(row)
    BY <1>2
  <2> HIDE DEF row
  <2> QED
    BY <2>1, <2>2, RecordKeeps
<1>3. ASSUME NEW category \in Category, NEW amount \in BookAmount, NEW date \in BookDate,
             NEW i \in DOMAIN book, NEW kind \in {"income", "expense", "spend", "payment"},
             UpdateTransaction(i, kind, category, amount, date)
      PROVE  RowsOK'
  <2> DEFINE row == [kind |-> kind, category |-> category, amount |-> amount, date |-> date]
  <2>1. row \in Recorded /\ row.kind = kind /\ row.category = category
    BY RowIsRecorded
  <2>2. book' = [book EXCEPT ![i] = row] /\ plan' = plan
    BY <1>3 DEF UpdateTransaction
  <2>3. kind = "income" => category \in IncomeCategory
    <3>1. kind = "income" => book[i].kind = "income"
      <4>1. kind = book[i].kind \/ kind \in {"spend", "payment"}
        BY <1>3 DEF UpdateTransaction
      <4> QED
        BY <4>1
    <3>2. category = book[i].category \/ FitsKind(category, kind)
      BY <1>3 DEF UpdateTransaction
    <3> QED
      BY <3>1, <3>2 DEF FitsKind, RowsOK
  <2> HIDE DEF row
  <2> QED
    BY <2>1, <2>2, <2>3, ReplaceKeeps
<1>4. ASSUME NEW i \in DOMAIN book, DeleteTransaction(i) PROVE RowsOK'
  <2>1. book' = [book EXCEPT ![i] = Gone] /\ plan' = plan
    BY <1>4 DEF DeleteTransaction
  <2> QED
    BY <2>1, GoneIsNoRow, ReplaceKeeps
<1>5. CASE \E i \in DOMAIN book : DeleteTransaction(i)
  BY <1>4, <1>5
<1>6. CASE \E category \in Category, amount \in BookAmount, date \in BookDate :
          \/ \E kind \in {"income", "expense"} : CreateTransaction(kind, category, amount, date)
          \/ ConfirmScan(category, amount, date)
          \/ \E kind \in {"spend", "payment"} : RecordOnCard(kind, category, amount, date)
          \/ \E i \in DOMAIN book, kind \in {"income", "expense", "spend", "payment"} :
                UpdateTransaction(i, kind, category, amount, date)
  <2> SUFFICES ASSUME NEW category \in Category, NEW amount \in BookAmount, NEW date \in BookDate,
          \/ \E kind \in {"income", "expense"} : CreateTransaction(kind, category, amount, date)
          \/ ConfirmScan(category, amount, date)
          \/ \E kind \in {"spend", "payment"} : RecordOnCard(kind, category, amount, date)
          \/ \E i \in DOMAIN book, kind \in {"income", "expense", "spend", "payment"} :
                UpdateTransaction(i, kind, category, amount, date)
               PROVE  RowsOK'
    BY <1>6
  <2>1. CASE \E kind \in {"income", "expense"} : CreateTransaction(kind, category, amount, date)
    BY <1>1, <2>1
  <2>2. CASE ConfirmScan(category, amount, date)
    BY <1>2, <2>2 DEF ConfirmScan
  <2>3. CASE \E kind \in {"spend", "payment"} : RecordOnCard(kind, category, amount, date)
    BY <1>2, <2>3 DEF RecordOnCard
  <2>4. CASE \E i \in DOMAIN book, kind \in {"income", "expense", "spend", "payment"} :
                UpdateTransaction(i, kind, category, amount, date)
    BY <1>3, <2>4
  <2> QED
    BY <2>1, <2>2, <2>3, <2>4
<1> QED
  BY <1>5, <1>6 DEF TransactionsNext

\* The rows of every reachable state have their type.
LEMMA RowsStayTyped == BooksSpec => []RowsOK
<1>1. BooksInit => RowsOK
  <2> SUFFICES ASSUME BooksInit PROVE RowsOK
    OBVIOUS
  <2>1. book = << >> /\ plan \in Plan
    BY DEF BooksInit
  <2>2. book \in Seq(Recorded \union {Gone}) /\ Len(book) = 0 /\ DOMAIN book = {}
    BY <2>1
  <2> QED
    BY <2>1, <2>2, BookAssumption DEF RowsOK
<1>2. RowsOK /\ [BooksNext]_bookVars => RowsOK'
  <2> SUFFICES ASSUME RowsOK, [BooksNext]_bookVars PROVE RowsOK'
    OBVIOUS
  <2>1. CASE TransactionsNext
    BY <2>1, TransactionsKeep
  <2>2. CASE UNCHANGED <<book, plan>>
    BY <2>2 DEF RowsOK
  <2> QED
    BY <2>1, <2>2 DEF BooksNext, bookVars
<1> QED
  BY <1>1, <1>2, PTL DEF BooksSpec

-----------------------------------------------------------------------------
(* Months.                                                                 *)

Ends(e) == e = [m \in 0 .. Len(MonthLength) |-> IF m = 0 THEN 0 ELSE e[m - 1] + MonthLength[m]]

\* Months begin where the one before ends.
LEMMA MonthsFollow ==
    /\ \A m \in 0 .. Len(MonthLength) : MonthEnd[m] \in Int
    /\ MonthEnd[0] = 0
    /\ \A m \in Months : MonthEnd[m] = MonthEnd[m - 1] + MonthLength[m]
    /\ \A m \in Months : MonthLength[m] \in Nat \ {0}
    /\ Months = 1 .. Len(MonthLength) /\ Len(MonthLength) \in Nat
<1> DEFINE n == Len(MonthLength)
           Length(m) == IF m \in 1 .. n THEN MonthLength[m] ELSE 0
           step == [a \in Nat \X Int |-> a[2] + Length(a[1])]
<1>1. n \in Nat /\ Months = 1 .. n /\ \A m \in 1 .. n : MonthLength[m] \in Nat \ {0}
  BY BookAssumption DEF Months
<1> HIDE DEF n
<1>2. \A m \in Nat : Length(m) \in Int
  BY <1>1
<1>3. \A m \in 1 .. n : Length(m) = MonthLength[m]
  OBVIOUS
<1> HIDE DEF Length
<1>4. step \in [Nat \X Int -> Int]
  BY <1>2
<1>5. \A k \in Nat, b \in Int : step[<<k, b>>] = b + Length(k)
  OBVIOUS
<1> HIDE DEF step
<1>6. PICK e : Iterates(e, n, 0, step)
  BY <1>1, <1>4, IterationExists
<1>7. ASSUME NEW k \in 1 .. n PROVE e[k] = e[k - 1] + MonthLength[k]
  <2>1. k \in Nat /\ k - 1 \in 0 .. n
    BY <1>1
  <2>2. e[k - 1] \in Int /\ e[k] = step[<<k, e[k - 1]>>]
    BY <1>6, <2>1 DEF Iterates
  <2> QED
    BY <1>3, <1>5, <2>1, <2>2
<1>8. Ends(e)
  <2>1. \A k \in 0 .. n : k = 0 \/ k \in 1 .. n
    BY <1>1
  <2>2. \A k \in 0 .. n : e[k] = IF k = 0 THEN 0 ELSE e[k - 1] + MonthLength[k]
    BY <1>6, <1>7, <2>1 DEF Iterates
  <2> QED
    BY <1>6, <2>2 DEF Ends, Iterates, n
<1>9. Ends(MonthEnd)
  BY <1>8 DEF MonthEnd, Ends
<1>10. /\ MonthEnd = [m \in 0 .. n |-> IF m = 0 THEN 0 ELSE MonthEnd[m - 1] + MonthLength[m]]
       /\ 0 \in 0 .. n /\ \A m \in 1 .. n : m \in 0 .. n /\ m # 0
  BY <1>1, <1>9 DEF Ends, n
<1>11. MonthEnd[0] = 0 /\ \A m \in 1 .. n : MonthEnd[m] = MonthEnd[m - 1] + MonthLength[m]
  BY <1>10
<1> DEFINE Q == {m \in Nat : m <= n => MonthEnd[m] \in Int}
<1>12. 0 \in Q
  BY <1>11
<1>13. ASSUME NEW m \in Nat, m \in Q PROVE m + 1 \in Q
  <2> SUFFICES ASSUME m + 1 <= n PROVE MonthEnd[m + 1] \in Int
    OBVIOUS
  <2>1. m + 1 \in 1 .. n /\ (m + 1) - 1 = m /\ MonthEnd[m] \in Int
    BY <1>1, <1>13
  <2>2. MonthEnd[m + 1] = MonthEnd[(m + 1) - 1] + MonthLength[m + 1]
    BY <1>11, <2>1
  <2> QED
    BY <1>1, <2>1, <2>2
<1>14. \A m \in 0 .. n : MonthEnd[m] \in Int
  <2> HIDE DEF Q
  <2>1. \A m \in Nat : m \in Q
    BY <1>12, <1>13, NumberInduction
  <2> QED
    BY <2>1 DEF Q
<1> QED
  BY <1>1, <1>11, <1>14 DEF n

\* A later month ends later.
LEMMA MonthsGrow ==
    ASSUME NEW l \in 0 .. Len(MonthLength), NEW m \in 0 .. Len(MonthLength), l <= m
    PROVE  MonthEnd[l] <= MonthEnd[m]
<1> DEFINE n == Len(MonthLength)
           P == {k \in Nat : l + k <= n => MonthEnd[l] <= MonthEnd[l + k]}
<1>1. /\ n \in Nat /\ l \in Nat /\ \A k \in 0 .. n : MonthEnd[k] \in Int
      /\ \A k \in 1 .. n : MonthEnd[k] = MonthEnd[k - 1] + MonthLength[k] /\ MonthLength[k] \in Nat \ {0}
  <2>1. n \in Nat /\ Months = 1 .. n /\ l \in 0 .. n
    BY MonthsFollow
  <2>2. \A k \in 0 .. n : MonthEnd[k] \in Int
    BY MonthsFollow
  <2>3. \A k \in Months : MonthEnd[k] = MonthEnd[k - 1] + MonthLength[k] /\ MonthLength[k] \in Nat \ {0}
    BY MonthsFollow
  <2> HIDE DEF n
  <2> QED
    BY <2>1, <2>2, <2>3
<1> HIDE DEF n
<1>2. 0 \in P
  <2>1. l + 0 = l /\ l \in 0 .. n
    BY <1>1 DEF n
  <2> QED
    BY <1>1, <2>1
<1>3. ASSUME NEW k \in Nat, k \in P PROVE k + 1 \in P
  <2> SUFFICES ASSUME l + (k + 1) <= n PROVE MonthEnd[l] <= MonthEnd[l + (k + 1)]
    OBVIOUS
  <2>1. /\ l + (k + 1) \in 1 .. n /\ (l + (k + 1)) - 1 = l + k
        /\ l + k \in 0 .. n /\ l \in 0 .. n /\ MonthEnd[l] <= MonthEnd[l + k]
    BY <1>1, <1>3 DEF n
  <2>2. MonthEnd[l + (k + 1)] = MonthEnd[(l + (k + 1)) - 1] + MonthLength[l + (k + 1)]
    BY <1>1, <2>1
  <2>3. MonthLength[l + (k + 1)] \in Nat /\ MonthEnd[l + k] \in Int /\ MonthEnd[l] \in Int
    BY <1>1, <2>1
  <2>4. MonthEnd[l + (k + 1)] = MonthEnd[l + k] + MonthLength[l + (k + 1)]
    BY <2>1, <2>2
  <2> QED
    BY <2>1, <2>3, <2>4
<1>4. m - l \in P
  <2> HIDE DEF P
  <2>1. \A k \in Nat : k \in P
    BY <1>2, <1>3, NumberInduction
  <2>2. m - l \in Nat
    BY <1>1 DEF n
  <2> QED
    BY <2>1, <2>2
<1>5. l + (m - l) = m /\ m <= n
  BY <1>1 DEF n
<1> QED
  BY <1>4, <1>5

\* The date of a row is in month m.
DatedIn(date, m) == MonthEnd[m - 1] < date /\ date <= MonthEnd[m]

\* Every date is in a month.
LEMMA DatesAreInMonths == \A date \in BookDate : \E m \in Months : DatedIn(date, m)
<1> SUFFICES ASSUME NEW date \in BookDate, \A m \in Months : ~DatedIn(date, m) PROVE FALSE
  OBVIOUS
<1> DEFINE n == Len(MonthLength)
           P == {m \in Nat : m <= n => MonthEnd[m] < date}
<1>1. /\ n \in Nat /\ Months = 1 .. n /\ MonthEnd[0] = 0 /\ date \in Int /\ 0 < date /\ date <= MonthEnd[n]
      /\ \A k \in 0 .. n : MonthEnd[k] \in Int
  BY MonthsFollow, DatesHaveMonths
<1> HIDE DEF n
<1>2. 0 \in P
  BY <1>1
<1>3. ASSUME NEW m \in Nat, m \in P PROVE m + 1 \in P
  <2> SUFFICES ASSUME m + 1 <= n PROVE MonthEnd[m + 1] < date
    OBVIOUS
  <2>1. m + 1 \in Months /\ (m + 1) - 1 = m /\ m + 1 \in 0 .. n /\ MonthEnd[m] < date
    BY <1>1, <1>3
  <2>2. ~DatedIn(date, m + 1)
    BY <2>1
  <2> QED
    BY <1>1, <2>1, <2>2 DEF DatedIn
<1>4. n \in P
  <2> HIDE DEF P
  <2> QED
    BY <1>1, <1>2, <1>3, NumberInduction
<1> QED
  BY <1>1, <1>4

\* And in one only.
LEMMA MonthsAreApart ==
    ASSUME NEW date \in Int, NEW l \in Months, NEW m \in Months, DatedIn(date, l), DatedIn(date, m)
    PROVE  l = m
<1>1. ASSUME NEW j \in Months, NEW k \in Months, j < k, DatedIn(date, j), DatedIn(date, k) PROVE FALSE
  <2>1. /\ j \in 0 .. Len(MonthLength) /\ k - 1 \in 0 .. Len(MonthLength) /\ j <= k - 1
        /\ \A i \in 0 .. Len(MonthLength) : MonthEnd[i] \in Int
    <3>1. Months = 1 .. Len(MonthLength) /\ Len(MonthLength) \in Nat
      BY MonthsFollow
    <3>2. \A i \in 0 .. Len(MonthLength) : MonthEnd[i] \in Int
      BY MonthsFollow
    <3> QED
      BY <1>1, <3>1, <3>2
  <2>2. MonthEnd[j] <= MonthEnd[k - 1]
    BY <2>1, MonthsGrow
  <2> QED
    BY <1>1, <2>1, <2>2 DEF DatedIn
<1>2. l \in Int /\ m \in Int
  BY MonthsFollow
<1> QED
  BY <1>1, <1>2

-----------------------------------------------------------------------------
(* The rows that are summed up.                                            *)

Amounts == [i \in Live |-> book[i].amount]

\* Live rows are finitely many, and rows.
LEMMA LiveRows ==
    ASSUME RowsOK
    PROVE  /\ IsFiniteSet(Live)
           /\ \A i \in Live : /\ book[i].kind \in {"expense", "income", "spend", "payment"}
                              /\ book[i].category \in Category
                              /\ book[i].amount \in Nat \ {0} /\ Amounts[i] = book[i].amount
                              /\ book[i].date \in BookDate /\ book[i].date \in Int
<1>1. DOMAIN book = 1 .. Len(book) /\ Len(book) \in Nat
  BY DEF RowsOK
<1>2. IsFiniteSet(1 .. Len(book))
  BY <1>1, FS_Interval
<1>3. IsFiniteSet(Live)
  <2>1. Live \subseteq 1 .. Len(book)
    BY <1>1 DEF Live
  <2> QED
    BY <1>2, <2>1, FS_Subset
<1>4. ASSUME NEW i \in Live PROVE book[i] \in Recorded
  BY <1>1 DEF Live, RowsOK
<1>5. \A i \in Live : Amounts[i] = book[i].amount
  BY DEF Amounts
<1>6. ASSUME NEW row \in Recorded
      PROVE  /\ row.kind \in {"expense", "income", "spend", "payment"} /\ row.category \in Category
             /\ row.amount \in BookAmount /\ row.date \in BookDate
  BY DEF Recorded
<1>7. \A amount \in BookAmount : amount \in Nat \ {0}
  BY BookAssumption
<1>8. \A date \in BookDate : date \in Int
  BY BookAssumption
<1> QED
  BY <1>3, <1>4, <1>5, <1>6, <1>7, <1>8

\* What live rows add up to.
LEMMA SumOfRows ==
    ASSUME RowsOK, NEW s \in SUBSET Live
    PROVE  /\ IsFiniteSet(s) /\ \A i \in s : Amounts[i] \in Nat
           /\ SumOf(s) = SumFunctionOnSet(Amounts, s)
           /\ SumOf(s) \in Nat
<1> DEFINE f == [i \in s |-> book[i].amount]
<1>1. IsFiniteSet(s)
  BY LiveRows, FS_Subset
<1>2. \A i \in s : f[i] = Amounts[i] /\ Amounts[i] \in Nat
  BY LiveRows
<1>3. SumOf(s) = SumFunctionOnSet(f, s)
  <2>1. DOMAIN f = s
    OBVIOUS
  <2> QED
    BY <2>1 DEF SumOf, SumFunction
<1> HIDE DEF f
<1>4. SumFunctionOnSet(f, s) = SumFunctionOnSet(Amounts, s)
  BY <1>1, <1>2, SumSame
<1>5. SumFunctionOnSet(Amounts, s) \in Nat
  BY <1>1, <1>2, SumNat
<1> QED
  BY <1>1, <1>2, <1>3, <1>4, <1>5

\* Rows sorted by a key, one of `T`, and summed up by it.
LEMMA SumByKey ==
    ASSUME RowsOK, NEW s \in SUBSET Live, NEW T, IsFiniteSet(T), NEW k, \A i \in s : k[i] \in T,
           NEW f, DOMAIN f = T, \A t \in T : f[t] = SumOf({i \in s : k[i] = t})
    PROVE  SumFunction(f) = SumOf(s)
<1> DEFINE g == [t \in T |-> SumFunctionOnSet(Amounts, {i \in s : k[i] = t})]
<1>1. \A t \in T : f[t] = g[t]
  <2> SUFFICES ASSUME NEW t \in T PROVE f[t] = g[t]
    OBVIOUS
  <2> DEFINE r == {i \in s : k[i] = t}
  <2>1. r \in SUBSET Live
    OBVIOUS
  <2> HIDE DEF r
  <2>2. SumOf(r) = SumFunctionOnSet(Amounts, r)
    BY <2>1, SumOfRows
  <2> QED
    BY <2>2 DEF r
<1>2. IsFiniteSet(s) /\ \A i \in s : Amounts[i] \in Int /\ k[i] \in T
  BY SumOfRows
<1>3. SumFunctionOnSet(g, T) = SumFunctionOnSet(Amounts, s)
  BY <1>2, SumFibers
<1> HIDE DEF g
<1>4. SumFunctionOnSet(f, T) = SumFunctionOnSet(g, T)
  BY <1>1, SumSame
<1> QED
  BY <1>3, <1>4, SumOfRows DEF SumFunction

\* The month of each row.
MonthOf == [i \in Live |-> CHOOSE m \in Months : DatedIn(book[i].date, m)]

\* A row is in its month and no other.
LEMMA RowsHaveAMonth ==
    ASSUME RowsOK
    PROVE  /\ \A i \in Live : MonthOf[i] \in Months
           /\ \A s \in SUBSET Live, m \in Months : InMonth(s, m) = {i \in s : MonthOf[i] = m}
<1>1. ASSUME NEW i \in Live
      PROVE  MonthOf[i] \in Months /\ DatedIn(book[i].date, MonthOf[i])
  <2>1. \E m \in Months : DatedIn(book[i].date, m)
    BY LiveRows, DatesAreInMonths
  <2>2. MonthOf[i] = CHOOSE m \in Months : DatedIn(book[i].date, m)
    BY DEF MonthOf
  <2> QED
    BY <2>1, <2>2
<1>2. ASSUME NEW i \in Live, NEW m \in Months PROVE DatedIn(book[i].date, m) <=> MonthOf[i] = m
  BY <1>1, LiveRows, MonthsAreApart
<1>3. ASSUME NEW s \in SUBSET Live, NEW m \in Months PROVE InMonth(s, m) = {i \in s : MonthOf[i] = m}
  BY <1>2 DEF InMonth, DatedIn
<1> QED
  BY <1>1, <1>3

-----------------------------------------------------------------------------
(* The views agree.                                                        *)

\* The months add up to the whole.
LEMMA MonthsAddUp ==
    ASSUME RowsOK
    PROVE  /\ IncomeTotal(Live) = SumFunction([m \in Months |-> IncomeTotal(InMonth(Live, m))])
           /\ ExpenseTotal(Live) = SumFunction([m \in Months |-> ExpenseTotal(InMonth(Live, m))])
<1> DEFINE earned == Income(CashRelevant(Live))
           spent == Expenses(CashRelevant(Live))
           f == [m \in Months |-> IncomeTotal(InMonth(Live, m))]
           g == [m \in Months |-> ExpenseTotal(InMonth(Live, m))]
<1>1. earned \in SUBSET Live /\ spent \in SUBSET Live
  BY DEF Income, Expenses, CashRelevant
<1>2. IsFiniteSet(Months)
  BY MonthsFollow, FS_Interval
<1>3. ASSUME NEW m \in Months
      PROVE  /\ f[m] = SumOf({i \in earned : MonthOf[i] = m})
             /\ g[m] = SumOf({i \in spent : MonthOf[i] = m})
  <2>1. InMonth(Live, m) = {i \in Live : MonthOf[i] = m}
    BY RowsHaveAMonth
  <2>2. Income(CashRelevant(InMonth(Live, m))) = {i \in earned : MonthOf[i] = m}
    BY <2>1 DEF Income, CashRelevant
  <2>3. Expenses(CashRelevant(InMonth(Live, m))) = {i \in spent : MonthOf[i] = m}
    BY <2>1 DEF Expenses, Income, CashRelevant
  <2> QED
    BY <2>2, <2>3 DEF IncomeTotal, ExpenseTotal
<1>4. DOMAIN f = Months /\ DOMAIN g = Months
  OBVIOUS
<1>5. \A i \in Live : MonthOf[i] \in Months
  BY RowsHaveAMonth
<1> HIDE DEF f, g, earned, spent
<1>6. SumFunction(f) = SumOf(earned)
  <2>1. \A m \in Months : f[m] = SumOf({i \in earned : MonthOf[i] = m})
    BY <1>3
  <2>2. \A i \in earned : MonthOf[i] \in Months
    BY <1>1, <1>5
  <2> QED
    BY <1>1, <1>2, <1>4, <2>1, <2>2, SumByKey
<1>7. SumFunction(g) = SumOf(spent)
  <2>1. \A m \in Months : g[m] = SumOf({i \in spent : MonthOf[i] = m})
    BY <1>3
  <2>2. \A i \in spent : MonthOf[i] \in Months
    BY <1>1, <1>5
  <2> QED
    BY <1>1, <1>2, <1>4, <2>1, <2>2, SumByKey
<1> QED
  BY <1>6, <1>7 DEF f, g, earned, spent, IncomeTotal, ExpenseTotal

\* The days of a month add up to it.
LEMMA DaysAddUp ==
    ASSUME RowsOK, NEW m \in Months
    PROVE  /\ SumFunction(Inflow(Live, m)) = SumOf(Income(InMonth(Live, m)))
           /\ SumFunction(Outflow(Live, m)) = SumOf(Expenses(InMonth(Live, m)))
<1> DEFINE T == MonthEnd[m - 1] + 1 .. MonthEnd[m]
           earned == Income(InMonth(Live, m))
           spent == Expenses(InMonth(Live, m))
           k == [i \in Live |-> book[i].date]
           f == Inflow(Live, m)
           g == Outflow(Live, m)
<1>1. earned \in SUBSET Live /\ spent \in SUBSET Live
  BY DEF Income, Expenses, InMonth
<1>2. MonthEnd[m - 1] \in Int /\ MonthEnd[m] \in Int
  <2>1. Months = 1 .. Len(MonthLength) /\ Len(MonthLength) \in Nat
    BY MonthsFollow
  <2>2. \A i \in 0 .. Len(MonthLength) : MonthEnd[i] \in Int
    BY MonthsFollow
  <2>3. m - 1 \in 0 .. Len(MonthLength) /\ m \in 0 .. Len(MonthLength)
    BY <2>1
  <2> QED
    BY <2>2, <2>3
<1>3. IsFiniteSet(T)
  BY <1>2, FS_Interval
<1>4. ASSUME NEW i \in Live
      PROVE  k[i] = book[i].date /\ (i \in InMonth(Live, m) <=> book[i].date \in T)
  <2>1. book[i].date \in Int
    BY LiveRows
  <2> QED
    BY <1>2, <2>1 DEF InMonth
<1>5. DOMAIN f = T /\ DOMAIN g = T
  BY DEF Inflow, Outflow
<1>6. ASSUME NEW t \in T
      PROVE  /\ f[t] = SumOf({i \in earned : k[i] = t})
             /\ g[t] = SumOf({i \in spent : k[i] = t})
  <2>1. {i \in earned : k[i] = t} = {i \in Income(Live) : book[i].date = t}
    BY <1>4 DEF Income, InMonth
  <2>2. {i \in spent : k[i] = t} = {i \in Expenses(Live) : book[i].date = t}
    BY <1>4 DEF Expenses, Income, InMonth
  <2>3. /\ f[t] = SumOf({i \in Income(Live) : book[i].date = t})
        /\ g[t] = SumOf({i \in Expenses(Live) : book[i].date = t})
    BY DEF Inflow, Outflow
  <2> QED
    BY <2>1, <2>2, <2>3
<1>7. (\A i \in earned : k[i] \in T) /\ (\A i \in spent : k[i] \in T)
  BY <1>1, <1>4 DEF Income, Expenses
<1> HIDE DEF f, g, earned, spent, T, k
<1>8. SumFunction(f) = SumOf(earned)
  <2>1. \A t \in T : f[t] = SumOf({i \in earned : k[i] = t})
    BY <1>6
  <2> QED
    BY <1>1, <1>3, <1>5, <1>7, <2>1, SumByKey
<1>9. SumFunction(g) = SumOf(spent)
  <2>1. \A t \in T : g[t] = SumOf({i \in spent : k[i] = t})
    BY <1>6
  <2> QED
    BY <1>1, <1>3, <1>5, <1>7, <2>1, SumByKey
<1> QED
  BY <1>8, <1>9 DEF f, g, earned, spent

\* The categories of rows add up to them, and to the card spends among them.
LEMMA CategoriesAddUp ==
    ASSUME RowsOK, NEW s \in SUBSET Live
    PROVE  /\ SumFunction(Breakdown(s, FALSE)) = SumOf(Expenses(s))
           /\ SumFunction(Breakdown(s, TRUE)) = SumOf(CardSpends(s))
<1> DEFINE T == {book[i].category : i \in Expenses(s)}
           k == [i \in Live |-> book[i].category]
<1>1. /\ Expenses(s) \in SUBSET Live /\ CardSpends(s) \in SUBSET Live
      /\ CardSpends(s) \subseteq Expenses(s)
  BY LiveRows DEF Expenses, Income, CardSpends
<1>2. IsFiniteSet(T)
  <2>1. IsFiniteSet(Expenses(s))
    BY <1>1, SumOfRows
  <2>2. IsFiniteSet({k[i] : i \in Expenses(s)})
    <3> HIDE DEF k
    <3> QED
      BY <2>1, ImageIsFinite
  <2>3. {k[i] : i \in Expenses(s)} = T
    BY <1>1
  <2> QED
    BY <2>2, <2>3
<1>3. \A i \in Live : k[i] = book[i].category
  OBVIOUS
<1>4. \A i \in Expenses(s) : k[i] \in T
  BY <1>1, <1>3
<1>5. ASSUME NEW cardOnly \in BOOLEAN, NEW r \in SUBSET Live, r \subseteq Expenses(s),
             r = IF cardOnly THEN CardSpends(s) ELSE Expenses(s)
      PROVE  SumFunction(Breakdown(s, cardOnly)) = SumOf(r)
  <2> DEFINE f == Breakdown(s, cardOnly)
  <2>1. DOMAIN f = T
    BY DEF Breakdown
  <2>2. ASSUME NEW t \in T PROVE f[t] = SumOf({i \in r : k[i] = t})
    <3>1. f[t] = SumOf({i \in r : book[i].category = t})
      BY <1>5 DEF Breakdown
    <3>2. {i \in r : book[i].category = t} = {i \in r : k[i] = t}
      BY <1>3
    <3> QED
      BY <3>1, <3>2
  <2>3. \A i \in r : k[i] \in T
    BY <1>4, <1>5
  <2> HIDE DEF f, T, k
  <2>4. SumFunction(f) = SumOf(r)
    BY <1>2, <2>1, <2>2, <2>3, SumByKey
  <2> QED
    BY <2>4 DEF f
<1> HIDE DEF T, k
<1>6. SumFunction(Breakdown(s, FALSE)) = SumOf(Expenses(s))
  BY <1>1, <1>5
<1>7. SumFunction(Breakdown(s, TRUE)) = SumOf(CardSpends(s))
  BY <1>1, <1>5
<1> QED
  BY <1>6, <1>7

\* What is spent left the bank or is owed for a card; what comes in is all in the bank.
LEMMA BankAndCards ==
    ASSUME RowsOK, NEW s \in SUBSET Live
    PROVE  /\ SumOf(Expenses(s)) = ExpenseTotal(s) + SumOf(CardSpends(s))
           /\ SumOf(Income(s)) = IncomeTotal(s)
           /\ ExpenseTotal(s) \in Nat /\ IncomeTotal(s) \in Nat
<1> DEFINE bank == Expenses(CashRelevant(s))
           cards == CardSpends(s)
<1>1. bank \in SUBSET Live /\ cards \in SUBSET Live /\ Income(s) \in SUBSET Live /\ Expenses(s) \in SUBSET Live
  BY DEF Expenses, Income, CashRelevant, CardSpends
<1>2. bank \union cards = Expenses(s) /\ bank \intersect cards = {} /\ Income(CashRelevant(s)) = Income(s)
  BY DEF Expenses, Income, CashRelevant, CardSpends
<1> HIDE DEF bank, cards
<1>3. /\ IsFiniteSet(bank) /\ IsFiniteSet(cards)
      /\ \A i \in bank \union cards : Amounts[i] \in Int
  BY <1>1, SumOfRows
<1>4. SumFunctionOnSet(Amounts, bank \union cards)
        = SumFunctionOnSet(Amounts, bank) + SumFunctionOnSet(Amounts, cards)
  BY <1>2, <1>3, SumUnion
<1>5. /\ SumOf(Expenses(s)) = SumFunctionOnSet(Amounts, Expenses(s))
      /\ SumOf(bank) = SumFunctionOnSet(Amounts, bank) /\ SumOf(bank) \in Nat
      /\ SumOf(cards) = SumFunctionOnSet(Amounts, cards)
      /\ SumOf(Income(s)) \in Nat
  BY <1>1, SumOfRows
<1> QED
  BY <1>2, <1>4, <1>5 DEF ExpenseTotal, IncomeTotal, bank, cards

\* The greater and the lesser of two numbers.
LEMMA MaxOfTwo == ASSUME NEW a \in Int, NEW b \in Int PROVE Max({a, b}) = IF a >= b THEN a ELSE b
<1>1. PICK x \in {a, b} : \A y \in {a, b} : x >= y
  OBVIOUS
<1>2. Max({a, b}) \in {a, b} /\ Max({a, b}) >= a /\ Max({a, b}) >= b
  BY <1>1 DEF Max
<1> QED
  BY <1>2

\* The lesser of two.
LEMMA MinOfTwo == ASSUME NEW a \in Int, NEW b \in Int PROVE Min({a, b}) = IF a <= b THEN a ELSE b
<1>1. PICK x \in {a, b} : \A y \in {a, b} : x <= y
  OBVIOUS
<1>2. Min({a, b}) \in {a, b} /\ Min({a, b}) <= a /\ Min({a, b}) <= b
  BY <1>1 DEF Min
<1> QED
  BY <1>2

\* The budget's figures are numbers.
LEMMA BudgetIsANumber == BudgetTypeOK => budget.row.limit \in Nat /\ budget.row.alertPct \in Nat
<1> SUFFICES ASSUME BudgetTypeOK PROVE budget.row.limit \in Nat /\ budget.row.alertPct \in Nat
  OBVIOUS
<1>1. budget.row \in BudgetRow \union {NoRow}
  BY DEF BudgetTypeOK
<1>2. CASE budget.row \in BudgetRow
  <2>1. budget.row.limit \in Nat /\ budget.row.alertPct \in AlertPct
    BY <1>2 DEF BudgetRow
  <2>2. \A pct \in AlertPct : pct \in Nat
    BY BudgetAssumption
  <2> QED
    BY <2>1, <2>2
<1>3. CASE budget.row = NoRow
  BY <1>3 DEF NoRow
<1> QED
  BY <1>1, <1>2, <1>3

\* A month over the budget has its alert.
LEMMA OverBudgetAlerts ==
    ASSUME BudgetTypeOK, NEW spent \in Nat, OverBy(spent) > 0
    PROVE  AlertTriggered(spent)
<1>1. budget.row.limit \in Nat
  BY BudgetIsANumber
<1>2. OverBy(spent) = IF spent - budget.row.limit >= 0 THEN spent - budget.row.limit ELSE 0
  BY <1>1, MaxOfTwo DEF OverBy
<1> QED
  BY <1>1, <1>2 DEF AlertTriggered, Remaining

\* The views of any books agree.
LEMMA ViewsAgree == RowsOK /\ BudgetTypeOK => ReportsAgree
<1> SUFFICES ASSUME RowsOK, BudgetTypeOK PROVE ReportsAgree
  OBVIOUS
<1>1. ASSUME NEW m \in Months
      PROVE  LET s == InMonth(Live, m)
                 spent == ExpenseTotal(s) IN
             /\ SumFunction(Inflow(Live, m)) = IncomeTotal(s)
             /\ SumFunction(Outflow(Live, m)) = spent + SumFunction(Breakdown(s, TRUE))
             /\ SumFunction(Breakdown(s, FALSE)) = SumFunction(Outflow(Live, m))
             /\ OverBy(spent) > 0 => AlertTriggered(spent)
  <2> DEFINE s == InMonth(Live, m)
  <2>1. s \in SUBSET Live
    BY DEF InMonth
  <2>2. /\ SumFunction(Inflow(Live, m)) = SumOf(Income(s))
        /\ SumFunction(Outflow(Live, m)) = SumOf(Expenses(s))
    BY DaysAddUp
  <2> HIDE DEF s
  <2>3. /\ SumFunction(Breakdown(s, FALSE)) = SumOf(Expenses(s))
        /\ SumFunction(Breakdown(s, TRUE)) = SumOf(CardSpends(s))
    BY <2>1, CategoriesAddUp
  <2>4. /\ SumOf(Expenses(s)) = ExpenseTotal(s) + SumOf(CardSpends(s))
        /\ SumOf(Income(s)) = IncomeTotal(s) /\ ExpenseTotal(s) \in Nat
    BY <2>1, BankAndCards
  <2>5. OverBy(ExpenseTotal(s)) > 0 => AlertTriggered(ExpenseTotal(s))
    BY <2>4, OverBudgetAlerts
  <2> QED
    BY <2>2, <2>3, <2>4, <2>5 DEF s
<1> QED
  BY <1>1, MonthsAddUp DEF ReportsAgree

-----------------------------------------------------------------------------
(* The score.                                                              *)

\* A greater dividend, a smaller divisor.
LEMMA DivGrows ==
    ASSUME NEW a \in Int, NEW b \in Int, NEW d \in Nat \ {0}, a <= b
    PROVE  a \div d \in Int /\ b \div d \in Int /\ a \div d <= b \div d
<1>1. PICK q \in Int, r \in Int : q = a \div d /\ a = d * q + r /\ 0 <= r /\ r < d
  BY DivMod
<1>2. PICK p \in Int, t \in Int : p = b \div d /\ b = d * p + t /\ 0 <= t /\ t < d
  BY DivMod
<1>3. q <= p
  <2> SUFFICES ASSUME q >= p + 1 PROVE FALSE
    BY <1>1, <1>2
  <2>1. d * q >= d * (p + 1)
    BY <1>1, <1>2
  <2>2. d * (p + 1) = d * p + d
    BY <1>2
  <2>3. d * q \in Int /\ d * p \in Int
    BY <1>1, <1>2
  <2>4. PICK x \in Int : x = d * q
    BY <2>3
  <2>5. PICK y \in Int : y = d * p
    BY <2>3
  <2> QED
    BY <1>1, <1>2, <2>1, <2>2, <2>4, <2>5
<1> QED
  BY <1>1, <1>2, <1>3

\* A quotient of natural numbers is one.
LEMMA DivNat ==
    ASSUME NEW a \in Nat, NEW d \in Nat \ {0}
    PROVE  a \div d \in Nat
<1>1. 0 \div d = 0
  OBVIOUS
<1> QED
  BY <1>1, DivGrows

\* A multiple divides without rest.
LEMMA MultiplesDivide ==
    ASSUME NEW d \in Nat \ {0}, NEW q \in Int
    PROVE  (d * q) \div d = q
<1>1. d * q \in Int
  OBVIOUS
<1>2. PICK x \in Int : x = d * q
  BY <1>1
<1>3. PICK p \in Int, t \in Int : p = x \div d /\ x = d * p + t /\ 0 <= t /\ t < d
  BY DivMod
<1>4. d * p \in Int
  BY <1>3
<1>5. PICK y \in Int : y = d * p
  BY <1>4
<1>6. CASE p >= q + 1
  <2>1. d * p >= d * (q + 1)
    BY <1>3, <1>6
  <2>2. d * (q + 1) = d * q + d
    OBVIOUS
  <2> QED
    BY <1>2, <1>3, <1>5, <2>1, <2>2
<1>7. CASE p + 1 <= q
  <2>1. d * (p + 1) <= d * q
    BY <1>3, <1>7
  <2>2. d * (p + 1) = d * p + d
    BY <1>3
  <2> QED
    BY <1>2, <1>3, <1>5, <2>1, <2>2
<1> QED
  BY <1>2, <1>3, <1>6, <1>7

\* A greater divisor, a smaller quotient.
LEMMA DivShrinks ==
    ASSUME NEW a \in Nat, NEW d \in Nat \ {0}, NEW e \in Nat \ {0}, d <= e
    PROVE  a \div e <= a \div d
<1>1. PICK q \in Nat, r \in Int : q = a \div e /\ a = e * q + r /\ 0 <= r /\ r < e
  BY DivMod, DivNat
<1>2. d * q \in Int /\ d * q <= e * q
  BY <1>1
<1>3. d * q <= a
  <2>1. PICK x \in Int : x = e * q
    BY <1>1
  <2>2. PICK y \in Int : y = d * q
    BY <1>2
  <2> QED
    BY <1>1, <1>2, <2>1, <2>2
<1>4. (d * q) \div d = q
  BY MultiplesDivide
<1> DEFINE b == d * q
<1>5. b \in Int /\ b <= a /\ b \div d = q
  BY <1>2, <1>3, <1>4
<1> HIDE DEF b
<1>6. b \div d <= a \div d
  BY <1>5, DivGrows
<1> QED
  BY <1>1, <1>5, <1>6

\* Cut off at a hundred percent, or at none.
LEMMA CutOff ==
    ASSUME NEW x \in Int
    PROVE  /\ AtMost100(x) = IF x <= 1000 THEN x ELSE 1000
           /\ AtLeast0(x) = IF x >= 0 THEN x ELSE 0
<1>1. Min({1000, x}) = IF 1000 <= x THEN 1000 ELSE x
  BY MinOfTwo
<1>2. Max({0, x}) = IF 0 >= x THEN 0 ELSE x
  BY MaxOfTwo
<1> QED
  BY <1>1, <1>2 DEF AtMost100, AtLeast0

\* Percentages grow with the part, and are one hundred at most for a part of the whole.
LEMMA PctGrows ==
    ASSUME NEW some \in Int, NEW more \in Int, some <= more, NEW whole \in Nat
    PROVE  /\ Pct(some, whole) \in Int /\ Pct(more, whole) \in Int
           /\ Pct(some, whole) <= Pct(more, whole)
<1>1. CASE whole = 0
  BY <1>1 DEF Pct
<1>2. CASE whole # 0
  <2>1. PICK a \in Int : a = 1000 * some
    OBVIOUS
  <2>2. PICK b \in Int : b = 1000 * more
    OBVIOUS
  <2>3. a <= b
    BY <2>1, <2>2
  <2>4. a \div whole \in Int /\ b \div whole \in Int /\ a \div whole <= b \div whole
    BY <1>2, <2>3, DivGrows
  <2> QED
    BY <1>2, <2>1, <2>2, <2>4 DEF Pct
<1> QED
  BY <1>1, <1>2

\* A percentage is a number; no more than all of the whole is one hundred, in tenths.
LEMMA PctBounds ==
    ASSUME NEW some \in Int, NEW whole \in Nat
    PROVE  /\ Pct(some, whole) \in Int
           /\ some >= 0 => Pct(some, whole) >= 0
           /\ some <= whole => Pct(some, whole) <= 1000
           /\ Pct(0, whole) = 0
<1>1. Pct(0, whole) = 0
  BY DEF Pct
<1>2. Pct(whole, whole) <= 1000 /\ Pct(whole, whole) \in Int
  <2>1. CASE whole = 0
    BY <2>1 DEF Pct
  <2>2. CASE whole # 0
    <3>1. (whole * 1000) \div whole = 1000 /\ whole * 1000 = 1000 * whole
      BY <2>2, MultiplesDivide
    <3> QED
      BY <2>2, <3>1 DEF Pct
  <2> QED
    BY <2>1, <2>2
<1>3. Pct(some, whole) \in Int
  BY PctGrows
<1>4. some >= 0 => Pct(some, whole) >= 0
  BY <1>1, <1>3, PctGrows
<1>5. some <= whole => Pct(some, whole) <= 1000
  <2>1. some <= whole => Pct(some, whole) <= Pct(whole, whole)
    BY PctGrows
  <2> QED
    BY <1>2, <1>3, <2>1
<1> QED
  BY <1>1, <1>3, <1>4, <1>5

\* What the plan says are numbers.
LEMMA PlanIsNumbers ==
    ASSUME plan \in Plan
    PROVE  plan.saved \in Nat /\ plan.target \in Nat /\ plan.sip \in Nat /\ plan.emi \in Nat
<1>1. plan \in [saved : Nat, target : Nat, sip : Nat, emi : Nat]
  BY BookAssumption
<1> QED
  BY <1>1

\* The lever of the savings: it falls with what is spent.
LEMMA SavingsFall ==
    ASSUME NEW income \in Nat, NEW expense \in Nat, NEW more \in Nat, expense <= more
    PROVE  /\ SavingsLever(income, expense) \in Int /\ SavingsLever(income, more) \in Int
           /\ SavingsLever(income, more) <= SavingsLever(income, expense)
           /\ SavingsLever(income, expense) <= 1000
           /\ expense <= income => SavingsLever(income, expense) >= 0
           /\ income = 0 => SavingsLever(income, expense) = 0
<1> DEFINE p == Pct(income - expense, income)
           q == Pct(income - more, income)
<1>0. income - expense \in Int /\ income - more \in Int /\ income - more <= income - expense
  OBVIOUS
<1>1. p \in Int /\ q \in Int /\ q <= p /\ (income - expense >= 0 => p >= 0)
  BY <1>0, PctGrows, PctBounds
<1>2. income = 0 => p = 0
  BY DEF Pct
<1>3. /\ SavingsLever(income, expense) = AtMost100((5 * p) \div 2)
      /\ SavingsLever(income, more) = AtMost100((5 * q) \div 2)
  BY DEF SavingsLever
<1> HIDE DEF p, q
<1>4. /\ (5 * p) \div 2 \in Int /\ (5 * q) \div 2 \in Int /\ (5 * q) \div 2 <= (5 * p) \div 2
      /\ p >= 0 => (5 * p) \div 2 >= 0
      /\ p = 0 => (5 * p) \div 2 = 0
  BY <1>1
<1>5. PICK x \in Int : x = (5 * p) \div 2
  BY <1>4
<1>6. PICK y \in Int : y = (5 * q) \div 2
  BY <1>4
<1>7. /\ AtMost100(x) = IF x <= 1000 THEN x ELSE 1000
      /\ AtMost100(y) = IF y <= 1000 THEN y ELSE 1000
  BY CutOff
<1> QED
  BY <1>1, <1>2, <1>3, <1>4, <1>5, <1>6, <1>7

\* The lever of the budget falls with what is spent, too.
LEMMA BudgetFalls ==
    ASSUME BudgetTypeOK, NEW expense \in Nat, NEW more \in Nat, expense <= more
    PROVE  /\ BudgetLever(expense) \in Int /\ BudgetLever(more) \in Int
           /\ BudgetLever(more) <= BudgetLever(expense)
           /\ BudgetLever(expense) <= 1000 /\ BudgetLever(expense) >= 0
           /\ budget.row.limit = 0 => BudgetLever(expense) = 0
<1>1. PICK limit \in Nat : limit = budget.row.limit
  BY BudgetIsANumber
<1>2. PICK r \in Int, t \in Int : r = Remaining(expense) /\ t = Remaining(more) /\ t <= r /\ r <= limit
  <2>1. limit - expense \in Int /\ limit - more \in Int /\ limit - more <= limit - expense /\ limit - expense <= limit
    OBVIOUS
  <2>2. Remaining(expense) = limit - expense /\ Remaining(more) = limit - more
    BY <1>1 DEF Remaining
  <2> QED
    BY <2>1, <2>2
<1> DEFINE x == Pct(r, limit)
           y == Pct(t, limit)
<1>3. x \in Int /\ y \in Int /\ y <= x /\ x <= 1000
  <2>1. x \in Int /\ y \in Int /\ y <= x
    BY <1>2, PctGrows
  <2>2. x <= 1000
    BY <1>2, PctBounds
  <2> QED
    BY <2>1, <2>2
<1>4. limit = 0 => x = 0
  BY DEF Pct
<1>5. BudgetLever(expense) = AtLeast0(x) /\ BudgetLever(more) = AtLeast0(y)
  BY <1>1, <1>2 DEF BudgetLever
<1> HIDE DEF x, y
<1>6. AtLeast0(x) = (IF x >= 0 THEN x ELSE 0) /\ AtLeast0(y) = IF y >= 0 THEN y ELSE 0
  BY <1>3, CutOff
<1> QED
  BY <1>1, <1>3, <1>4, <1>5, <1>6

\* The emergency fund's falls with what is spent in a month, once something is.
LEMMA EmergencyFalls ==
    ASSUME plan \in Plan, NEW last \in Nat, NEW more \in Nat, last <= more
    PROVE  /\ EmergencyLever(last) \in Int /\ EmergencyLever(more) \in Int
           /\ EmergencyLever(last) >= 0 /\ EmergencyLever(last) <= 1000
           /\ last # 0 => EmergencyLever(more) <= EmergencyLever(last)
           /\ last = 0 => EmergencyLever(last) = 0
<1>1. PICK a \in Nat : a = 1000 * 3 * plan.saved
  BY PlanIsNumbers
<1>2. ASSUME NEW l \in Nat
      PROVE  /\ l = 0 => EmergencyLever(l) = 0
             /\ l # 0 => /\ a \div (6 * l) \in Nat
                         /\ EmergencyLever(l) = IF a \div (6 * l) <= 1000 THEN a \div (6 * l) ELSE 1000
             /\ EmergencyLever(l) \in Int /\ EmergencyLever(l) >= 0 /\ EmergencyLever(l) <= 1000
  <2>1. CASE l = 0
    BY <2>1 DEF EmergencyLever
  <2>2. CASE l # 0
    <3>1. 6 * l \in Nat \ {0}
      BY <2>2
    <3>2. PICK x \in Nat : x = a \div (6 * l)
      BY <3>1, DivNat
    <3>3. AtMost100(x) = IF x <= 1000 THEN x ELSE 1000
      BY CutOff
    <3>4. EmergencyLever(l) = AtMost100(x)
      BY <1>1, <2>2, <3>2 DEF EmergencyLever
    <3> QED
      BY <2>2, <3>2, <3>3, <3>4
  <2> QED
    BY <2>1, <2>2
<1>3. ASSUME last # 0 PROVE EmergencyLever(more) <= EmergencyLever(last)
  <2>1. 6 * last \in Nat \ {0} /\ 6 * more \in Nat \ {0} /\ 6 * last <= 6 * more
    BY <1>3
  <2>2. a \div (6 * more) <= a \div (6 * last)
    BY <2>1, DivShrinks
  <2>3. more # 0
    BY <1>3
  <2>4. /\ a \div (6 * last) \in Nat
        /\ EmergencyLever(last) = IF a \div (6 * last) <= 1000 THEN a \div (6 * last) ELSE 1000
    BY <1>2, <1>3
  <2>5. /\ a \div (6 * more) \in Nat
        /\ EmergencyLever(more) = IF a \div (6 * more) <= 1000 THEN a \div (6 * more) ELSE 1000
    BY <1>2, <2>3
  <2>6. PICK x \in Nat, y \in Nat : x = a \div (6 * last) /\ y = a \div (6 * more)
    BY <2>4, <2>5
  <2> QED
    BY <2>2, <2>4, <2>5, <2>6
<1> QED
  BY <1>2, <1>3

\* The levers that do not depend on what is spent.
LEMMA OtherLevers ==
    ASSUME plan \in Plan, NEW income \in Nat
    PROVE  /\ InvestmentLever(income) \in Int /\ DebtLever(income) \in Int /\ GoalLever \in Int
           /\ InvestmentLever(income) >= 0 /\ DebtLever(income) >= 0 /\ GoalLever >= 0
           /\ InvestmentLever(income) <= 1000 /\ DebtLever(income) <= 1000 /\ GoalLever <= 1000
           /\ income = 0 => InvestmentLever(income) = 0 /\ DebtLever(income) = 0
           /\ plan.saved = 0 => GoalLever = 0
<1>1. plan.saved \in Nat /\ plan.target \in Nat /\ plan.sip \in Nat /\ plan.emi \in Nat
  BY PlanIsNumbers
<1>2. PICK i \in Int : i = Pct(plan.sip, income) /\ i >= 0 /\ (income = 0 => i = 0)
  BY <1>1, PctBounds DEF Pct
<1>3. PICK d \in Int : d = Pct(plan.emi, income) /\ d >= 0
  BY <1>1, PctBounds
<1>4. PICK g \in Int : g = Pct(plan.saved, plan.target) /\ g >= 0 /\ (plan.saved = 0 => g = 0)
  <2>1. PICK saved \in Int, target \in Nat : saved = plan.saved /\ target = plan.target /\ saved >= 0
    BY <1>1
  <2>2. Pct(saved, target) \in Int /\ (saved >= 0 => Pct(saved, target) >= 0)
    BY PctBounds
  <2>3. Pct(0, target) = 0
    BY PctBounds
  <2> QED
    BY <2>1, <2>2, <2>3
<1>5. AtMost100(5 * i) = IF 5 * i <= 1000 THEN 5 * i ELSE 1000
  <2>1. PICK x \in Int : x = 5 * i
    OBVIOUS
  <2> QED
    BY <2>1, CutOff
<1>6. AtLeast0(1000 - 2 * d) = IF 1000 - 2 * d >= 0 THEN 1000 - 2 * d ELSE 0
  <2>1. PICK x \in Int : x = 1000 - 2 * d
    OBVIOUS
  <2> QED
    BY <2>1, CutOff
<1>7. AtMost100(g) = IF g <= 1000 THEN g ELSE 1000
  BY CutOff
<1>8. InvestmentLever(income) = AtMost100(5 * i) /\ GoalLever = AtMost100(g)
  BY <1>2, <1>4 DEF InvestmentLever, GoalLever
<1>9. DebtLever(income) = IF income = 0 THEN 0 ELSE AtLeast0(1000 - 2 * d)
  BY <1>3 DEF DebtLever
<1> QED
  BY <1>2, <1>3, <1>4, <1>5, <1>6, <1>7, <1>8, <1>9

\* A sixth of what six levers add up to, rounded.
LEMMA Sixth ==
    ASSUME NEW a \in Int, NEW b \in Int, a <= b
    PROVE  /\ (a + 30) \div 60 \in Int /\ (a + 30) \div 60 <= (b + 30) \div 60
           /\ a <= 6000 => (a + 30) \div 60 <= 100
           /\ a >= 0 => (a + 30) \div 60 >= 0
           /\ a = 0 => (a + 30) \div 60 = 0
BY DivMod

\* The score of a month, from its levers.
LEMMA CompositeIs ==
    ASSUME BudgetTypeOK, plan \in Plan, NEW income \in Nat, NEW expense \in Nat, NEW last \in Nat
    PROVE  /\ Composite(income, expense, last) <= 100
           /\ expense <= income => Composite(income, expense, last) >= 0
           /\ income = 0 /\ expense = 0 /\ last = 0 /\ budget.row.limit = 0 /\ plan.saved = 0
                => Composite(income, expense, last) = 0
<1>1. PICK s \in Int : /\ s = SavingsLever(income, expense) /\ s <= 1000
                       /\ expense <= income => s >= 0
                       /\ income = 0 => s = 0
  BY SavingsFall
<1>2. PICK b \in Int : /\ b = BudgetLever(expense) /\ b <= 1000 /\ b >= 0
                       /\ budget.row.limit = 0 => b = 0
  BY BudgetFalls
<1>3. PICK e \in Int : e = EmergencyLever(last) /\ e <= 1000 /\ e >= 0 /\ (last = 0 => e = 0)
  BY EmergencyFalls
<1>4. PICK i \in Int, d \in Int : /\ i = InvestmentLever(income) /\ d = DebtLever(income)
                                  /\ i <= 1000 /\ d <= 1000 /\ i >= 0 /\ d >= 0
                                  /\ income = 0 => i = 0 /\ d = 0
  BY OtherLevers
<1>5. PICK g \in Int : g = GoalLever /\ g <= 1000 /\ g >= 0 /\ (plan.saved = 0 => g = 0)
  BY OtherLevers
<1>6. PICK a \in Int : a = s + i + b + e + d + g
  OBVIOUS
<1>7. Composite(income, expense, last) = (a + 30) \div 60
  BY <1>1, <1>2, <1>3, <1>4, <1>5, <1>6 DEF Composite
<1>8. /\ a <= 6000 /\ (expense <= income => a >= 0)
      /\ income = 0 /\ expense = 0 /\ last = 0 /\ budget.row.limit = 0 /\ plan.saved = 0 => a = 0
  BY <1>1, <1>2, <1>3, <1>4, <1>5, <1>6
<1>9. /\ a <= 6000 => (a + 30) \div 60 <= 100
      /\ a >= 0 => (a + 30) \div 60 >= 0
      /\ a = 0 => (a + 30) \div 60 = 0
  BY Sixth
<1> QED
  BY <1>7, <1>8, <1>9

\* It does not rise with what is spent, once something is.
LEMMA CompositeFalls ==
    ASSUME BudgetTypeOK, plan \in Plan, NEW income \in Nat, NEW expense \in Nat, NEW last \in Nat,
           NEW expense2 \in Nat, NEW last2 \in Nat, expense <= expense2, last <= last2, last # 0
    PROVE  Composite(income, expense2, last2) <= Composite(income, expense, last)
<1>1. PICK s \in Int, s2 \in Int : /\ s = SavingsLever(income, expense)
                                   /\ s2 = SavingsLever(income, expense2) /\ s2 <= s
  BY SavingsFall
<1>2. PICK b \in Int, b2 \in Int : b = BudgetLever(expense) /\ b2 = BudgetLever(expense2) /\ b2 <= b
  BY BudgetFalls
<1>3. PICK e \in Int, e2 \in Int : e = EmergencyLever(last) /\ e2 = EmergencyLever(last2) /\ e2 <= e
  BY EmergencyFalls
<1>4. PICK i \in Int, d \in Int, g \in Int :
         i = InvestmentLever(income) /\ d = DebtLever(income) /\ g = GoalLever
  BY OtherLevers
<1>5. PICK a \in Int, a2 \in Int : a = s + i + b + e + d + g /\ a2 = s2 + i + b2 + e2 + d + g
  OBVIOUS
<1>6. Composite(income, expense, last) = (a + 30) \div 60 /\ Composite(income, expense2, last2) = (a2 + 30) \div 60
  BY <1>1, <1>2, <1>3, <1>4, <1>5 DEF Composite
<1>7. a2 <= a
  BY <1>1, <1>2, <1>3, <1>5
<1> QED
  BY <1>6, <1>7, Sixth

\* What was spent in the last months grows with the rows.
LEMMA LastExpensesGrow ==
    ASSUME RowsOK, NEW s \in SUBSET Live, NEW r \in SUBSET s
    PROVE  /\ LastExpenses(r) \in Nat /\ LastExpenses(s) \in Nat
           /\ LastExpenses(r) <= LastExpenses(s)
           /\ \A m \in Months : ExpenseTotal(InMonth(r, m)) <= ExpenseTotal(InMonth(s, m))
<1> DEFINE ending == {n \in Months : n > Len(MonthLength) - 3}
           f == [m \in ending |-> ExpenseTotal(InMonth(r, m))]
           g == [m \in ending |-> ExpenseTotal(InMonth(s, m))]
<1>1. ASSUME NEW m \in Months
      PROVE  /\ ExpenseTotal(InMonth(r, m)) \in Nat /\ ExpenseTotal(InMonth(s, m)) \in Nat
             /\ ExpenseTotal(InMonth(r, m)) <= ExpenseTotal(InMonth(s, m))
  <2> DEFINE less == Expenses(CashRelevant(InMonth(r, m)))
             more == Expenses(CashRelevant(InMonth(s, m)))
  <2>1. less \subseteq more /\ more \in SUBSET Live
    BY DEF Expenses, Income, CashRelevant, InMonth
  <2> HIDE DEF less, more
  <2>2. less \in SUBSET Live /\ more \ less \in SUBSET Live /\ less \union (more \ less) = more
        /\ less \intersect (more \ less) = {}
    BY <2>1
  <2> DEFINE other == more \ less
  <2>3. other \in SUBSET Live /\ less \union other = more /\ less \intersect other = {}
    BY <2>2
  <2> HIDE DEF other
  <2>4. /\ IsFiniteSet(less) /\ \A i \in less : Amounts[i] \in Nat
        /\ SumOf(less) = SumFunctionOnSet(Amounts, less) /\ SumOf(less) \in Nat
    BY <2>2, SumOfRows
  <2>5. /\ IsFiniteSet(other) /\ \A i \in other : Amounts[i] \in Nat
        /\ SumOf(other) = SumFunctionOnSet(Amounts, other) /\ SumOf(other) \in Nat
    BY <2>3, SumOfRows
  <2>6. SumOf(more) = SumFunctionOnSet(Amounts, more) /\ SumOf(more) \in Nat
    BY <2>1, SumOfRows
  <2>7. \A i \in less \union other : Amounts[i] \in Int
    BY <2>4, <2>5
  <2>8. SumFunctionOnSet(Amounts, less \union other)
          = SumFunctionOnSet(Amounts, less) + SumFunctionOnSet(Amounts, other)
    BY <2>3, <2>4, <2>5, <2>7, SumUnion
  <2>9. SumOf(more) = SumOf(less) + SumOf(other)
    BY <2>3, <2>4, <2>5, <2>6, <2>8
  <2> QED
    BY <2>4, <2>5, <2>6, <2>9 DEF ExpenseTotal, less, more
<1>2. IsFiniteSet(ending)
  <2>1. IsFiniteSet(Months) /\ ending \subseteq Months
    BY MonthsFollow, FS_Interval
  <2> QED
    BY <2>1, FS_Subset
<1>3. \A m \in ending : f[m] \in Nat /\ g[m] \in Nat /\ f[m] <= g[m]
  BY <1>1
<1>4. LastExpenses(r) = SumFunctionOnSet(f, ending) /\ LastExpenses(s) = SumFunctionOnSet(g, ending)
  <2>1. DOMAIN f = ending /\ DOMAIN g = ending
    OBVIOUS
  <2> QED
    BY <2>1 DEF LastExpenses, SumFunction
<1> HIDE DEF f, g, ending
<1>5. SumFunctionOnSet(f, ending) \in Nat /\ SumFunctionOnSet(g, ending) \in Nat
  BY <1>2, <1>3, SumNat
<1>6. SumFunctionOnSet(f, ending) <= SumFunctionOnSet(g, ending)
  <2>1. \A m \in ending : f[m] \in Int /\ g[m] \in Int /\ f[m] <= g[m]
    BY <1>3
  <2> QED
    BY <1>2, <2>1, SumMonotone
<1> QED
  BY <1>1, <1>4, <1>5, <1>6

\* Where there are no rows, nothing is spent.
LEMMA NothingSpent ==
    /\ SumOf({}) = 0
    /\ LastExpenses({}) = 0
    /\ \A m \in Months : InMonth({}, m) = {}
    /\ Expenses(CashRelevant({})) = {} /\ Income(CashRelevant({})) = {}
<1>1. SumOf({}) = 0
  BY SumOfNone DEF SumOf, SumFunction
<1>2. /\ \A m \in Months : InMonth({}, m) = {}
      /\ Expenses(CashRelevant({})) = {} /\ Income(CashRelevant({})) = {}
  BY DEF InMonth, Expenses, Income, CashRelevant
<1>3. LastExpenses({}) = 0
  <2> DEFINE ending == {n \in Months : n > Len(MonthLength) - 3}
             f == [m \in ending |-> ExpenseTotal(InMonth({}, m))]
  <2>1. LastExpenses({}) = SumFunctionOnSet(f, ending)
    <3>1. DOMAIN f = ending
      OBVIOUS
    <3> QED
      BY <3>1 DEF LastExpenses, SumFunction
  <2>2. \A m \in ending : f[m] = 0
    BY <1>1, <1>2 DEF ExpenseTotal
  <2>3. IsFiniteSet(ending)
    <3>1. IsFiniteSet(Months) /\ ending \subseteq Months
      BY MonthsFollow, FS_Interval
    <3> QED
      BY <3>1, FS_Subset
  <2> HIDE DEF f, ending
  <2> QED
    BY <2>1, <2>2, <2>3, SumOfZero
<1> QED
  BY <1>1, <1>2, <1>3

\* A month without one of its expenses.
LEMMA WithoutAnExpense ==
    ASSUME RowsOK, NEW m \in Months, NEW i \in Expenses(Live)
    PROVE  /\ IncomeTotal(InMonth(Live \ {i}, m)) = IncomeTotal(InMonth(Live, m))
           /\ i \notin CashRelevant(Live) =>
                \A n \in Months : ExpenseTotal(InMonth(Live \ {i}, n)) = ExpenseTotal(InMonth(Live, n))
<1>1. Income(CashRelevant(InMonth(Live \ {i}, m))) = Income(CashRelevant(InMonth(Live, m)))
  BY DEF Expenses, Income, CashRelevant, InMonth
<1>2. ASSUME NEW n \in Months, i \notin CashRelevant(Live)
      PROVE  Expenses(CashRelevant(InMonth(Live \ {i}, n))) = Expenses(CashRelevant(InMonth(Live, n)))
  BY <1>2 DEF Expenses, Income, CashRelevant, InMonth
<1> QED
  BY <1>1, <1>2 DEF IncomeTotal, ExpenseTotal

\* The score of any books is sound.
LEMMA ScoresAreSound == RowsOK /\ BudgetTypeOK => ScoreIsSound
<1> SUFFICES ASSUME RowsOK, BudgetTypeOK, NEW m \in Months
             PROVE  LET score == Score(Live, m)
                        s == InMonth(Live, m) IN
                    /\ Live = {} /\ budget.row.limit = 0 /\ plan.saved = 0 => score = 0
                    /\ score <= 100
                    /\ ExpenseTotal(s) <= IncomeTotal(s) => score >= 0
                    /\ \A i \in Expenses(Live) :
                         LET without == Score(Live \ {i}, m) IN
                         IF i \in CashRelevant(Live)
                           THEN score <= without \/ LastExpenses(Live \ {i}) = 0
                           ELSE score = without
  BY DEF ScoreIsSound
<1>0. plan \in Plan
  BY DEF RowsOK
<1>1. ASSUME NEW s \in SUBSET Live
      PROVE  /\ IncomeTotal(InMonth(s, m)) \in Nat /\ ExpenseTotal(InMonth(s, m)) \in Nat
             /\ LastExpenses(s) \in Nat
  <2>1. InMonth(s, m) \in SUBSET Live
    BY DEF InMonth
  <2> QED
    BY <2>1, BankAndCards, LastExpensesGrow
<1>2. PICK income \in Nat, expense \in Nat, last \in Nat :
         /\ income = IncomeTotal(InMonth(Live, m)) /\ expense = ExpenseTotal(InMonth(Live, m))
         /\ last = LastExpenses(Live)
  BY <1>1
<1>3. Score(Live, m) = Composite(income, expense, last)
  BY <1>2 DEF Score
<1>4. Live = {} => income = 0 /\ expense = 0 /\ last = 0
  <2> SUFFICES ASSUME Live = {} PROVE income = 0 /\ expense = 0 /\ last = 0
    OBVIOUS
  <2>1. InMonth(Live, m) = {}
    BY NothingSpent
  <2> QED
    BY <1>2, <2>1, NothingSpent DEF IncomeTotal, ExpenseTotal
<1>5. ASSUME NEW i \in Expenses(Live)
      PROVE  IF i \in CashRelevant(Live)
               THEN Score(Live, m) <= Score(Live \ {i}, m) \/ LastExpenses(Live \ {i}) = 0
               ELSE Score(Live, m) = Score(Live \ {i}, m)
  <2> DEFINE r == Live \ {i}
  <2>1. r \in SUBSET Live
    OBVIOUS
  <2>2. IncomeTotal(InMonth(r, m)) = income
    BY <1>2, WithoutAnExpense
  <2>3. i \notin CashRelevant(Live) =>
          \A n \in Months : ExpenseTotal(InMonth(r, n)) = ExpenseTotal(InMonth(Live, n))
    BY WithoutAnExpense
  <2>4. i \notin CashRelevant(Live) => LastExpenses(r) = LastExpenses(Live)
    BY <2>3 DEF LastExpenses
  <2> HIDE DEF r
  <2>5. PICK expense2 \in Nat, last2 \in Nat :
          expense2 = ExpenseTotal(InMonth(r, m)) /\ last2 = LastExpenses(r)
    BY <1>1, <2>1
  <2>6. expense2 <= expense /\ last2 <= last
    BY <1>2, <2>1, <2>5, LastExpensesGrow
  <2>7. Score(r, m) = Composite(income, expense2, last2)
    BY <2>2, <2>5 DEF Score
  <2>8. CASE i \in CashRelevant(Live)
    <3>1. last2 # 0 => Composite(income, expense, last) <= Composite(income, expense2, last2)
      BY <1>0, <2>6, CompositeFalls
    <3> QED
      BY <1>3, <2>5, <2>7, <2>8, <3>1 DEF r
  <2>9. CASE i \notin CashRelevant(Live)
    <3>1. expense2 = expense /\ last2 = last
      BY <1>2, <2>3, <2>4, <2>5, <2>9
    <3> QED
      BY <1>3, <2>7, <2>9, <3>1 DEF r
  <2> QED
    BY <2>8, <2>9
<1>6. /\ Composite(income, expense, last) <= 100
      /\ expense <= income => Composite(income, expense, last) >= 0
      /\ income = 0 /\ expense = 0 /\ last = 0 /\ budget.row.limit = 0 /\ plan.saved = 0
           => Composite(income, expense, last) = 0
  BY <1>0, CompositeIs
<1> QED
  BY <1>2, <1>3, <1>4, <1>5, <1>6

\* The budget goes its own way.
LEMMA BooksKeepTheBudget == BooksSpec => BudgetSpec
<1>1. BooksInit => BudgetInit
  BY DEF BooksInit
<1>2. TransactionsNext => UNCHANGED budgetVars
  BY DEF TransactionsNext, CreateTransaction, ConfirmScan, RecordOnCard, Record, UpdateTransaction, DeleteTransaction
<1>3. [BooksNext]_bookVars => [BudgetNext]_budgetVars
  BY <1>2 DEF BooksNext, bookVars
<1> QED
  BY <1>1, <1>3, PTL DEF BooksSpec, BudgetSpec

\* Every reachable state of the books has its type: no income under a category of expenses.
THEOREM BooksTypeCorrect == BooksSpec => []BooksTypeOK
<1>1. RowsOK /\ BudgetTypeOK => BooksTypeOK
  BY DEF RowsOK, BooksTypeOK
<1> QED
  BY <1>1, RowsStayTyped, BooksKeepTheBudget, BudgetTypeCorrect, PTL

\* Totals, breakdown, calendar and alert agree on any books.
THEOREM ReportsAlwaysAgree == BooksSpec => []ReportsAgree
BY ViewsAgree, RowsStayTyped, BooksKeepTheBudget, BudgetTypeCorrect, PTL

\* The score is sound for any books, budgets and plans.
THEOREM ScoreIsAlwaysSound == BooksSpec => []ScoreIsSound
BY ScoresAreSound, RowsStayTyped, BooksKeepTheBudget, BudgetTypeCorrect, PTL

-----------------------------------------------------------------------------
(* Import jobs.                                                            *)

\* A request in flight is of the kind that its operation names.
LEMMA ImportRequestKind ==
    ASSUME ImportsTypeOK, NEW c \in Client
    PROVE  /\ importReq[c].op = "edit" => importReq[c] \in Edit
           /\ importReq[c].op = "confirm" => importReq[c] \in Confirm
<1>1. importReq[c] \in {NoRequest} \union Edit \union Confirm
  BY DEF ImportsTypeOK
<1> QED
  BY <1>1 DEF NoRequest, Edit, Confirm

\* What an edit makes of the state of a row: the state that was asked for, if that is not
\* the one the edit read.
LEMMA EditedState ==
    ASSUME NEW current, NEW loaded, NEW state
    PROVE  Flush([state |-> current], [state |-> loaded], [state |-> state]).state
             = IF state = loaded THEN current ELSE state
BY DEF Flush

\* The inductive invariant.  Before a job there is nothing to import or to confirm, no row
\* is imported more often than its job was confirmed, and a confirmation in flight read the
\* rows as they are, unless one was edited meanwhile.
NothingBefore ==
    \A j \in Job : jobs[j] = "none" =>
        /\ confirms[j] = 0
        /\ \A l \in Line : imported[j][l] = 0
        /\ ~Confirming(j)

ImportedIfConfirmed == \A j \in Job, l \in Line : imported[j][l] <= confirms[j]

ConfirmsAreFresh ==
    \A c \in Client : importReq[c].op = "confirm" /\ importReq[c].job \notin edited
                        => importReq[c].lines = ToImport(importReq[c].job)

ImportsInv == ImportsTypeOK /\ NothingBefore /\ ImportedIfConfirmed /\ ConfirmsAreFresh /\ ImportedAsReviewed

\* A step that leaves the tables, and sends no confirmation, keeps the invariant.
LEMMA OtherImportKeeps ==
    ASSUME ImportsInv, UNCHANGED <<jobs, rows, imported, confirms, edited>>,
           importReq' \in [Client -> {NoRequest} \union Edit \union Confirm],
           \A c \in Client : importReq'[c].op = "confirm" => importReq'[c] = importReq[c]
    PROVE  ImportsInv'
<1>1. ImportsTypeOK'
  BY DEF ImportsInv, ImportsTypeOK
<1>2. NothingBefore'
  BY DEF ImportsInv, NothingBefore, Confirming
<1>3. ImportedIfConfirmed' /\ ImportedAsReviewed'
  BY DEF ImportsInv, ImportedIfConfirmed, ImportedAsReviewed
<1>4. ConfirmsAreFresh'
  BY DEF ImportsInv, ConfirmsAreFresh, ToImport, RowsOf
<1> QED
  BY <1>1, <1>2, <1>3, <1>4 DEF ImportsInv

\* An upload makes the rows of a job that was not there.
LEMMA UploadFileKeeps ==
    ASSUME ImportsInv, NEW j \in Job, NEW file \in SUBSET Line, UploadFile(j, file)
    PROVE  ImportsInv'
<1>0. /\ ImportsTypeOK /\ jobs[j] = "none"
      /\ confirms[j] = 0 /\ ~Confirming(j) /\ \A l \in Line : imported[j][l] = 0
      /\ UNCHANGED <<imported, importReq, confirms, edited>>
  BY DEF ImportsInv, NothingBefore, UploadFile
<1>1. /\ \A k \in Job : k # j => jobs'[k] = jobs[k] /\ rows'[k] = rows[k]
      /\ jobs'[j] = "parsed"
  BY <1>0 DEF UploadFile, ImportsTypeOK
<1>2. ImportsTypeOK'
  <2>1. [l \in Line |-> IF l \in ParsedLines(file) THEN "ready" ELSE "none"] \in [Line -> RowState \union {"none"}]
    BY DEF RowState
  <2> QED
    BY <1>0, <2>1 DEF UploadFile, ImportsTypeOK
<1>3. NothingBefore'
  BY <1>0, <1>1 DEF ImportsInv, NothingBefore, Confirming
<1>4. ImportedIfConfirmed'
  BY <1>0 DEF ImportsInv, ImportedIfConfirmed
<1>5. ConfirmsAreFresh'
  <2> SUFFICES ASSUME NEW c \in Client, importReq[c].op = "confirm", importReq[c].job \notin edited
               PROVE  importReq[c].lines = ToImport(importReq[c].job)'
    BY <1>0 DEF ConfirmsAreFresh
  <2>1. importReq[c].job \in Job /\ importReq[c].job # j
    BY <1>0, ImportRequestKind DEF Confirming, Confirm
  <2> QED
    BY <1>0, <1>1, <2>1 DEF ImportsInv, ConfirmsAreFresh, ToImport, RowsOf
<1>6. ImportedAsReviewed'
  BY <1>0, <1>1 DEF ImportsInv, ImportedAsReviewed
<1> QED
  BY <1>2, <1>3, <1>4, <1>5, <1>6 DEF ImportsInv

\* A confirmation reads the rows as they are.
LEMMA LoadConfirmKeeps ==
    ASSUME ImportsInv, NEW c \in Client, NEW j \in Job, LoadConfirm(c, j)
    PROVE  ImportsInv'
<1> PICK r : r = [op |-> "confirm", job |-> j, lines |-> ToImport(j)]
  OBVIOUS
<1>0. /\ ImportsTypeOK /\ jobs[j] # "none"
      /\ importReq' = [importReq EXCEPT ![c] = r]
      /\ UNCHANGED <<jobs, rows, imported, confirms, edited>>
  BY DEF ImportsInv, LoadConfirm
<1>1. importReq'[c] = r /\ \A d \in Client : d # c => importReq'[d] = importReq[d]
  BY <1>0 DEF ImportsTypeOK
<1>2. ImportsTypeOK'
  <2>1. r \in Confirm
    BY DEF Confirm, ToImport, RowsOf
  <2> QED
    BY <1>0, <2>1 DEF ImportsTypeOK
<1>3. NothingBefore'
  BY <1>0, <1>1 DEF ImportsInv, NothingBefore, Confirming
<1>4. ImportedIfConfirmed' /\ ImportedAsReviewed'
  BY <1>0 DEF ImportsInv, ImportedIfConfirmed, ImportedAsReviewed
<1>5. ConfirmsAreFresh'
  BY <1>0, <1>1 DEF ImportsInv, ConfirmsAreFresh, ToImport, RowsOf
<1> QED
  BY <1>2, <1>3, <1>4, <1>5 DEF ImportsInv

\* An edit that changes a row makes its job an edited one, unless nothing of the job is
\* confirmed or about to be.
LEMMA CommitEditKeeps ==
    ASSUME ImportsInv, NEW c \in Client, CommitEdit(c)
    PROVE  ImportsInv'
<1> PICK r : r = importReq[c]
  OBVIOUS
<1>0. /\ ImportsTypeOK /\ r.op = "edit"
      /\ importReq' = [importReq EXCEPT ![c] = NoRequest]
      /\ UNCHANGED <<jobs, imported, confirms>>
      /\ edited' = edited \union (IF rows' # rows /\ (Confirming(r.job) \/ confirms[r.job] > 0)
                                    THEN {r.job} ELSE {})
  BY DEF ImportsInv, CommitEdit
<1>1. r.job \in Job /\ r.line \in Line /\ r.state \in RowState
  BY <1>0, ImportRequestKind DEF Edit
<1>2. rows' = [rows EXCEPT ![r.job][r.line] = IF r.state = r.loaded THEN rows[r.job][r.line] ELSE r.state]
  <2>1. rows' = [rows EXCEPT ![r.job][r.line] =
                   Flush([state |-> rows[r.job][r.line]], [state |-> r.loaded], [state |-> r.state]).state]
    BY DEF CommitEdit
  <2>2. Flush([state |-> rows[r.job][r.line]], [state |-> r.loaded], [state |-> r.state]).state
          = IF r.state = r.loaded THEN rows[r.job][r.line] ELSE r.state
    BY EditedState
  <2> QED
    BY <2>1, <2>2
<1>3. \A k \in Job : k # r.job => rows'[k] = rows[k]
  BY <1>0, <1>1, <1>2 DEF ImportsTypeOK
<1>4. importReq'[c] = NoRequest /\ \A d \in Client : d # c => importReq'[d] = importReq[d]
  BY <1>0 DEF ImportsTypeOK
<1>5. ImportsTypeOK'
  <2>1. rows' \in [Job -> [Line -> RowState \union {"none"}]]
    BY <1>0, <1>1, <1>2 DEF ImportsTypeOK
  <2>2. edited' \subseteq Job
    BY <1>0, <1>1 DEF ImportsTypeOK
  <2> QED
    BY <1>0, <2>1, <2>2 DEF ImportsTypeOK
<1>6. NothingBefore'
  BY <1>0, <1>4 DEF ImportsInv, NothingBefore, Confirming, NoRequest
<1>7. ImportedIfConfirmed'
  BY <1>0 DEF ImportsInv, ImportedIfConfirmed
<1>8. ASSUME NEW k \in Job, k \notin edited'
      PROVE  /\ k \notin edited
             /\ rows'[k] = rows[k] \/ (~Confirming(k) /\ confirms[k] = 0)
  <2>1. rows' # rows /\ k = r.job => ~Confirming(k) /\ ~(confirms[k] > 0)
    BY <1>0, <1>8
  <2>2. confirms[k] \in 0 .. MaxConfirms
    BY <1>0 DEF ImportsTypeOK
  <2> QED
    BY <1>0, <1>3, <1>8, <2>1, <2>2, ImportAssumption
<1>9. ConfirmsAreFresh'
  <2> SUFFICES ASSUME NEW d \in Client, NEW k, importReq'[d].op = "confirm", k = importReq'[d].job,
                      k \notin edited'
               PROVE  importReq'[d].lines = ToImport(k)'
    BY DEF ConfirmsAreFresh, ToImport, RowsOf
  <2>1. importReq'[d] = importReq[d]
    BY <1>4 DEF NoRequest
  <2>2. importReq[d].job \in Job
    BY <1>0, <2>1, ImportRequestKind DEF Confirm
  <2>3. Confirming(importReq[d].job)
    BY <2>1 DEF Confirming
  <2>4. rows'[k] = rows[k] /\ k \notin edited /\ importReq[d].job = k
    BY <1>8, <2>1, <2>2, <2>3
  <2> QED
    BY <2>1, <2>4 DEF ImportsInv, ConfirmsAreFresh, ToImport, RowsOf
<1>10. ImportedAsReviewed'
  <2> SUFFICES ASSUME NEW k \in Job, k \notin edited', NEW l \in Line
               PROVE  imported[k][l] = IF rows'[k][l] \in {"ready", "duplicate"} THEN confirms[k] ELSE 0
    BY <1>0 DEF ImportedAsReviewed
  <2>1. imported[k][l] = IF rows[k][l] \in {"ready", "duplicate"} THEN confirms[k] ELSE 0
    BY <1>8 DEF ImportsInv, ImportedAsReviewed
  <2> QED
    BY <1>8, <2>1
<1> QED
  BY <1>5, <1>6, <1>7, <1>9, <1>10 DEF ImportsInv

\* A confirmation imports once more what it read.
LEMMA CommitConfirmKeeps ==
    ASSUME ImportsInv, NEW c \in Client, CommitConfirm(c)
    PROVE  ImportsInv'
<1> PICK r : r = importReq[c]
  OBVIOUS
<1>0. /\ ImportsTypeOK /\ r.op = "confirm" /\ confirms[r.job] < MaxConfirms
      /\ imported' = [imported EXCEPT ![r.job] =
           [l \in Line |-> IF l \in r.lines THEN imported[r.job][l] + 1 ELSE imported[r.job][l]]]
      /\ jobs' = [jobs EXCEPT ![r.job] = "confirmed"]
      /\ confirms' = [confirms EXCEPT ![r.job] = confirms[r.job] + 1]
      /\ importReq' = [importReq EXCEPT ![c] = NoRequest]
      /\ UNCHANGED <<rows, edited>>
  BY DEF ImportsInv, CommitConfirm
<1>1. r.job \in Job /\ r.lines \in SUBSET Line
  BY <1>0, ImportRequestKind DEF Confirm
<1>2. importReq'[c] = NoRequest /\ \A d \in Client : d # c => importReq'[d] = importReq[d]
  BY <1>0 DEF ImportsTypeOK
<1>3. /\ confirms'[r.job] = confirms[r.job] + 1
      /\ \A l \in Line : imported'[r.job][l] = IF l \in r.lines THEN imported[r.job][l] + 1 ELSE imported[r.job][l]
      /\ jobs'[r.job] = "confirmed"
      /\ \A k \in Job : k # r.job => jobs'[k] = jobs[k] /\ confirms'[k] = confirms[k] /\ imported'[k] = imported[k]
  BY <1>0, <1>1 DEF ImportsTypeOK
<1>4. \A l \in Line : /\ imported[r.job][l] \in Nat /\ imported[r.job][l] <= confirms[r.job]
                      /\ confirms[r.job] \in Nat /\ MaxConfirms \in Nat
  BY <1>1, ImportAssumption DEF ImportsInv, ImportsTypeOK, ImportedIfConfirmed
<1>5. ImportsTypeOK'
  <2>1. \A l \in Line : imported'[r.job][l] \in 0 .. MaxConfirms
    BY <1>0, <1>3, <1>4
  <2>2. [l \in Line |-> IF l \in r.lines THEN imported[r.job][l] + 1 ELSE imported[r.job][l]] \in [Line -> 0 .. MaxConfirms]
    BY <1>0, <1>4
  <2>3. confirms' \in [Job -> 0 .. MaxConfirms]
    <3>1. confirms[r.job] + 1 \in 0 .. MaxConfirms
      BY <1>0, <1>1, ImportAssumption DEF ImportsTypeOK
    <3> QED
      BY <1>0, <3>1 DEF ImportsTypeOK
  <2>4. imported' \in [Job -> [Line -> 0 .. MaxConfirms]]
    BY <1>0, <2>2 DEF ImportsTypeOK
  <2> QED
    BY <1>0, <2>3, <2>4 DEF ImportsTypeOK
<1>6. NothingBefore'
  <2> SUFFICES ASSUME NEW k \in Job, jobs'[k] = "none"
               PROVE  /\ confirms'[k] = 0
                      /\ \A l \in Line : imported'[k][l] = 0
                      /\ ~Confirming(k)'
    BY DEF NothingBefore
  <2>1. k # r.job /\ jobs[k] = "none"
    BY <1>3
  <2> QED
    BY <1>2, <1>3, <2>1 DEF ImportsInv, NothingBefore, Confirming, NoRequest
<1>7. ImportedIfConfirmed'
  <2>1. \A l \in Line : imported'[r.job][l] <= confirms'[r.job]
    BY <1>3, <1>4
  <2> QED
    BY <1>3, <2>1 DEF ImportsInv, ImportedIfConfirmed
<1>8. ConfirmsAreFresh'
  BY <1>0, <1>2 DEF ImportsInv, ConfirmsAreFresh, ToImport, RowsOf, NoRequest
<1>9. ImportedAsReviewed'
  <2> SUFFICES ASSUME NEW k \in Job \ edited, NEW l \in Line
               PROVE  imported'[k][l] = IF rows[k][l] \in {"ready", "duplicate"} THEN confirms'[k] ELSE 0
    BY <1>0 DEF ImportedAsReviewed
  <2>1. imported[k][l] = IF rows[k][l] \in {"ready", "duplicate"} THEN confirms[k] ELSE 0
    BY DEF ImportsInv, ImportedAsReviewed
  <2>2. CASE k = r.job
    <3>1. r.lines = ToImport(k)
      BY <1>0, <2>2 DEF ImportsInv, ConfirmsAreFresh
    <3>2. l \in r.lines <=> rows[k][l] \in {"ready", "duplicate"}
      <4>1. rows[k][l] \in {"ready", "duplicate", "ignored", "none"}
        BY <1>0 DEF ImportsTypeOK, RowState
      <4> QED
        BY <3>1, <4>1 DEF ToImport, RowsOf
    <3> QED
      BY <1>3, <2>1, <2>2, <3>2
  <2>3. CASE k # r.job
    BY <1>3, <2>1, <2>3
  <2> QED
    BY <2>2, <2>3
<1> QED
  BY <1>5, <1>6, <1>7, <1>8, <1>9 DEF ImportsInv

\* Every step keeps the invariant.
LEMMA ImportsInvStep == ImportsInv /\ [ImportsNext]_importVars => ImportsInv'
<1> SUFFICES ASSUME ImportsInv, [ImportsNext]_importVars PROVE ImportsInv'
  OBVIOUS
<1>0. /\ importReq \in [Client -> {NoRequest} \union Edit \union Confirm]
      /\ rows \in [Job -> [Line -> RowState \union {"none"}]]
  BY DEF ImportsInv, ImportsTypeOK
<1>1. ASSUME NEW c \in Client, NEW j \in Job, NEW line \in Line, NEW state \in RowState,
             LoadEdit(c, j, line, state)
      PROVE  ImportsInv'
  <2> PICK r : r = [op |-> "edit", job |-> j, line |-> line, loaded |-> rows[j][line], state |-> state]
    OBVIOUS
  <2>1. rows[j][line] \in RowState
    BY <1>0, <1>1 DEF LoadEdit, RowsOf
  <2>2. r \in Edit /\ r.op = "edit"
    BY <2>1 DEF Edit
  <2>3. importReq' = [importReq EXCEPT ![c] = r] /\ UNCHANGED <<jobs, rows, imported, confirms, edited>>
    BY <1>1 DEF LoadEdit
  <2>4. importReq' \in [Client -> {NoRequest} \union Edit \union Confirm]
    BY <1>0, <2>2, <2>3
  <2>5. \A d \in Client : importReq'[d].op = "confirm" => importReq'[d] = importReq[d]
    BY <1>0, <2>2, <2>3
  <2> QED
    BY <2>3, <2>4, <2>5, OtherImportKeeps
<1>2. ASSUME NEW c \in Client, RollBackImport(c) PROVE ImportsInv'
  <2>1. importReq' = [importReq EXCEPT ![c] = NoRequest] /\ UNCHANGED <<jobs, rows, imported, confirms, edited>>
    BY <1>2 DEF RollBackImport
  <2>2. \A d \in Client : importReq'[d].op = "confirm" => importReq'[d] = importReq[d]
    BY <1>0, <2>1 DEF NoRequest
  <2> QED
    BY <1>0, <2>1, <2>2, OtherImportKeeps
<1>3. CASE UNCHANGED importVars
  BY <1>0, <1>3, OtherImportKeeps DEF importVars
<1>4. CASE ImportsNext
  BY <1>1, <1>2, <1>4, UploadFileKeeps, LoadConfirmKeeps, CommitEditKeeps, CommitConfirmKeeps DEF ImportsNext
<1> QED
  BY <1>3, <1>4

\* The invariant holds in every reachable state.
LEMMA ImportsStay == ImportsSpec => []ImportsInv
<1>1. ImportsInit => ImportsInv
  <2> SUFFICES ASSUME ImportsInit PROVE ImportsInv
    OBVIOUS
  <2>1. \A c \in Client : importReq[c].op # "confirm"
    BY DEF ImportsInit, NoRequest
  <2>2. ImportsTypeOK
    BY ImportAssumption DEF ImportsInit, ImportsTypeOK
  <2>3. NothingBefore /\ ConfirmsAreFresh
    BY <2>1 DEF ImportsInit, NothingBefore, Confirming, ConfirmsAreFresh
  <2>4. ImportedIfConfirmed /\ ImportedAsReviewed
    BY DEF ImportsInit, ImportedIfConfirmed, ImportedAsReviewed
  <2> QED
    BY <2>2, <2>3, <2>4 DEF ImportsInv
<1> QED
  BY <1>1, ImportsInvStep, PTL DEF ImportsSpec

\* Every reachable state of the import jobs has its type: no row is imported more often
\* than its job may be confirmed.
THEOREM ImportsTypeCorrect == ImportsSpec => []ImportsTypeOK
<1>1. ImportsInv => ImportsTypeOK
  BY DEF ImportsInv
<1> QED
  BY <1>1, ImportsStay, PTL

\* The books agree with the review, unless a row was edited while, or after, its job was
\* confirmed.
THEOREM BooksAgreeWithReview == ImportsSpec => []ImportedAsReviewed
<1>1. ImportsInv => ImportedAsReviewed
  BY DEF ImportsInv
<1> QED
  BY <1>1, ImportsStay, PTL

-----------------------------------------------------------------------------
(* Receipts.                                                               *)

\* A request in flight is an upload.
LEMMA UploadKind ==
    ASSUME ReceiptsTypeOK, NEW c \in Client
    PROVE  /\ receiptReq[c].op = "upload" => receiptReq[c] \in Upload
           /\ receiptReq[c] # NoRequest => receiptReq[c].op = "upload"
<1>1. receiptReq[c] \in {NoRequest} \union Upload
  BY DEF ReceiptsTypeOK
<1> QED
  BY <1>1 DEF NoRequest, Upload

\* What is kept of an upload that is not alone any more, ...
LEMMA UploadLosesLead ==
    ASSUME NEW r \in Upload, NEW s, s = [r EXCEPT !.alone = FALSE]
    PROVE  s \in Upload /\ ~s.alone /\ s.txn = r.txn
<1>1. s \in Upload
  BY DEF Upload
<1>2. ~s.alone /\ s.txn = r.txn
  BY DEF Upload
<1> QED
  BY <1>1, <1>2

\* ... or has written.
LEMMA UploadWrites ==
    ASSUME NEW r \in Upload, NEW s, s = [r EXCEPT !.at = "written"]
    PROVE  /\ s \in Upload /\ s.at = "written" /\ s.op = r.op /\ s.txn = r.txn /\ s.ext = r.ext
           /\ s.picture = r.picture /\ s.path = r.path /\ s.alone = r.alone
<1>1. s \in Upload
  BY DEF Upload
<1>2. s.at = "written" /\ s.op = r.op /\ s.txn = r.txn /\ s.ext = r.ext
  BY DEF Upload
<1>3. s.picture = r.picture /\ s.path = r.path /\ s.alone = r.alone
  BY DEF Upload
<1> QED
  BY <1>1, <1>2, <1>3

\* The inductive invariant.  An upload that is alone knows the old path, and what it wrote
\* is there; ...
AloneIsRight(c) ==
    LET r == receiptReq[c] IN
    r.op = "upload" /\ r.alone =>
        /\ Uploads(r.txn) = {c}
        /\ r.path = receipts[r.txn].path
        /\ r.at = "written" => disk[r.txn][r.ext] = r.picture

\* ... uploads of a transaction that is not disturbed are alone, and until they write, the
\* receipt is there.
Undisturbed(t) ==
    /\ \A c \in Uploads(t) : receiptReq[c].alone
    /\ receipts[t].path # Nothing /\ (\A c \in Uploads(t) : receiptReq[c].at = "loaded")
         => Download(t) = attached[t]

ReceiptsInv ==
    /\ ReceiptsTypeOK
    /\ \A c \in Client : AloneIsRight(c)
    /\ \A t \in Txn \ disturbed : Undisturbed(t)

\* What a step that ends or begins no upload of a transaction, and leaves its row and its
\* files, does to what is known of it.
LEMMA OtherTxnKeeps ==
    ASSUME ReceiptsInv, NEW t,
           \A c \in Client : receiptReq'[c] = receiptReq[c] \/ (c \notin Uploads(t) /\ c \notin Uploads(t)'),
           receipts'[t].path = receipts[t].path, disk'[t] = disk[t], attached'[t] = attached[t]
    PROVE  /\ t \in Txn \ disturbed => Undisturbed(t)'
           /\ \A c \in Uploads(t)' : AloneIsRight(c)'
<1>1. Uploads(t)' = Uploads(t)
  BY DEF Uploads
<1>2. \A c \in Uploads(t) : receiptReq'[c] = receiptReq[c] /\ receiptReq[c].txn = t
  BY DEF Uploads
<1>3. t \in Txn \ disturbed => Undisturbed(t)'
  BY <1>1, <1>2 DEF ReceiptsInv, Undisturbed, Download
<1>4. ASSUME NEW c \in Uploads(t) PROVE AloneIsRight(c)'
  <2>1. AloneIsRight(c)
    BY DEF ReceiptsInv, Uploads
  <2> QED
    BY <1>1, <1>2, <2>1 DEF AloneIsRight
<1> QED
  BY <1>1, <1>3, <1>4

\* An upload begins: from now on no upload of its transaction is alone, but for the first.
LEMMA LoadUploadKeeps ==
    ASSUME ReceiptsInv, NEW c \in Client, NEW t \in Txn, NEW ext \in Extension, NEW picture \in Picture,
           LoadUpload(c, t, ext, picture)
    PROVE  ReceiptsInv'
<1> PICK r : r = [op |-> "upload", at |-> "loaded", txn |-> t, ext |-> ext, picture |-> picture,
                  path |-> receipts[t].path, alone |-> Uploads(t) = {}]
  OBVIOUS
<1> PICK others : others = Uploads(t)
  OBVIOUS
<1>0. /\ ReceiptsTypeOK /\ receiptReq[c] = NoRequest
      /\ UNCHANGED <<receipts, disk, attached>>
      /\ disturbed' = disturbed \union (IF others = {} THEN {} ELSE {t})
      /\ c \notin others
  BY DEF ReceiptsInv, LoadUpload, Uploads
<1>1. /\ r \in Upload
      /\ r # NoRequest
  <2>1. receipts[t].path \in Extension \union {Nothing}
    BY <1>0 DEF ReceiptsTypeOK
  <2> QED
    BY <2>1 DEF Upload, NoRequest
<1>2. \A d \in others : /\ d \in Client /\ receiptReq[d] \in Upload /\ receiptReq[d].txn = t
                        /\ receiptReq[d].op = "upload"
  BY <1>0, UploadKind DEF Uploads
<1>3. receiptReq' = [d \in Client |->
            CASE d = c -> r
              [] d \in others -> [receiptReq[d] EXCEPT !.alone = FALSE]
              [] OTHER -> receiptReq[d]]
  BY DEF LoadUpload
<1>4. receiptReq'[c] = r
  BY <1>0, <1>3
<1>5. \A d \in others : receiptReq'[d] = [receiptReq[d] EXCEPT !.alone = FALSE]
  BY <1>0, <1>2, <1>3
<1>6. \A d \in Client : d # c /\ d \notin others => receiptReq'[d] = receiptReq[d]
  BY <1>3
<1>7. \A d \in others : receiptReq'[d] \in Upload /\ ~receiptReq'[d].alone /\ receiptReq'[d].txn = t
  BY <1>2, <1>5, UploadLosesLead
<1>8. ReceiptsTypeOK'
  <2>1. \A d \in Client : receiptReq'[d] \in {NoRequest} \union Upload
    BY <1>0, <1>1, <1>4, <1>6, <1>7 DEF ReceiptsTypeOK
  <2>2. receiptReq' \in [Client -> {NoRequest} \union Upload]
    BY <1>3, <2>1
  <2> QED
    BY <1>0, <2>2 DEF ReceiptsTypeOK
<1>9. Uploads(t)' = others \union {c}
  <2>1. \A d \in others : receiptReq'[d] # NoRequest
    BY <1>7 DEF Upload, NoRequest
  <2>2. \A d \in Client : d \in Uploads(t)' <=> receiptReq'[d] # NoRequest /\ receiptReq'[d].txn = t
    BY DEF Uploads
  <2>3. r.txn = t
    OBVIOUS
  <2>4. \A d \in Client : d # c /\ d \notin others => d \notin Uploads(t)'
    BY <1>6 DEF Uploads
  <2>5. Uploads(t)' \subseteq Client
    BY DEF Uploads
  <2> QED
    BY <1>1, <1>2, <1>4, <1>7, <2>1, <2>2, <2>3, <2>4, <2>5
<1>10. ASSUME NEW u, u # t
       PROVE  /\ u \in Txn \ disturbed => Undisturbed(u)'
              /\ \A d \in Uploads(u)' : AloneIsRight(d)'
  <2>1. \A d \in Client : receiptReq'[d] = receiptReq[d] \/ (d \notin Uploads(u) /\ d \notin Uploads(u)')
    BY <1>0, <1>2, <1>4, <1>6, <1>7, <1>10 DEF Uploads
  <2> QED
    BY <1>0, <2>1, OtherTxnKeeps
<1>11. AloneIsRight(c)'
  <2>1. r.alone => Uploads(r.txn)' = {c}
    BY <1>9
  <2>2. r.path = receipts[r.txn].path /\ r.at # "written"
    OBVIOUS
  <2> QED
    BY <1>0, <1>4, <2>1, <2>2 DEF AloneIsRight
<1>12. \A d \in others : AloneIsRight(d)'
  BY <1>7 DEF AloneIsRight
<1>13. ASSUME NEW d \in Client PROVE AloneIsRight(d)'
  <2>1. CASE receiptReq'[d].op # "upload"
    BY <2>1 DEF AloneIsRight
  <2>2. CASE receiptReq'[d].op = "upload"
    <3>1. PICK u : u = receiptReq'[d].txn
      OBVIOUS
    <3>2. d \in Uploads(u)'
      BY <2>2, <3>1 DEF Uploads, NoRequest
    <3> QED
      BY <1>9, <1>10, <1>11, <1>12, <3>2
  <2> QED
    BY <2>1, <2>2
<1>14. ASSUME t \notin disturbed' PROVE Undisturbed(t)'
  <2>1. others = {} /\ t \notin disturbed
    BY <1>0, <1>14
  <2>2. receipts[t].path # Nothing => Download(t) = attached[t]
    BY <2>1 DEF ReceiptsInv, Undisturbed
  <2>3. r.alone
    BY <2>1
  <2> QED
    BY <1>0, <1>4, <1>9, <2>1, <2>2, <2>3 DEF Undisturbed, Download
<1>15. \A u \in Txn \ disturbed' : Undisturbed(u)'
  BY <1>0, <1>10, <1>14
<1> QED
  BY <1>8, <1>13, <1>15 DEF ReceiptsInv

\* What is left to show of a step that touches the transaction `t` alone, and the request
\* `c` about it.
LEMMA StepOfTxn ==
    ASSUME ReceiptsInv, ReceiptsTypeOK', NEW c \in Client, NEW t \in Txn,
           receiptReq[c] # NoRequest, receiptReq[c].txn = t,
           receiptReq'[c] # NoRequest => receiptReq'[c].txn = t,
           \A d \in Client : d # c => receiptReq'[d] = receiptReq[d],
           \A u \in Txn : u # t => receipts'[u].path = receipts[u].path /\ disk'[u] = disk[u]
                                   /\ attached'[u] = attached[u] /\ (u \notin disturbed' => u \notin disturbed),
           t \notin disturbed' => Undisturbed(t)',
           \A d \in Uploads(t)' : AloneIsRight(d)'
    PROVE  ReceiptsInv'
<1>1. ASSUME NEW u \in Txn, u # t
      PROVE  /\ u \in Txn \ disturbed => Undisturbed(u)'
             /\ \A d \in Uploads(u)' : AloneIsRight(d)'
  <2>1. c \notin Uploads(u) /\ c \notin Uploads(u)'
    BY <1>1 DEF Uploads
  <2>2. \A d \in Client : receiptReq'[d] = receiptReq[d] \/ (d \notin Uploads(u) /\ d \notin Uploads(u)')
    BY <2>1
  <2> QED
    BY <1>1, <2>2, OtherTxnKeeps
<1>2. ASSUME NEW d \in Client PROVE AloneIsRight(d)'
  <2>1. CASE receiptReq'[d].op # "upload"
    BY <2>1 DEF AloneIsRight
  <2>2. CASE receiptReq'[d].op = "upload"
    <3>1. PICK u : u = receiptReq'[d].txn
      OBVIOUS
    <3>2. d \in Uploads(u)'
      BY <2>2, <3>1 DEF Uploads, NoRequest
    <3>3. u \in Txn
      <4>1. receiptReq'[d] \in {NoRequest} \union Upload
        BY DEF ReceiptsTypeOK
      <4> QED
        BY <2>2, <3>1, <4>1 DEF Upload, NoRequest
    <3> QED
      BY <1>1, <3>2, <3>3
  <2> QED
    BY <2>1, <2>2
<1>3. \A u \in Txn \ disturbed' : Undisturbed(u)'
  BY <1>1
<1> QED
  BY <1>2, <1>3 DEF ReceiptsInv

\* What is known of an upload in flight.
LEMMA UploadKnows ==
    ASSUME ReceiptsInv, NEW c \in Client, NEW r, r = receiptReq[c], r.op = "upload"
    PROVE  /\ r \in Upload /\ r # NoRequest /\ r.txn \in Txn /\ r.ext \in Extension /\ r.picture \in Picture
           /\ r.path \in Extension \union {Nothing} /\ r.alone \in BOOLEAN
           /\ c \in Uploads(r.txn)
           /\ r.alone => /\ Uploads(r.txn) = {c} /\ r.path = receipts[r.txn].path
                         /\ r.at = "written" => disk[r.txn][r.ext] = r.picture
           /\ r.txn \notin disturbed => Undisturbed(r.txn) /\ r.alone
<1>1. r \in Upload /\ r # NoRequest
  BY UploadKind DEF ReceiptsInv, NoRequest
<1>2. r.txn \in Txn /\ r.ext \in Extension /\ r.picture \in Picture /\ r.path \in Extension \union {Nothing} /\ r.alone \in BOOLEAN
  BY <1>1 DEF Upload
<1>3. c \in Uploads(r.txn)
  BY <1>1 DEF Uploads
<1>4. r.txn \notin disturbed => Undisturbed(r.txn)
  BY <1>2 DEF ReceiptsInv
<1> QED
  BY <1>1, <1>2, <1>3, <1>4 DEF ReceiptsInv, AloneIsRight, Undisturbed

\* The upload writes: its file is there, and its old one may be gone.
LEMMA WriteReceiptKeeps ==
    ASSUME ReceiptsInv, NEW c \in Client, WriteReceipt(c)
    PROVE  ReceiptsInv'
<1> PICK r : r = receiptReq[c]
  OBVIOUS
<1>0. /\ r.op = "upload" /\ r.at = "loaded"
      /\ disk' = [disk EXCEPT ![r.txn] = Replaced(disk[r.txn], r.path, r.ext, r.picture)]
      /\ receiptReq' = [receiptReq EXCEPT ![c] = [r EXCEPT !.at = "written"]]
      /\ UNCHANGED <<receipts, attached, disturbed>>
  BY DEF WriteReceipt
<1> PICK t : t = r.txn
  OBVIOUS
<1> PICK w : w = [r EXCEPT !.at = "written"]
  OBVIOUS
<1>1. /\ r \in Upload /\ r # NoRequest /\ t \in Txn /\ r.ext \in Extension /\ r.picture \in Picture
      /\ c \in Uploads(t)
      /\ r.alone => Uploads(t) = {c} /\ r.path = receipts[t].path
      /\ t \notin disturbed => Undisturbed(t) /\ r.alone
  BY <1>0, UploadKnows
<1>2. /\ w \in Upload /\ w.at = "written" /\ w.txn = t /\ w.ext = r.ext /\ w.picture = r.picture
      /\ w.path = r.path /\ w.alone = r.alone /\ w.op = "upload" /\ w # NoRequest
  <2>1. /\ w \in Upload /\ w.at = "written" /\ w.op = r.op /\ w.txn = r.txn /\ w.ext = r.ext
        /\ w.picture = r.picture /\ w.path = r.path /\ w.alone = r.alone
    BY <1>1, UploadWrites
  <2>2. w # NoRequest
    BY <2>1 DEF Upload, NoRequest
  <2> QED
    BY <1>0, <2>1, <2>2
<1>3. receiptReq'[c] = w /\ \A d \in Client : d # c => receiptReq'[d] = receiptReq[d]
  BY <1>0 DEF ReceiptsInv, ReceiptsTypeOK
<1>4. Uploads(t)' = Uploads(t)
  <2>1. Uploads(t) = {d \in Client : receiptReq[d] # NoRequest /\ receiptReq[d].txn = t}
    BY DEF Uploads
  <2>2. Uploads(t)' = {d \in Client : receiptReq'[d] # NoRequest /\ receiptReq'[d].txn = t}
    BY DEF Uploads
  <2>3. \A d \in Client : /\ receiptReq'[d] # NoRequest <=> receiptReq[d] # NoRequest
                          /\ receiptReq'[d].txn = receiptReq[d].txn
    BY <1>1, <1>2, <1>3
  <2> QED
    BY <2>1, <2>2, <2>3
<1>5. disk'[t][r.ext] = r.picture /\ \A u \in Txn : u # t => disk'[u] = disk[u]
  BY <1>0, <1>1 DEF ReceiptsInv, ReceiptsTypeOK, Replaced
<1>6. ReceiptsTypeOK'
  <2>1. Replaced(disk[t], r.path, r.ext, r.picture) \in [Extension -> Picture \union {Nothing}]
    BY <1>1 DEF ReceiptsInv, ReceiptsTypeOK, Replaced
  <2>2. disk' \in [Txn -> [Extension -> Picture \union {Nothing}]]
    BY <1>0, <1>1, <2>1 DEF ReceiptsInv, ReceiptsTypeOK
  <2>3. receiptReq' \in [Client -> {NoRequest} \union Upload]
    BY <1>0, <1>2 DEF ReceiptsInv, ReceiptsTypeOK
  <2> QED
    BY <1>0, <2>2, <2>3 DEF ReceiptsInv, ReceiptsTypeOK
<1>7. ASSUME NEW d \in Uploads(t)' PROVE AloneIsRight(d)'
  <2>1. CASE d = c
    BY <1>0, <1>1, <1>2, <1>3, <1>4, <1>5, <2>1 DEF AloneIsRight
  <2>2. CASE d # c
    <3>1. d \in Uploads(t) /\ receiptReq'[d] = receiptReq[d] /\ receiptReq[d].txn = t
      BY <1>3, <1>4, <2>2 DEF Uploads
    <3>2. ~(receiptReq[d].op = "upload" /\ receiptReq[d].alone)
      BY <1>1, <2>2, <3>1 DEF ReceiptsInv, AloneIsRight, Uploads
    <3> QED
      BY <3>1, <3>2 DEF AloneIsRight
  <2> QED
    BY <2>1, <2>2
<1>8. ASSUME t \notin disturbed PROVE Undisturbed(t)'
  <2>1. r.alone /\ Uploads(t)' = {c}
    BY <1>1, <1>4, <1>8
  <2>2. receiptReq'[c].alone /\ receiptReq'[c].at = "written"
    BY <1>2, <1>3, <2>1
  <2> QED
    BY <2>1, <2>2 DEF Undisturbed
<1> QED
  BY <1>0, <1>1, <1>2, <1>3, <1>5, <1>6, <1>7, <1>8, StepOfTxn

\* A process that dies between the two leaves a disturbed transaction.
LEMMA DieUnlinkingKeeps ==
    ASSUME ReceiptsInv, NEW c \in Client, DieUnlinking(c)
    PROVE  ReceiptsInv'
<1> PICK r : r = receiptReq[c]
  OBVIOUS
<1> PICK t : t = r.txn
  OBVIOUS
<1>0. /\ r.op = "upload" /\ r.path # Nothing
      /\ disk' = [disk EXCEPT ![t][r.path] = Nothing]
      /\ receiptReq' = [receiptReq EXCEPT ![c] = NoRequest]
      /\ disturbed' = disturbed \union {t}
      /\ UNCHANGED <<receipts, attached>>
  BY DEF DieUnlinking
<1>1. /\ r # NoRequest /\ t \in Txn /\ r.path \in Extension \union {Nothing} /\ c \in Uploads(t)
      /\ r.alone => Uploads(t) = {c}
  BY <1>0, UploadKnows
<1>2. receiptReq'[c] = NoRequest /\ \A d \in Client : d # c => receiptReq'[d] = receiptReq[d]
  BY <1>0 DEF ReceiptsInv, ReceiptsTypeOK
<1>3. \A u \in Txn : u # t => disk'[u] = disk[u]
  BY <1>0, <1>1 DEF ReceiptsInv, ReceiptsTypeOK
<1>4. ReceiptsTypeOK'
  <2>1. disk' \in [Txn -> [Extension -> Picture \union {Nothing}]]
    BY <1>0, <1>1 DEF ReceiptsInv, ReceiptsTypeOK
  <2> QED
    BY <1>0, <1>1, <2>1 DEF ReceiptsInv, ReceiptsTypeOK
<1>5. ASSUME NEW d \in Uploads(t)' PROVE AloneIsRight(d)'
  <2>1. d # c /\ d \in Uploads(t) /\ receiptReq'[d] = receiptReq[d] /\ receiptReq[d].txn = t
    BY <1>2 DEF Uploads
  <2>2. ~(receiptReq[d].op = "upload" /\ receiptReq[d].alone)
    BY <1>1, <2>1 DEF ReceiptsInv, AloneIsRight, Uploads
  <2> QED
    BY <2>1, <2>2 DEF AloneIsRight
<1> QED
  BY <1>0, <1>1, <1>2, <1>3, <1>4, <1>5, StepOfTxn

\* An upload that fails disturbs its transaction if it has written.
LEMMA RollBackUploadKeeps ==
    ASSUME ReceiptsInv, NEW c \in Client, RollBackUpload(c)
    PROVE  ReceiptsInv'
<1> PICK r : r = receiptReq[c]
  OBVIOUS
<1> PICK t : t = r.txn
  OBVIOUS
<1>0. /\ r.op = "upload"
      /\ receiptReq' = [receiptReq EXCEPT ![c] = NoRequest]
      /\ disturbed' = disturbed \union (IF r.at = "written" THEN {t} ELSE {})
      /\ UNCHANGED <<receipts, disk, attached>>
  BY DEF RollBackUpload
<1>1. /\ r \in Upload /\ r # NoRequest /\ t \in Txn /\ c \in Uploads(t)
      /\ r.alone => Uploads(t) = {c}
      /\ t \notin disturbed => Undisturbed(t) /\ r.alone
  BY <1>0, UploadKnows
<1>2. receiptReq'[c] = NoRequest /\ \A d \in Client : d # c => receiptReq'[d] = receiptReq[d]
  BY <1>0 DEF ReceiptsInv, ReceiptsTypeOK
<1>3. ReceiptsTypeOK'
  BY <1>0, <1>1 DEF ReceiptsInv, ReceiptsTypeOK
<1>4. ASSUME NEW d \in Uploads(t)' PROVE AloneIsRight(d)'
  <2>1. d # c /\ d \in Uploads(t) /\ receiptReq'[d] = receiptReq[d] /\ receiptReq[d].txn = t
    BY <1>2 DEF Uploads
  <2>2. ~(receiptReq[d].op = "upload" /\ receiptReq[d].alone)
    BY <1>1, <2>1 DEF ReceiptsInv, AloneIsRight, Uploads
  <2> QED
    BY <2>1, <2>2 DEF AloneIsRight
<1>5. ASSUME t \notin disturbed' PROVE Undisturbed(t)'
  <2>1. t \notin disturbed /\ r.at = "loaded"
    BY <1>0, <1>1, <1>5 DEF Upload
  <2>2. Uploads(t) = {c} /\ Undisturbed(t)
    BY <1>1, <2>1
  <2>3. receipts[t].path # Nothing => Download(t) = attached[t]
    BY <2>1, <2>2 DEF Undisturbed
  <2>4. Uploads(t)' = {}
    BY <1>2, <2>2 DEF Uploads
  <2> QED
    BY <1>0, <2>3, <2>4 DEF Undisturbed, Download
<1> QED
  BY <1>0, <1>1, <1>2, <1>3, <1>4, <1>5, StepOfTxn

\* What an upload leaves of the row that it read: the new path, ...
LEMMA PathSet ==
    ASSUME NEW old, NEW ext
    PROVE  [[deleted |-> FALSE, path |-> old] EXCEPT !.path = ext] = [deleted |-> FALSE, path |-> ext]
<1> PICK wrote : wrote = [[deleted |-> FALSE, path |-> old] EXCEPT !.path = ext]
  OBVIOUS
<1>1. wrote = [col \in {"deleted", "path"} |-> wrote[col]]
  OBVIOUS
<1>2. wrote["deleted"] = FALSE /\ wrote["path"] = ext
  OBVIOUS
<1>3. wrote = [deleted |-> wrote["deleted"], path |-> wrote["path"]]
  BY <1>1
<1> QED
  BY <1>2, <1>3

\* ... and so the column names the new file if it differs; what else is in the row stays.
LEMMA PathWritten ==
    ASSUME NEW deleted, NEW path, NEW old, NEW ext
    PROVE  Flush([deleted |-> deleted, path |-> path],
                 [deleted |-> FALSE, path |-> old], [deleted |-> FALSE, path |-> ext])
             = [deleted |-> deleted, path |-> IF ext = old THEN path ELSE ext]
<1> PICK row, read, wrote : /\ row = [deleted |-> deleted, path |-> path]
                            /\ read = [deleted |-> FALSE, path |-> old]
                            /\ wrote = [deleted |-> FALSE, path |-> ext]
  OBVIOUS
<1>1. /\ wrote["deleted"] = FALSE /\ wrote["path"] = ext /\ read["deleted"] = FALSE /\ read["path"] = old
      /\ row["deleted"] = deleted /\ row["path"] = path
  OBVIOUS
<1>2. DOMAIN row = {"deleted", "path"}
  OBVIOUS
<1>3. Flush(row, read, wrote) = [col \in {"deleted", "path"} |-> IF wrote[col] = read[col] THEN row[col] ELSE wrote[col]]
  BY <1>2 DEF Flush
<1>4. Flush(row, read, wrote) = [deleted |-> deleted, path |-> IF ext = old THEN path ELSE ext]
  BY <1>1, <1>3
<1> QED
  BY <1>4

\* An upload that succeeds alone leaves the receipt, whatever was there before.
LEMMA CommitUploadKeeps ==
    ASSUME ReceiptsInv, NEW c \in Client, CommitUpload(c)
    PROVE  ReceiptsInv'
<1> PICK r : r = receiptReq[c]
  OBVIOUS
<1> PICK t : t = r.txn
  OBVIOUS
<1>0. /\ r.op = "upload" /\ r.at = "written"
      /\ receipts' = [receipts EXCEPT ![t] =
           Flush(receipts[t], [deleted |-> FALSE, path |-> r.path],
                 [[deleted |-> FALSE, path |-> r.path] EXCEPT !.path = r.ext])]
      /\ attached' = [attached EXCEPT ![t] = r.picture]
      /\ receiptReq' = [receiptReq EXCEPT ![c] = NoRequest]
      /\ disturbed' = IF r.alone THEN disturbed \ {t} ELSE disturbed
      /\ UNCHANGED disk
  BY DEF CommitUpload
<1>1. /\ r \in Upload /\ r # NoRequest /\ t \in Txn /\ r.ext \in Extension /\ r.picture \in Picture
      /\ r.alone \in BOOLEAN /\ c \in Uploads(t)
      /\ r.alone => Uploads(t) = {c} /\ r.path = receipts[t].path /\ disk[t][r.ext] = r.picture
      /\ t \notin disturbed => r.alone
  BY <1>0, UploadKnows
<1>2. receiptReq'[c] = NoRequest /\ \A d \in Client : d # c => receiptReq'[d] = receiptReq[d]
  BY <1>0 DEF ReceiptsInv, ReceiptsTypeOK
<1>3. PICK row \in [deleted : BOOLEAN, path : Extension \union {Nothing}] : row = receipts[t]
  BY <1>1 DEF ReceiptsInv, ReceiptsTypeOK
<1>4. receipts' = [receipts EXCEPT ![t] = [deleted |-> row.deleted, path |-> IF r.ext = r.path THEN row.path ELSE r.ext]]
  <2>1. row = [deleted |-> row.deleted, path |-> row.path]
    OBVIOUS
  <2>2. PICK old, ext, deleted, path : old = r.path /\ ext = r.ext /\ deleted = row.deleted /\ path = row.path
    OBVIOUS
  <2>3. receipts' = [receipts EXCEPT ![t] =
          Flush([deleted |-> deleted, path |-> path],
                [deleted |-> FALSE, path |-> old], [[deleted |-> FALSE, path |-> old] EXCEPT !.path = ext])]
    BY <1>0, <1>3, <2>1, <2>2
  <2>4. receipts' = [receipts EXCEPT ![t] =
          Flush([deleted |-> deleted, path |-> path], [deleted |-> FALSE, path |-> old], [deleted |-> FALSE, path |-> ext])]
    BY <2>3, PathSet, Zenon
  <2>5. receipts' = [receipts EXCEPT ![t] = [deleted |-> deleted, path |-> IF ext = old THEN path ELSE ext]]
    <3> PICK flushed : flushed = [deleted |-> deleted, path |-> IF ext = old THEN path ELSE ext]
      OBVIOUS
    <3>1. Flush([deleted |-> deleted, path |-> path], [deleted |-> FALSE, path |-> old], [deleted |-> FALSE, path |-> ext])
            = flushed
      BY PathWritten
    <3>2. receipts' = [receipts EXCEPT ![t] = flushed]
      BY <2>4, <3>1
    <3> QED
      BY <3>2
  <2> QED
    BY <2>2, <2>5
<1>5. /\ receipts'[t].path = IF r.ext = r.path THEN row.path ELSE r.ext
      /\ attached'[t] = r.picture
      /\ \A u \in Txn : u # t => receipts'[u] = receipts[u] /\ attached'[u] = attached[u]
  BY <1>0, <1>1, <1>4 DEF ReceiptsInv, ReceiptsTypeOK
<1>6. ReceiptsTypeOK'
  <2>1. receipts' \in [Txn -> [deleted : BOOLEAN, path : Extension \union {Nothing}]]
    BY <1>1, <1>3, <1>4 DEF ReceiptsInv, ReceiptsTypeOK
  <2>2. attached' \in [Txn -> Picture \union {Nothing}]
    BY <1>0, <1>1 DEF ReceiptsInv, ReceiptsTypeOK
  <2>3. receiptReq' \in [Client -> {NoRequest} \union Upload] /\ disturbed' \subseteq Txn
    BY <1>0 DEF ReceiptsInv, ReceiptsTypeOK
  <2> QED
    BY <1>0, <2>1, <2>2, <2>3 DEF ReceiptsInv, ReceiptsTypeOK
<1>7. ASSUME NEW d \in Uploads(t)' PROVE AloneIsRight(d)'
  <2>1. d # c /\ d \in Uploads(t) /\ receiptReq'[d] = receiptReq[d] /\ receiptReq[d].txn = t
    BY <1>2 DEF Uploads
  <2>2. ~(receiptReq[d].op = "upload" /\ receiptReq[d].alone)
    BY <1>1, <2>1 DEF ReceiptsInv, AloneIsRight, Uploads
  <2> QED
    BY <2>1, <2>2 DEF AloneIsRight
<1>8. ASSUME t \notin disturbed' PROVE Undisturbed(t)'
  <2>1. r.alone
    BY <1>0, <1>1, <1>8
  <2>2. Uploads(t)' = {}
    BY <1>1, <1>2, <2>1 DEF Uploads
  <2>3. receipts'[t].path = r.ext
    BY <1>1, <1>3, <1>5, <2>1
  <2> QED
    BY <1>0, <1>1, <1>5, <2>1, <2>2, <2>3 DEF Undisturbed, Download
<1>9. \A u \in Txn : u # t /\ u \notin disturbed' => u \notin disturbed
  BY <1>0
<1> QED
  BY <1>0, <1>1, <1>2, <1>5, <1>6, <1>7, <1>8, <1>9, StepOfTxn

\* A deletion leaves the file.
LEMMA DeleteTxnKeeps ==
    ASSUME ReceiptsInv, NEW t \in Txn, DeleteTxn(t)
    PROVE  ReceiptsInv'
<1>0. receipts' = [receipts EXCEPT ![t].deleted = TRUE] /\ UNCHANGED <<disk, receiptReq, attached, disturbed>>
  BY DEF DeleteTxn
<1>1. \A u \in Txn : receipts'[u].path = receipts[u].path
  BY <1>0 DEF ReceiptsInv, ReceiptsTypeOK
<1>2. ReceiptsTypeOK'
  BY <1>0 DEF ReceiptsInv, ReceiptsTypeOK
<1>3. \A c \in Client : AloneIsRight(c)'
  <2> SUFFICES ASSUME NEW c \in Client, receiptReq[c].op = "upload", receiptReq[c].alone PROVE AloneIsRight(c)'
    BY <1>0 DEF AloneIsRight
  <2>1. receiptReq[c].txn \in Txn
    BY UploadKnows
  <2> QED
    BY <1>0, <1>1, <2>1 DEF ReceiptsInv, AloneIsRight, Uploads
<1>4. \A u \in Txn \ disturbed : Undisturbed(u)'
  BY <1>0, <1>1 DEF ReceiptsInv, Undisturbed, Uploads, Download
<1> QED
  BY <1>0, <1>2, <1>3, <1>4 DEF ReceiptsInv

\* Every step keeps the invariant.
LEMMA ReceiptsInvStep == ReceiptsInv /\ [ReceiptsNext]_receiptVars => ReceiptsInv'
<1> SUFFICES ASSUME ReceiptsInv, [ReceiptsNext]_receiptVars PROVE ReceiptsInv'
  OBVIOUS
<1>1. CASE ReceiptsNext
  BY <1>1, LoadUploadKeeps, WriteReceiptKeeps, DieUnlinkingKeeps, CommitUploadKeeps,
     RollBackUploadKeeps, DeleteTxnKeeps DEF ReceiptsNext
<1>2. CASE UNCHANGED receiptVars
  BY <1>2 DEF receiptVars, ReceiptsInv, ReceiptsTypeOK, AloneIsRight, Undisturbed, Uploads, Download
<1> QED
  BY <1>1, <1>2

\* The invariant holds in every reachable state.
LEMMA ReceiptsStay == ReceiptsSpec => []ReceiptsInv
<1>1. ReceiptsInit => ReceiptsInv
  <2> SUFFICES ASSUME ReceiptsInit PROVE ReceiptsInv
    OBVIOUS
  <2>1. ReceiptsTypeOK
    BY DEF ReceiptsInit, ReceiptsTypeOK
  <2>2. \A c \in Client : AloneIsRight(c)
    BY DEF ReceiptsInit, AloneIsRight, NoRequest
  <2>3. \A t \in Txn : Undisturbed(t)
    BY DEF ReceiptsInit, Undisturbed, Uploads
  <2> QED
    BY <2>1, <2>2, <2>3 DEF ReceiptsInv
<1> QED
  BY <1>1, ReceiptsInvStep, PTL DEF ReceiptsSpec

\* Every reachable state of transactions, files and uploads has its type.
THEOREM ReceiptsTypeCorrect == ReceiptsSpec => []ReceiptsTypeOK
<1>1. ReceiptsInv => ReceiptsTypeOK
  BY DEF ReceiptsInv
<1> QED
  BY <1>1, ReceiptsStay, PTL

\* A transaction shows the receipt that was attached last, unless uploads overlapped or one
\* failed after it wrote.
THEOREM ReceiptIsAlwaysThere == ReceiptsSpec => []ReceiptIsThere
<1>1. ReceiptsInv => ReceiptIsThere
  BY DEF ReceiptsInv, ReceiptIsThere, Undisturbed
<1> QED
  BY <1>1, ReceiptsStay, PTL

-----------------------------------------------------------------------------
(* The first use (FirstUse).                                               *)

\* What is used of the types: the requests that write users and accounts.
FirstRequests ==
    /\ firstReq = [c \in Client |-> firstReq[c]]
    /\ \A c \in Client : firstReq[c].op \in {"register", "script"} => firstReq[c].user \in User

\* The inductive invariant.  Who is a user has one account and needs no other, and who is
\* not has none: create_user makes the account in the same commit.
OneAccountEach ==
    /\ accounts = [u \in User |-> IF u \in users THEN 1 ELSE 0]
    /\ \A c \in Client : firstReq[c].op = "log" => ~firstReq[c].heals

\* While no registrations overlapped, the one in flight is the first.
OneRegisters ==
    /\ registered \subseteq users
    /\ users \subseteq User
    /\ ~gatesRaced =>
         /\ \A u, v \in registered : u = v
         /\ \A c \in Joiners : Joiners = {c} /\ registered = {}

FirstUseInv == FirstRequests /\ OneAccountEach /\ OneRegisters

\* What a request leaves that writes no user and no account, and is no registration.
LEMMA OtherRequestKeeps ==
    ASSUME FirstUseInv, NEW c \in Client, NEW r, firstReq' = [firstReq EXCEPT ![c] = r],
           r.op \notin {"register", "script"}, r.op = "log" => ~r.heals,
           UNCHANGED <<users, accounts, registered, gatesRaced>>
    PROVE  FirstUseInv'
<1>1. firstReq'[c] = r /\ \A d \in Client : d # c => firstReq'[d] = firstReq[d]
  BY DEF FirstUseInv, FirstRequests
<1>2. FirstRequests'
  BY <1>1 DEF FirstUseInv, FirstRequests
<1>3. OneAccountEach'
  BY <1>1 DEF FirstUseInv, OneAccountEach
<1>4. Joiners' \subseteq Joiners
  BY <1>1 DEF Joiners
<1>5. OneRegisters'
  BY <1>4 DEF FirstUseInv, OneRegisters
<1> QED
  BY <1>2, <1>3, <1>5 DEF FirstUseInv

\* The gate opens while there is no user: nobody has registered yet.
LEMMA LoadRegisterKeeps ==
    ASSUME FirstUseInv, NEW c \in Client, NEW u \in User, LoadRegister(c, u)
    PROVE  FirstUseInv'
<1> PICK r : r = [op |-> "register", user |-> u, keys |-> ListCatalog]
  OBVIOUS
<1>0. /\ firstReq' = [firstReq EXCEPT ![c] = r]
      /\ gatesRaced' = (gatesRaced \/ Joiners # {})
      /\ UNCHANGED <<users, accounts, registered>>
      /\ users = {}
  BY DEF LoadRegister, MayRegister
<1>1. r.op = "register" /\ r.user = u
  OBVIOUS
<1>2. firstReq'[c] = r /\ \A d \in Client : d # c => firstReq'[d] = firstReq[d]
  BY <1>0 DEF FirstUseInv, FirstRequests
<1>3. FirstRequests'
  BY <1>0, <1>1, <1>2 DEF FirstUseInv, FirstRequests
<1>4. OneAccountEach'
  BY <1>0, <1>1, <1>2 DEF FirstUseInv, OneAccountEach
<1>5. ~gatesRaced' => Joiners = {} /\ registered' = {}
  BY <1>0 DEF FirstUseInv, OneRegisters
<1>6. Joiners = {} => Joiners' = {c}
  BY <1>1, <1>2 DEF Joiners
<1>7. OneRegisters'
  BY <1>0, <1>5, <1>6 DEF FirstUseInv, OneRegisters
<1> QED
  BY <1>3, <1>4, <1>7 DEF FirstUseInv

\* scripts/seed.py is no registration.
LEMMA LoadSeedUserKeeps ==
    ASSUME FirstUseInv, NEW c \in Client, NEW u \in User, LoadSeedUser(c, u)
    PROVE  FirstUseInv'
<1> PICK r : r = [op |-> "script", user |-> u, keys |-> ListCatalog]
  OBVIOUS
<1>0. firstReq' = [firstReq EXCEPT ![c] = r] /\ UNCHANGED <<users, accounts, registered, gatesRaced>>
  BY DEF LoadSeedUser, userVars
<1>1. r.op = "script" /\ r.user = u
  OBVIOUS
<1>2. firstReq'[c] = r /\ \A d \in Client : d # c => firstReq'[d] = firstReq[d]
  BY <1>0 DEF FirstUseInv, FirstRequests
<1>3. FirstRequests'
  BY <1>0, <1>1, <1>2 DEF FirstUseInv, FirstRequests
<1>4. OneAccountEach'
  BY <1>0, <1>1, <1>2 DEF FirstUseInv, OneAccountEach
<1>5. Joiners' \subseteq Joiners
  BY <1>1, <1>2 DEF Joiners
<1>6. OneRegisters'
  BY <1>0, <1>5 DEF FirstUseInv, OneRegisters
<1> QED
  BY <1>3, <1>4, <1>6 DEF FirstUseInv

\* A user joins, with an account; by the gate, the first one that registers is the last,
\* unless registrations overlapped.
LEMMA CommitJoinKeeps ==
    ASSUME FirstUseInv, NEW c \in Client, CommitJoin(c)
    PROVE  FirstUseInv'
<1> PICK r : r = firstReq[c]
  OBVIOUS
<1>0. /\ r.op \in {"register", "script"} /\ r.user \notin users
      /\ users' = users \union {r.user}
      /\ accounts' = [accounts EXCEPT ![r.user] = @ + 1]
      /\ registered' = registered \union (IF r.op = "register" THEN {r.user} ELSE {})
      /\ firstReq' = [firstReq EXCEPT ![c] = NoRequest]
      /\ UNCHANGED gatesRaced
  BY DEF CommitJoin, NewAccounts
<1>1. r.user \in User
  BY <1>0 DEF FirstUseInv, FirstRequests
<1>2. firstReq'[c].op = "none" /\ \A d \in Client : d # c => firstReq'[d] = firstReq[d]
  BY <1>0 DEF FirstUseInv, FirstRequests, NoRequest
<1>3. FirstRequests'
  BY <1>0, <1>2 DEF FirstUseInv, FirstRequests
<1>4. OneAccountEach'
  <2>1. accounts' = [u \in User |-> IF u \in users' THEN 1 ELSE 0]
    BY <1>0, <1>1 DEF FirstUseInv, OneAccountEach
  <2>2. \A d \in Client : firstReq'[d].op = "log" => ~firstReq'[d].heals
    BY <1>2 DEF FirstUseInv, OneAccountEach
  <2> QED
    BY <2>1, <2>2 DEF OneAccountEach
<1>5. registered' \subseteq users' /\ users' \subseteq User
  BY <1>0, <1>1 DEF FirstUseInv, OneRegisters
<1>6. ASSUME ~gatesRaced
      PROVE  /\ \A u, v \in registered' : u = v
             /\ \A d \in Joiners' : Joiners' = {d} /\ registered' = {}
  <2>1. Joiners' = Joiners \ {c}
    BY <1>2 DEF Joiners
  <2>2. CASE r.op = "register"
    <3>1. c \in Joiners
      BY <2>2 DEF Joiners
    <3>2. Joiners = {c} /\ registered = {}
      BY <1>6, <3>1 DEF FirstUseInv, OneRegisters
    <3> QED
      BY <1>0, <2>1, <2>2, <3>2
  <2>3. CASE r.op = "script"
    <3>1. c \notin Joiners
      BY <2>3 DEF Joiners
    <3> QED
      BY <1>0, <1>6, <2>1, <2>3, <3>1 DEF FirstUseInv, OneRegisters
  <2> QED
    BY <1>0, <2>2, <2>3
<1>7. OneRegisters'
  BY <1>0, <1>5, <1>6 DEF OneRegisters
<1> QED
  BY <1>3, <1>4, <1>7 DEF FirstUseInv

\* A request that records a transaction finds an account, and makes none.
LEMMA LogKeeps ==
    ASSUME FirstUseInv, NEW c \in Client, (\E u \in User : LoadLog(c, u)) \/ CommitLog(c)
    PROVE  FirstUseInv'
<1>1. CASE CommitLog(c)
  <2>1. /\ firstReq' = [firstReq EXCEPT ![c] = NoRequest]
        /\ UNCHANGED <<users, registered, gatesRaced>>
        /\ accounts' = accounts
    BY <1>1 DEF CommitLog, FirstUseInv, OneAccountEach
  <2> QED
    BY <2>1, OtherRequestKeeps DEF NoRequest
<1>2. CASE \E u \in User : LoadLog(c, u)
  <2>1. PICK u \in User : LoadLog(c, u)
    BY <1>2
  <2> PICK r : r = [op |-> "log", user |-> u, heals |-> FALSE]
    OBVIOUS
  <2>2. (accounts[u] = 0) = FALSE
    BY <2>1 DEF LoadLog, FirstUseInv, OneAccountEach
  <2>3. r.op = "log" /\ ~r.heals
    OBVIOUS
  <2>4. firstReq' = [firstReq EXCEPT ![c] = r] /\ UNCHANGED <<users, accounts, registered, gatesRaced>>
    BY <2>1, <2>2 DEF LoadLog, userVars
  <2> QED
    BY <2>3, <2>4, OtherRequestKeeps
<1> QED
  BY <1>1, <1>2

\* Every step of a start-up, a migration or a request keeps the invariant.
LEMMA FirstUseInvStep == FirstUseInv /\ [FirstUseNext]_firstUseVars => FirstUseInv'
<1> SUFFICES ASSUME FirstUseInv, [FirstUseNext]_firstUseVars PROVE FirstUseInv'
  OBVIOUS
<1>1. ASSUME UNCHANGED <<userVars, requestVars>> PROVE FirstUseInv'
  BY <1>1 DEF FirstUseInv, FirstRequests, OneAccountEach, OneRegisters, Joiners, userVars, requestVars
<1>2. CASE Upgrade15 \/ Downgrade15 \/ UpgradeHead
  BY <1>1, <1>2 DEF Upgrade15, Downgrade15, UpgradeHead
<1>3. ASSUME NEW k \in Server, BeginSeeding(k) \/ CommitSeeding(k) \/ FailSeeding(k) \/ CrashServer(k)
      PROVE  FirstUseInv'
  BY <1>1, <1>3 DEF BeginSeeding, CommitSeeding, FailSeeding, CrashServer
<1>4. ASSUME NEW c \in Client, NEW u \in User, LoadRegister(c, u) \/ LoadSeedUser(c, u) \/ LoadLog(c, u)
      PROVE  FirstUseInv'
  BY <1>4, LoadRegisterKeeps, LoadSeedUserKeeps, LogKeeps
<1>5. ASSUME NEW c \in Client, NEW u \in User, NEW key \in Key, NEW v \in Setting(key), LoadSet(c, u, key, v)
      PROVE  FirstUseInv'
  <2> PICK r : r = [op |-> "set", user |-> u, key |-> key, text |-> Serialized(key, v),
                    loaded |-> IF key \in DOMAIN texts[u] THEN {texts[u][key]} ELSE {}]
    OBVIOUS
  <2>1. r.op = "set"
    OBVIOUS
  <2>2. firstReq' = [firstReq EXCEPT ![c] = r] /\ UNCHANGED <<users, accounts, registered, gatesRaced>>
    BY <1>5 DEF LoadSet, userVars
  <2> QED
    BY <2>1, <2>2, OtherRequestKeeps
<1>6. ASSUME NEW c \in Client, CommitJoin(c) \/ CommitLog(c) PROVE FirstUseInv'
  BY <1>6, CommitJoinKeeps, LogKeeps
<1>7. ASSUME NEW c \in Client, CommitSet(c) \/ RollBackFirst(c) PROVE FirstUseInv'
  <2>1. firstReq' = [firstReq EXCEPT ![c] = NoRequest] /\ UNCHANGED <<users, accounts, registered, gatesRaced>>
    BY <1>7 DEF CommitSet, RollBackFirst, userVars
  <2> QED
    BY <2>1, OtherRequestKeeps DEF NoRequest
<1>8. CASE UNCHANGED firstUseVars
  BY <1>1, <1>8 DEF firstUseVars, userVars, requestVars
<1> QED
  BY <1>2, <1>3, <1>4, <1>5, <1>6, <1>7, <1>8 DEF FirstUseNext

\* At first nobody has registered, and the user that is there has an account.
LEMMA FirstUseInvInit == FirstUseInit => FirstUseInv
<1> SUFFICES ASSUME FirstUseInit PROVE FirstUseInv
  OBVIOUS
<1>1. users \subseteq User /\ registered = {} /\ accounts = [u \in User |-> IF u \in users THEN 1 ELSE 0]
  BY FirstUseAssumption DEF FirstUseInit
<1>2. \A c \in Client : firstReq[c].op = "none"
  BY DEF FirstUseInit, NoRequest
<1>3. firstReq = [c \in Client |-> firstReq[c]]
  BY DEF FirstUseInit
<1> QED
  BY <1>1, <1>2, <1>3 DEF FirstUseInv, FirstRequests, OneAccountEach, OneRegisters, Joiners

\* From the first moment a user has one account, and one user registers unless
\* registrations overlapped.
THEOREM FirstUseIsAlwaysSound == FirstUseSpec => []FirstUseIsSound
<1>1. FirstUseInv => FirstUseIsSound
  <2> SUFFICES ASSUME FirstUseInv PROVE FirstUseIsSound
    OBVIOUS
  <2>1. \A u \in users : accounts[u] = 1
    BY DEF FirstUseInv, OneAccountEach, OneRegisters
  <2>2. ASSUME ~gatesRaced PROVE ~(Cardinality(registered) > 1)
    <3>1. registered = {} \/ \E u : registered = {u}
      BY <2>2 DEF FirstUseInv, OneRegisters
    <3>2. Cardinality(registered) \in {0, 1}
      BY <3>1, FS_EmptySet, FS_Singleton
    <3> QED
      BY <3>2
  <2> QED
    BY <2>1, <2>2 DEF FirstUseIsSound
<1> QED
  BY <1>1, FirstUseInvInit, FirstUseInvStep, PTL DEF FirstUseSpec

-----------------------------------------------------------------------------
(* Settings and their texts.                                               *)

\* An option is of one of three types, and its default text is one of that type.
LEMMA OptionKinds ==
    ASSUME NEW key \in Key
    PROVE  \/ Catalog[key].type = "boolean" /\ Catalog[key].default \in {"true", "false"}
           \/ Catalog[key].type = "integer" /\ Catalog[key].default \in {"1", "5"}
           \/ Catalog[key].type = "string" /\ Catalog[key].default \in Catalog[key].allowed
<1>1. key \in DOMAIN Catalog
  BY SettingsAssumption
<1>2. key \in OnByDefault \union OffByDefault \union {"currency", "month_start_day", "auto_logout_minutes"}
  BY <1>1 DEF Catalog
<1>3. CASE key \in OnByDefault
  BY <1>2, <1>3 DEF Catalog
<1>4. CASE key \notin OnByDefault /\ key \in OffByDefault
  BY <1>2, <1>4 DEF Catalog
<1>5. CASE key = "currency"
  BY <1>5 DEF Catalog, OnByDefault, OffByDefault
<1>6. CASE key \in {"month_start_day", "auto_logout_minutes"}
  BY <1>6 DEF Catalog, OnByDefault, OffByDefault
<1> QED
  BY <1>2, <1>3, <1>4, <1>5, <1>6

\* int() reads a number back from its text.
LEMMA NumberRead ==
    ASSUME NEW n \in Number \union {1, 5}
    PROVE  NumberOf(NumberText(n)) = n
BY NumbersReadBack DEF NumberOf

\* The default of an option of either type is what its text in the catalog says.
LEMMA DefaultIs ==
    ASSUME NEW key \in Key
    PROVE  /\ Catalog[key].type = "boolean" => Default(key) \in BOOLEAN
           /\ Catalog[key].type = "integer" => Default(key) \in {1, 5}
           /\ Serialized(key, Default(key)) = Catalog[key].default
<1>1. CASE Catalog[key].type = "boolean"
  <2>1. Catalog[key].default \in {"true", "false"}
    BY <1>1, OptionKinds
  <2>2. Default(key) = (Catalog[key].default \in {"true", "1", "yes"})
    BY <1>1 DEF Default, Parsed
  <2>3. Serialized(key, Default(key)) = IF Default(key) THEN "true" ELSE "false"
    BY <1>1 DEF Serialized
  <2>4. Default(key) \in BOOLEAN
    BY <2>2
  <2>5. CASE Catalog[key].default = "true"
    <3>1. Default(key) = TRUE
      BY <2>2, <2>5
    <3> QED
      BY <1>1, <2>3, <2>5, <3>1
  <2>6. CASE Catalog[key].default = "false"
    <3>0. (Catalog[key].default \in {"true", "1", "yes"}) = FALSE
      BY <2>6
    <3>1. Default(key) = FALSE
      BY <2>2, <3>0
    <3> QED
      BY <1>1, <2>3, <2>6, <3>1
  <2> QED
    BY <1>1, <2>1, <2>4, <2>5, <2>6
<1>2. CASE Catalog[key].type = "integer"
  <2>1. PICK n \in {1, 5} : Catalog[key].default = NumberText(n)
    BY <1>2, OptionKinds, NumbersReadBack
  <2>2. NumberOf(NumberText(n)) = n
    BY NumberRead
  <2>3. Default(key) = n
    BY <1>2, <2>1, <2>2 DEF Default, Parsed
  <2> QED
    BY <1>2, <2>1, <2>3 DEF Serialized
<1>3. CASE Catalog[key].type = "string"
  BY <1>3 DEF Default, Parsed, Serialized
<1> QED
  BY <1>1, <1>2, <1>3, OptionKinds

\* parse_value reads back what serialize_value wrote.
LEMMA ReadsBack ==
    ASSUME NEW key \in Key, NEW v \in Setting(key) \union {Default(key)}
    PROVE  Parsed(key, Serialized(key, v)) = v
<1>1. CASE Catalog[key].type = "boolean"
  <2>1. v \in BOOLEAN
    BY <1>1, DefaultIs DEF Setting
  <2>2. Serialized(key, v) = IF v THEN "true" ELSE "false"
    BY <1>1 DEF Serialized
  <2>3. Parsed(key, Serialized(key, v)) = (Serialized(key, v) \in {"true", "1", "yes"})
    BY <1>1 DEF Parsed
  <2> QED
    BY <2>1, <2>2, <2>3
<1>2. CASE Catalog[key].type = "integer"
  <2>1. v \in Number \union {1, 5}
    BY <1>2, DefaultIs DEF Setting
  <2>2. NumberOf(NumberText(v)) = v
    BY <2>1, NumberRead
  <2> QED
    BY <1>2, <2>2 DEF Parsed, Serialized
<1>3. CASE Catalog[key].type = "string"
  BY <1>3 DEF Parsed, Serialized
<1> QED
  BY <1>1, <1>2, <1>3, OptionKinds

\* A column is cast to the text that serialize_value writes.
LEMMA ColumnReads ==
    ASSUME NEW key \in Key, NEW v \in Setting(key)
    PROVE  ColumnText(key, v) = Serialized(key, v)
<1>1. CASE Catalog[key].type = "boolean"
  <2>1. v \in BOOLEAN
    BY <1>1 DEF Setting
  <2>2. ColumnText(key, v) = CASE v -> "true" [] ~v -> "false"
    BY <1>1 DEF ColumnText
  <2>3. Serialized(key, v) = IF v THEN "true" ELSE "false"
    BY <1>1 DEF Serialized
  <2> QED
    BY <2>1, <2>2, <2>3
<1>2. CASE Catalog[key].type \in {"integer", "string"}
  BY <1>2 DEF ColumnText, Serialized
<1> QED
  BY <1>1, <1>2, OptionKinds

\* A text of the catalog reads as the default, and is one a row can hold.
LEMMA DefaultText ==
    ASSUME NEW key \in Key
    PROVE  Catalog[key].default \in Text(key) /\ Parsed(key, Catalog[key].default) = Default(key)
BY DefaultIs DEF Text, Default

\* A text that a row can hold reads as a setting or the default.
LEMMA TextReads ==
    ASSUME NEW key \in Key, NEW text \in Text(key)
    PROVE  Parsed(key, text) \in Setting(key) \union {Default(key)}
<1>1. PICK v \in Setting(key) \union {Default(key)} : text = Serialized(key, v)
  BY DEF Text
<1> QED
  BY <1>1, ReadsBack

-----------------------------------------------------------------------------
(* The settings are kept.                                                  *)

\* The rows of the three tables and of the history hold settings and texts of settings.
SettingRows ==
    /\ DOMAIN typed = User /\ DOMAIN texts = User /\ DOMAIN chosen = User
    /\ options \subseteq Key /\ users \subseteq User /\ overwritten \subseteq Rows
    /\ \A u \in User : DOMAIN typed[u] \subseteq Migrated /\ \A key \in DOMAIN typed[u] : typed[u][key] \in Setting(key)
    /\ \A u \in User : DOMAIN texts[u] \subseteq options /\ \A key \in DOMAIN texts[u] : texts[u][key] \in Text(key)
    /\ \A u \in User : \A key \in DOMAIN chosen[u] : chosen[u][key] \in Setting(key) \union {Default(key)}
    /\ \A u \in users : DOMAIN chosen[u] = Key

\* What a user sees of an option, in the catalog or not yet.
TextOf(u, key) == IF key \in DOMAIN texts[u] THEN texts[u][key] ELSE Catalog[key].default

\* Before the catalog there is no option; a user has every column, and chose nothing of what
\* comes later.  With it the text of every option, of those too that no start-up added yet, is the choice.
ChoicesAre ==
    /\ revision \in {"columns", "flat", "catalog"}
    /\ revision # "catalog" => options = {}
    /\ revision # "catalog" => \A u \in users :
         /\ DOMAIN typed[u] = Migrated
         /\ \A key \in Migrated : typed[u][key] = chosen[u][key]
         /\ \A key \in Added : chosen[u][key] = Default(key)
    /\ revision = "catalog" => \A u \in users, key \in Key :
         <<u, key>> \in overwritten \/ Parsed(key, TextOf(u, key)) = chosen[u][key]

\* A start-up adds the options whose rows it adds, and there are start-ups only with the catalog.
DeployInv ==
    /\ server \in [Server -> {Down, [at |-> "up"]} \union Seeding]
    /\ serving \in BOOLEAN
    /\ crashes \in 0 .. MaxCrashes
    /\ \A k \in Server : server[k] \in Seeding => \A row \in server[k].rows : row[2] \in options \union server[k].missing
    /\ revision # "catalog" => ~serving /\ \A k \in Server : server[k] = Down

\* A request sets an option that is there, of a user that is there.
RequestsInv ==
    /\ firstReq \in [Client -> {NoRequest} \union Joining \union Choice \union Logging]
    /\ requests \in 0 .. MaxRequests
    /\ gatesRaced \in BOOLEAN
    /\ \A c \in Client :
         /\ firstReq[c] \in Joining => firstReq[c].keys \subseteq options
         /\ firstReq[c] \in Choice => /\ firstReq[c].user \in users /\ firstReq[c].key \in options
                                      /\ firstReq[c].text \in Text(firstReq[c].key)
    /\ revision # "catalog" => \A c \in Client : firstReq[c] = NoRequest

SettingsInv == SettingRows /\ ChoicesAre /\ DeployInv /\ RequestsInv

\* The kinds of a start-up and of a request are told by one field.
LEMMA SeedingKind ==
    ASSUME NEW s \in {Down, [at |-> "up"]} \union Seeding
    PROVE  /\ s \in Seeding <=> s.at \in {"script", "lifespan"}
           /\ s = Down <=> s.at = "down"
BY DEF Down, Seeding

\* The same for a request: its operation tells its fields.
LEMMA FirstRequestKind ==
    ASSUME NEW r \in {NoRequest} \union Joining \union Choice \union Logging
    PROVE  /\ r \in Joining <=> r.op \in {"register", "script"}
           /\ r \in Choice <=> r.op = "set"
           /\ r \in Logging <=> r.op = "log"
           /\ r = NoRequest <=> r.op = "none"
BY DEF NoRequest, Joining, Choice, Logging

\* What the inductive invariant is for.
LEMMA KeptByInv == SettingsInv => SettingsKept
<1> SUFFICES ASSUME SettingsInv, NEW u \in users, NEW key \in Shown
             PROVE  <<u, key>> \in overwritten \/ Resolved(u, key) = chosen[u][key]
  BY DEF SettingsKept
<1>1. CASE revision # "catalog"
  BY <1>1 DEF SettingsInv, ChoicesAre, Resolved, Shown
<1>2. CASE revision = "catalog"
  <2>1. key \in Key
    BY <1>2 DEF SettingsInv, SettingRows, Shown
  <2>2. Resolved(u, key) = Parsed(key, TextOf(u, key))
    BY <1>2, <2>1, DefaultText DEF Resolved, TextOf
  <2> QED
    BY <1>2, <2>1, <2>2 DEF SettingsInv, ChoicesAre
<1> QED
  BY <1>1, <1>2

\* What a step leaves that changes neither start-ups nor the revision.
LEMMA DeployStays ==
    ASSUME DeployInv, UNCHANGED <<deployVars, revision>>, options \subseteq options'
    PROVE  DeployInv'
BY DEF DeployInv, deployVars

\* What a step leaves that changes neither requests nor the revision: options and users only come.
LEMMA RequestsStay ==
    ASSUME RequestsInv, UNCHANGED <<requestVars, gatesRaced, revision>>, options \subseteq options', users \subseteq users'
    PROVE  RequestsInv'
BY DEF RequestsInv, requestVars

\* What a request leaves that is the only one to change, to something in order.
LEMMA RequestMoves ==
    ASSUME RequestsInv, NEW c \in Client, NEW r, firstReq' = [firstReq EXCEPT ![c] = r],
           r \in {NoRequest} \union Joining \union Choice \union Logging,
           r \in Joining => r.keys \subseteq options',
           r \in Choice => r.user \in users' /\ r.key \in options' /\ r.text \in Text(r.key),
           r = NoRequest \/ revision = "catalog",
           requests' \in 0 .. MaxRequests, gatesRaced' \in BOOLEAN,
           UNCHANGED revision, options \subseteq options', users \subseteq users'
    PROVE  RequestsInv'
<1>1. firstReq'[c] = r /\ \A d \in Client : d # c => firstReq'[d] = firstReq[d]
  BY DEF RequestsInv
<1>2. firstReq' \in [Client -> {NoRequest} \union Joining \union Choice \union Logging]
  BY DEF RequestsInv
<1>3. \A d \in Client : firstReq'[d] \in Joining => firstReq'[d].keys \subseteq options'
  BY <1>1 DEF RequestsInv
<1>4. \A d \in Client : firstReq'[d] \in Choice =>
         firstReq'[d].user \in users' /\ firstReq'[d].key \in options' /\ firstReq'[d].text \in Text(firstReq'[d].key)
  BY <1>1 DEF RequestsInv
<1>5. revision' # "catalog" => \A d \in Client : firstReq'[d] = NoRequest
  BY <1>1 DEF RequestsInv
<1> QED
  BY <1>2, <1>3, <1>4, <1>5 DEF RequestsInv

\* What a step leaves that changes no setting.
LEMMA SettingsStay ==
    ASSUME SettingRows, ChoicesAre, UNCHANGED <<settingVars, users>>
    PROVE  SettingRows' /\ ChoicesAre'
BY DEF SettingRows, ChoicesAre, TextOf, settingVars

\* Before the catalog there is nothing in flight that a migration could meet.
LEMMA NothingInFlight ==
    ASSUME DeployInv, RequestsInv, revision # "catalog", UNCHANGED <<deployVars, requestVars, gatesRaced>>,
           revision' \in {"columns", "flat", "catalog"}
    PROVE  DeployInv' /\ RequestsInv'
<1>1. \A k \in Server : server'[k] = Down
  BY DEF DeployInv, deployVars
<1>2. \A k \in Server : ~(server'[k] \in Seeding)
  BY <1>1 DEF Down, Seeding
<1>3. DeployInv'
  BY <1>1, <1>2 DEF DeployInv, deployVars
<1>4. \A c \in Client : firstReq'[c] = NoRequest
  BY DEF RequestsInv, requestVars
<1>5. \A c \in Client : ~(firstReq'[c] \in Joining \union Choice)
  BY <1>4 DEF NoRequest, Joining, Choice
<1> QED
  BY <1>3, <1>4, <1>5 DEF RequestsInv, requestVars

\* The columns move to the flat table and back, each with what it holds.
LEMMA FlatTableKeeps ==
    ASSUME SettingsInv, Upgrade15 \/ Downgrade15
    PROVE  SettingsInv'
<1>1. /\ revision # "catalog" /\ revision' \in {"columns", "flat"}
      /\ UNCHANGED <<options, texts, chosen, overwritten, users, deployVars, requestVars, gatesRaced>>
  BY DEF Upgrade15, Downgrade15, userVars
<1>2. \A u \in users : DOMAIN typed[u] = Migrated
  BY <1>1 DEF SettingsInv, ChoicesAre
<1>3. DOMAIN typed' = User
  BY DEF Upgrade15, Downgrade15
<1>4. ASSUME NEW u \in users
      PROVE  DOMAIN typed'[u] = Migrated /\ \A key \in Migrated : typed'[u][key] = typed[u][key]
  BY <1>2, <1>4 DEF Upgrade15, Downgrade15, MovedOut, MovedBack, SettingsInv, SettingRows
<1>5. \A u \in User \ users : typed'[u] = typed[u]
  BY DEF Upgrade15, Downgrade15
<1>6. \A u \in User : DOMAIN typed'[u] \subseteq Migrated /\ \A key \in DOMAIN typed'[u] : typed'[u][key] \in Setting(key)
  BY <1>2, <1>4, <1>5 DEF SettingsInv, SettingRows
<1>7. SettingRows'
  BY <1>1, <1>3, <1>6 DEF SettingsInv, SettingRows
<1>8. ChoicesAre'
  BY <1>1, <1>4 DEF SettingsInv, ChoicesAre
<1>9. DeployInv' /\ RequestsInv'
  BY <1>1, NothingInFlight DEF SettingsInv
<1> QED
  BY <1>7, <1>8, <1>9 DEF SettingsInv

\* The columns move to the catalog: every one as a text that reads as what it held.
LEMMA UpgradeHeadKeeps ==
    ASSUME SettingsInv, UpgradeHead
    PROVE  SettingsInv'
<1>1. /\ revision # "catalog" /\ revision' = "catalog" /\ options' = Migrated
      /\ typed' = [u \in User |-> Empty]
      /\ UNCHANGED <<chosen, overwritten, users, deployVars, requestVars, gatesRaced>>
  BY DEF UpgradeHead, userVars
<1>2. DOMAIN texts' = User /\ \A u \in User \ users : texts'[u] = texts[u]
  BY DEF UpgradeHead
<1>3. ASSUME NEW u \in users
      PROVE  /\ DOMAIN texts'[u] = Migrated
             /\ \A key \in Migrated : texts'[u][key] = Serialized(key, typed[u][key]) /\ typed[u][key] \in Setting(key)
  <2>1. u \in User /\ DOMAIN typed[u] = Migrated /\ \A key \in Migrated : typed[u][key] \in Setting(key)
    BY <1>1, <1>3 DEF SettingsInv, SettingRows, ChoicesAre
  <2>2. texts'[u] = MovedToCatalog(MovedOut(typed[u]))
    BY <1>3, <2>1 DEF UpgradeHead
  <2>3. DOMAIN texts'[u] = Migrated /\ \A key \in Migrated : texts'[u][key] = ColumnText(key, typed[u][key])
    BY <2>2 DEF MovedToCatalog, MovedOut
  <2>4. \A key \in Migrated : ColumnText(key, typed[u][key]) = Serialized(key, typed[u][key])
    BY <2>1, ColumnReads DEF Migrated
  <2> QED
    BY <2>1, <2>3, <2>4
<1>4. \A key \in DOMAIN << >> : FALSE
  OBVIOUS
<1>5. \A u \in User : DOMAIN typed'[u] = {}
  BY <1>1, <1>4 DEF Empty
<1>6. ASSUME NEW u \in User
      PROVE  DOMAIN texts'[u] \subseteq Migrated /\ \A key \in DOMAIN texts'[u] : texts'[u][key] \in Text(key)
  <2>1. CASE u \in users
    BY <2>1, <1>3 DEF Text
  <2>2. CASE u \notin users
    <3>1. options = {} /\ texts'[u] = texts[u]
      BY <1>1, <1>2, <2>2 DEF SettingsInv, ChoicesAre
    <3> QED
      BY <3>1 DEF SettingsInv, SettingRows
  <2> QED
    BY <2>1, <2>2
<1>7. SettingRows'
  BY <1>1, <1>2, <1>5, <1>6 DEF SettingsInv, SettingRows, Migrated
<1>8. ASSUME NEW u \in users, NEW key \in Key
      PROVE  Parsed(key, TextOf(u, key)') = chosen[u][key]
  <2>1. CASE key \in Migrated
    <3>1. Parsed(key, Serialized(key, typed[u][key])) = typed[u][key]
      BY <1>3, <2>1, ReadsBack
    <3>2. typed[u][key] = chosen[u][key]
      BY <1>1, <2>1 DEF SettingsInv, ChoicesAre
    <3>3. TextOf(u, key)' = Serialized(key, typed[u][key])
      BY <1>3, <2>1 DEF TextOf
    <3> QED
      BY <3>1, <3>2, <3>3
  <2>2. CASE key \notin Migrated
    <3>1. key \in Added
      BY <2>2 DEF Migrated
    <3>2. chosen[u][key] = Default(key)
      BY <1>1, <3>1 DEF SettingsInv, ChoicesAre
    <3>3. TextOf(u, key)' = Catalog[key].default
      BY <1>3, <2>2 DEF TextOf
    <3> QED
      BY <3>2, <3>3, DefaultText
  <2> QED
    BY <2>1, <2>2
<1>9. ChoicesAre'
  BY <1>1, <1>8 DEF ChoicesAre
<1>10. DeployInv' /\ RequestsInv'
  BY <1>1, NothingInFlight DEF SettingsInv
<1> QED
  BY <1>7, <1>9, <1>10 DEF SettingsInv

\* A start-up goes on to something in order.
LEMMA ServerMoves ==
    ASSUME DeployInv, revision = "catalog", NEW k \in Server, NEW s, server' = [server EXCEPT ![k] = s],
           s \in {Down, [at |-> "up"]} \union Seeding,
           s \in Seeding => \A row \in s.rows : row[2] \in options' \union s.missing,
           options \subseteq options', serving' \in BOOLEAN, crashes' \in 0 .. MaxCrashes, UNCHANGED revision
    PROVE  DeployInv'
<1>1. server'[k] = s /\ \A j \in Server : j # k => server'[j] = server[j]
  BY DEF DeployInv
<1>2. server' \in [Server -> {Down, [at |-> "up"]} \union Seeding]
  BY DEF DeployInv
<1>3. \A j \in Server : server'[j] \in Seeding => \A row \in server'[j].rows : row[2] \in options' \union server'[j].missing
  BY <1>1 DEF DeployInv
<1> QED
  BY <1>2, <1>3 DEF DeployInv

\* A start-up that begins takes the rows that its own options need too.
LEMMA BeginSeedingKeeps ==
    ASSUME SettingsInv, NEW k \in Server, BeginSeeding(k)
    PROVE  SettingsInv'
<1>1. revision = "catalog" /\ UNCHANGED <<settingVars, users, requestVars, gatesRaced, serving, crashes>>
  BY DEF BeginSeeding, userVars
<1>2. UNCHANGED <<revision, options>>
  BY <1>1 DEF settingVars
<1> PICK all : all = options \union MissingOptions
  OBVIOUS
<1> PICK s : s = [at |-> IF server[k] = Down THEN "script" ELSE "lifespan", ready |-> FALSE,
                  missing |-> MissingOptions, rows |-> MissingRows(all)]
  OBVIOUS
<1>3. server' = [server EXCEPT ![k] = s]
  BY DEF BeginSeeding, ListCatalog
<1>4. all = Key /\ MissingOptions \subseteq Key
  BY DEF SettingsInv, SettingRows, MissingOptions
<1>5. MissingRows(all) \subseteq users \X all
  BY DEF MissingRows
<1>6. MissingRows(all) \subseteq Rows
  BY <1>4, <1>5 DEF SettingsInv, SettingRows, Rows
<1>7. s \in Seeding
  BY <1>4, <1>6 DEF Seeding
<1>8. \A row \in s.rows : row[2] \in options' \union s.missing
  BY <1>2, <1>5
<1>9. serving' \in BOOLEAN /\ crashes' \in 0 .. MaxCrashes /\ DeployInv
  BY <1>1 DEF SettingsInv, DeployInv
<1>10. DeployInv'
  BY <1>1, <1>2, <1>3, <1>7, <1>8, <1>9, ServerMoves
<1>11. RequestsInv'
  BY <1>1, <1>2, RequestsStay DEF SettingsInv
<1>12. SettingRows' /\ ChoicesAre'
  BY <1>1, SettingsStay DEF SettingsInv
<1> QED
  BY <1>10, <1>11, <1>12 DEF SettingsInv

\* A start-up that ends without a commit leaves the settings as they are.
LEMMA ServerDies ==
    ASSUME SettingsInv, NEW k \in Server, FailSeeding(k) \/ CrashServer(k)
    PROVE  SettingsInv'
<1>1. /\ server' = [server EXCEPT ![k] = Down] /\ server[k] # Down
      /\ UNCHANGED <<settingVars, users, requestVars, gatesRaced, serving>>
  BY DEF FailSeeding, CrashServer, Working, Down, userVars
<1>2. UNCHANGED <<revision, options>>
  BY <1>1 DEF settingVars
<1>3. crashes' \in 0 .. MaxCrashes
  <2>1. MaxCrashes \in Nat /\ crashes \in 0 .. MaxCrashes
    BY FirstUseAssumption DEF SettingsInv, DeployInv
  <2> QED
    BY <2>1 DEF FailSeeding, CrashServer
<1>4. revision = "catalog" /\ serving' \in BOOLEAN /\ DeployInv
  BY <1>1 DEF SettingsInv, DeployInv
<1>5. ~(Down \in Seeding)
  BY DEF Down, Seeding
<1>6. DeployInv'
  BY <1>1, <1>2, <1>3, <1>4, <1>5, ServerMoves
<1>7. RequestsInv'
  BY <1>1, <1>2, RequestsStay DEF SettingsInv
<1>8. SettingRows' /\ ChoicesAre'
  BY <1>1, SettingsStay DEF SettingsInv
<1> QED
  BY <1>6, <1>7, <1>8 DEF SettingsInv

\* A start-up that commits gives a user a default only where the user sees it already, or
\* where it overwrites a choice: the history tells which.
LEMMA CommitSeedingKeeps ==
    ASSUME SettingsInv, NEW k \in Server, CommitSeeding(k)
    PROVE  SettingsInv'
<1> PICK s : s = server[k]
  OBVIOUS
<1>1. /\ s.at \in {"script", "lifespan"}
      /\ options' = options \union s.missing /\ texts' = WithDefaults(s.rows)
      /\ overwritten' = overwritten \union Met(k)
      /\ server' = [server EXCEPT ![k] =
           IF @.at = "script" THEN [@ EXCEPT !.ready = TRUE, !.missing = {}, !.rows = {}] ELSE [at |-> "up"]]
      /\ serving' = (serving \/ s.at = "lifespan")
      /\ UNCHANGED <<revision, typed, chosen, users, requestVars, gatesRaced, crashes>>
  BY DEF CommitSeeding, Working, userVars
<1>2. s \in Seeding
  BY <1>1, SeedingKind DEF SettingsInv, DeployInv
<1>3. s.missing \subseteq Key /\ s.rows \subseteq Rows /\ \A row \in s.rows : row[2] \in options \union s.missing
  BY <1>2 DEF SettingsInv, DeployInv, Seeding
<1>4. revision = "catalog"
  BY <1>2 DEF SettingsInv, DeployInv, Seeding, Down
<1>5. DeployInv'
  <2> PICK t : t = IF s.at = "script" THEN [s EXCEPT !.ready = TRUE, !.missing = {}, !.rows = {}] ELSE [at |-> "up"]
    OBVIOUS
  <2>1. server' = [server EXCEPT ![k] = t]
    BY <1>1
  <2>2. CASE s.at = "script"
    <3>1. t \in Seeding /\ t.rows = {}
      BY <1>2, <2>2 DEF Seeding
    <3> QED
      BY <1>1, <1>4, <2>1, <3>1, ServerMoves DEF SettingsInv, DeployInv
  <2>3. CASE s.at # "script"
    <3>1. t = [at |-> "up"] /\ ~(t \in Seeding)
      BY <2>3 DEF Seeding
    <3> QED
      BY <1>1, <1>4, <2>1, <3>1, ServerMoves DEF SettingsInv, DeployInv
  <2> QED
    BY <2>2, <2>3
<1>6. RequestsInv'
  BY <1>1, RequestsStay DEF SettingsInv
<1>7. ASSUME NEW u \in User
      PROVE  /\ DOMAIN texts'[u] = {key \in Key : key \in DOMAIN texts[u] \/ <<u, key>> \in s.rows}
             /\ \A key \in DOMAIN texts'[u] :
                   texts'[u][key] = IF <<u, key>> \in s.rows THEN Catalog[key].default ELSE texts[u][key]
  BY <1>1, <1>7 DEF WithDefaults
<1>8. ASSUME NEW u \in User, NEW key \in DOMAIN texts'[u]
      PROVE  key \in options' /\ texts'[u][key] \in Text(key)
  <2>1. key \in Key
    BY <1>7, <1>8
  <2>2. CASE <<u, key>> \in s.rows
    <3>1. key \in options'
      BY <1>1, <1>3, <2>2
    <3> QED
      BY <1>7, <1>8, <2>1, <2>2, <3>1, DefaultText
  <2>3. CASE <<u, key>> \notin s.rows
    <3>1. key \in DOMAIN texts[u] /\ texts'[u][key] = texts[u][key]
      BY <1>7, <1>8, <2>3
    <3> QED
      BY <1>1, <3>1 DEF SettingsInv, SettingRows
  <2> QED
    BY <2>2, <2>3
<1>9. overwritten' \subseteq Rows
  BY <1>1, <1>3 DEF SettingsInv, SettingRows, Met
<1>10. DOMAIN texts' = User /\ options' \subseteq Key
  BY <1>1, <1>3 DEF WithDefaults, SettingsInv, SettingRows
<1>11. SettingRows'
  BY <1>1, <1>8, <1>9, <1>10 DEF SettingsInv, SettingRows
<1>12. ASSUME NEW u \in users, NEW key \in Key, <<u, key>> \notin overwritten'
       PROVE  Parsed(key, TextOf(u, key)') = chosen[u][key]
  <2>1. Parsed(key, TextOf(u, key)) = chosen[u][key]
    BY <1>1, <1>4, <1>12 DEF SettingsInv, ChoicesAre
  <2>2. u \in User
    BY DEF SettingsInv, SettingRows
  <2>3. CASE <<u, key>> \in s.rows
    <3>1. key \notin DOMAIN texts[u]
      BY <1>1, <1>12, <2>3 DEF Met
    <3>2. TextOf(u, key)' = Catalog[key].default /\ TextOf(u, key) = Catalog[key].default
      BY <1>7, <2>2, <2>3, <3>1 DEF TextOf
    <3> QED
      BY <2>1, <3>2
  <2>4. CASE <<u, key>> \notin s.rows
    <3>1. TextOf(u, key)' = TextOf(u, key)
      BY <1>7, <2>2, <2>4 DEF TextOf
    <3> QED
      BY <2>1, <3>1
  <2> QED
    BY <2>3, <2>4
<1>13. ChoicesAre'
  BY <1>1, <1>4, <1>12 DEF SettingsInv, ChoicesAre
<1> QED
  BY <1>5, <1>6, <1>11, <1>13 DEF SettingsInv

\* A request that has read its rows is in order; the settings stay.
LEMMA LoadsKeepSettings ==
    ASSUME SettingsInv, NEW c \in Client, NEW u \in User,
           \/ LoadRegister(c, u) \/ LoadSeedUser(c, u) \/ LoadLog(c, u)
           \/ \E key \in Key : \E v \in Setting(key) : LoadSet(c, u, key, v)
    PROVE  SettingsInv'
<1>1. UNCHANGED <<settingVars, users, deployVars>> /\ Free(c)
  BY DEF LoadRegister, LoadSeedUser, LoadLog, LoadSet, userVars
<1>2. UNCHANGED <<revision, options>>
  BY <1>1 DEF settingVars
<1>3. revision = "catalog"
  BY <1>1 DEF SettingsInv, DeployInv, Free
<1>4. requests' \in 0 .. MaxRequests
  <2>1. MaxRequests \in Nat /\ requests \in 0 .. MaxRequests /\ requests < MaxRequests /\ requests' = requests + 1
    BY <1>1, FirstUseAssumption DEF SettingsInv, RequestsInv, Free
  <2> QED
    BY <2>1
<1>5. gatesRaced' \in BOOLEAN
  BY DEF SettingsInv, RequestsInv, LoadRegister, LoadSeedUser, LoadLog, LoadSet, userVars
<1>6. PICK r : /\ firstReq' = [firstReq EXCEPT ![c] = r]
               /\ r \in {NoRequest} \union Joining \union Choice \union Logging
               /\ r \in Joining => r.keys \subseteq options
               /\ r \in Choice => r.user \in users /\ r.key \in options /\ r.text \in Text(r.key)
  <2>1. options \subseteq Key
    BY DEF SettingsInv, SettingRows
  <2>2. CASE LoadRegister(c, u) \/ LoadSeedUser(c, u)
    <3>1. PICK op \in {"register", "script"} : firstReq' = [firstReq EXCEPT ![c] = [op |-> op, user |-> u, keys |-> options]]
      BY <2>2 DEF LoadRegister, LoadSeedUser, ListCatalog
    <3> PICK r : r = [op |-> op, user |-> u, keys |-> options]
      OBVIOUS
    <3>2. r \in Joining /\ r.keys = options
      BY <2>1 DEF Joining
    <3>3. ~(r \in Choice)
      BY DEF Choice
    <3> QED
      BY <3>1, <3>2, <3>3
  <2>3. CASE LoadLog(c, u)
    <3> PICK r : r = [op |-> "log", user |-> u, heals |-> accounts[u] = 0]
      OBVIOUS
    <3>1. r \in Logging
      BY DEF Logging
    <3>2. ~(r \in Choice) /\ ~(r \in Joining)
      BY DEF Choice, Joining
    <3> QED
      BY <2>3, <3>1, <3>2 DEF LoadLog
  <2>4. CASE \E key \in Key : \E v \in Setting(key) : LoadSet(c, u, key, v)
    <3>1. PICK key \in Key : \E v \in Setting(key) : LoadSet(c, u, key, v)
      BY <2>4
    <3>2. PICK v \in Setting(key) : LoadSet(c, u, key, v)
      BY <3>1
    <3> PICK text : text = Serialized(key, v)
      OBVIOUS
    <3> PICK loaded : loaded = IF key \in DOMAIN texts[u] THEN {texts[u][key]} ELSE {}
      OBVIOUS
    <3> PICK r : r = [op |-> "set", user |-> u, key |-> key, text |-> text, loaded |-> loaded]
      OBVIOUS
    <3>3. text \in Text(key) /\ text \in AnyText
      BY DEF Text, AnyText
    <3>4. r \in Choice
      <4>1. key \in DOMAIN texts[u] => texts[u][key] \in AnyText
        BY DEF SettingsInv, SettingRows, AnyText
      <4>2. loaded \in {{}} \union {{some} : some \in AnyText}
        BY <4>1
      <4> QED
        BY <3>3, <4>2 DEF Choice
    <3>5. ~(r \in Joining)
      BY DEF Joining
    <3>6. r.user = u /\ r.key = key /\ r.text = text
      OBVIOUS
    <3>7. firstReq' = [firstReq EXCEPT ![c] = r] /\ u \in users /\ key \in options
      BY <3>2 DEF LoadSet
    <3>8. r \in Choice => r.user \in users /\ r.key \in options /\ r.text \in Text(r.key)
      BY <3>3, <3>6, <3>7
    <3> QED
      BY <3>4, <3>5, <3>7, <3>8
  <2> QED
    BY <2>2, <2>3, <2>4
<1>7. RequestsInv
  BY DEF SettingsInv
<1>8. r \in Joining => r.keys \subseteq options'
  BY <1>2, <1>6
<1>9. r \in Choice => r.user \in users' /\ r.key \in options' /\ r.text \in Text(r.key)
  BY <1>1, <1>2, <1>6
<1>10. RequestsInv'
  BY <1>1, <1>2, <1>3, <1>4, <1>5, <1>6, <1>7, <1>8, <1>9, RequestMoves
<1>11. DeployInv'
  BY <1>1, <1>2, DeployStays DEF SettingsInv
<1>12. SettingRows' /\ ChoicesAre'
  BY <1>1, SettingsStay DEF SettingsInv
<1> QED
  BY <1>10, <1>11, <1>12 DEF SettingsInv

\* A request ends; nothing else of the requests changes.
LEMMA RequestEnds ==
    ASSUME RequestsInv, NEW c \in Client, firstReq' = [firstReq EXCEPT ![c] = NoRequest],
           UNCHANGED <<revision, requests, gatesRaced, options>>, users \subseteq users'
    PROVE  RequestsInv'
<1>1. ~(NoRequest \in Joining) /\ ~(NoRequest \in Choice)
  BY DEF NoRequest, Joining, Choice
<1>2. requests' \in 0 .. MaxRequests /\ gatesRaced' \in BOOLEAN
  BY DEF RequestsInv
<1>3. PICK r : r = NoRequest
  OBVIOUS
<1> QED
  BY <1>1, <1>2, <1>3, RequestMoves

\* A user who joins sees the defaults, and has chosen nothing else.
LEMMA JoinKeepsSettings ==
    ASSUME SettingsInv, NEW c \in Client, CommitJoin(c)
    PROVE  SettingsInv'
<1> PICK r : r = firstReq[c]
  OBVIOUS
<1>1. /\ r.op \in {"register", "script"}
      /\ users' = users \union {r.user}
      /\ texts' = [texts EXCEPT ![r.user] = [key \in r.keys |-> Catalog[key].default]]
      /\ chosen' = [chosen EXCEPT ![r.user] = [key \in Key |-> Default(key)]]
      /\ firstReq' = [firstReq EXCEPT ![c] = NoRequest]
      /\ UNCHANGED <<revision, typed, options, overwritten, gatesRaced, deployVars, requests>>
  BY DEF CommitJoin
<1>2. r \in Joining /\ r.keys \subseteq options
  BY <1>1, FirstRequestKind DEF SettingsInv, RequestsInv
<1>3. r.user \in User /\ revision = "catalog" /\ r.keys \subseteq Key
  BY <1>1, <1>2 DEF SettingsInv, RequestsInv, NoRequest, Joining
<1>4. DeployInv'
  BY <1>1, DeployStays DEF SettingsInv
<1>5. RequestsInv'
  BY <1>1, RequestEnds DEF SettingsInv
<1>6. /\ DOMAIN texts' = User /\ DOMAIN chosen' = User
      /\ \A u \in User : u # r.user => texts'[u] = texts[u] /\ chosen'[u] = chosen[u]
      /\ texts'[r.user] = [key \in r.keys |-> Catalog[key].default]
      /\ chosen'[r.user] = [key \in Key |-> Default(key)]
  BY <1>1, <1>3 DEF SettingsInv, SettingRows
<1>7. \A u \in User : DOMAIN texts'[u] \subseteq options' /\ \A key \in DOMAIN texts'[u] : texts'[u][key] \in Text(key)
  <2>1. \A key \in r.keys : texts'[r.user][key] \in Text(key)
    BY <1>3, <1>6, DefaultText
  <2>2. DOMAIN texts'[r.user] = r.keys
    BY <1>6
  <2> QED
    BY <1>1, <1>2, <1>6, <2>1, <2>2 DEF SettingsInv, SettingRows
<1>8. \A u \in User : \A key \in DOMAIN chosen'[u] : chosen'[u][key] \in Setting(key) \union {Default(key)}
  BY <1>6 DEF SettingsInv, SettingRows
<1>9. \A u \in users' : DOMAIN chosen'[u] = Key
  BY <1>1, <1>6 DEF SettingsInv, SettingRows
<1>10. SettingRows'
  BY <1>1, <1>3, <1>6, <1>7, <1>8, <1>9 DEF SettingsInv, SettingRows
<1>11. ASSUME NEW u \in users', NEW key \in Key, <<u, key>> \notin overwritten'
       PROVE  Parsed(key, TextOf(u, key)') = chosen'[u][key]
  <2>1. CASE u = r.user
    <3>1. TextOf(u, key)' = Catalog[key].default /\ chosen'[u][key] = Default(key)
      BY <1>6, <2>1 DEF TextOf
    <3> QED
      BY <3>1, DefaultText
  <2>2. CASE u # r.user
    <3>1. u \in users /\ u \in User
      BY <1>1, <2>2 DEF SettingsInv, SettingRows
    <3>2. TextOf(u, key)' = TextOf(u, key) /\ chosen'[u][key] = chosen[u][key]
      BY <1>6, <2>2, <3>1 DEF TextOf
    <3>3. Parsed(key, TextOf(u, key)) = chosen[u][key]
      BY <1>1, <1>3, <1>11, <3>1 DEF SettingsInv, ChoicesAre
    <3> QED
      BY <3>2, <3>3
  <2> QED
    BY <2>1, <2>2
<1>12. ChoicesAre'
  BY <1>1, <1>3, <1>11 DEF SettingsInv, ChoicesAre
<1> QED
  BY <1>4, <1>5, <1>10, <1>12 DEF SettingsInv

\* A choice is written as the text that reads as what was chosen.
LEMMA SetKeepsSettings ==
    ASSUME SettingsInv, NEW c \in Client, CommitSet(c)
    PROVE  SettingsInv'
<1> PICK r : r = firstReq[c]
  OBVIOUS
<1>1. /\ r.op = "set"
      /\ texts' = [texts EXCEPT ![r.user] =
           [key \in DOMAIN @ \union {r.key} |-> IF key = r.key THEN Written(r) ELSE @[key]]]
      /\ chosen' = [chosen EXCEPT ![r.user][r.key] = Parsed(r.key, r.text)]
      /\ overwritten' = IF r.text \in r.loaded /\ texts[r.user][r.key] \notin r.loaded
                          THEN overwritten \union {<<r.user, r.key>>}
                          ELSE overwritten \ {<<r.user, r.key>>}
      /\ r.loaded = {} <=> r.key \notin DOMAIN texts[r.user]
      /\ firstReq' = [firstReq EXCEPT ![c] = NoRequest]
      /\ UNCHANGED <<revision, typed, options, users, gatesRaced, deployVars, requests>>
  BY DEF CommitSet, userVars
<1>2. r \in Choice /\ r.user \in users /\ r.key \in options /\ r.text \in Text(r.key)
  BY <1>1, FirstRequestKind DEF SettingsInv, RequestsInv
<1>3. r.user \in User /\ r.key \in Key /\ revision = "catalog"
  BY <1>1, <1>2 DEF SettingsInv, SettingRows, RequestsInv, NoRequest
<1>4. DeployInv'
  BY <1>1, DeployStays DEF SettingsInv
<1>5. RequestsInv'
  BY <1>1, RequestEnds DEF SettingsInv
<1> PICK written : written = Written(r)
  OBVIOUS
<1>6. written \in Text(r.key)
  <2>1. r.text \in r.loaded => r.key \in DOMAIN texts[r.user]
    BY <1>1
  <2>2. r.text \in r.loaded => texts[r.user][r.key] \in Text(r.key)
    BY <1>3, <2>1 DEF SettingsInv, SettingRows
  <2> QED
    BY <1>2, <2>2 DEF Written
<1>7. written = r.text \/ <<r.user, r.key>> \in overwritten'
  <2>1. CASE r.text \in r.loaded /\ texts[r.user][r.key] \notin r.loaded
    BY <1>1, <2>1
  <2>2. CASE r.text \in r.loaded /\ texts[r.user][r.key] \in r.loaded
    <3>1. r.loaded \in {{}} \union {{text} : text \in AnyText}
      BY <1>2 DEF Choice
    <3> QED
      BY <2>2, <3>1 DEF Written
  <2>3. CASE r.text \notin r.loaded
    BY <2>3 DEF Written
  <2> QED
    BY <2>1, <2>2, <2>3
<1>8. /\ DOMAIN texts' = User /\ DOMAIN chosen' = User
      /\ \A u \in User : u # r.user => texts'[u] = texts[u] /\ chosen'[u] = chosen[u]
  BY <1>1, <1>3 DEF SettingsInv, SettingRows
<1>9. /\ DOMAIN texts'[r.user] = DOMAIN texts[r.user] \union {r.key}
      /\ texts'[r.user][r.key] = written
      /\ \A key \in DOMAIN texts[r.user] : key # r.key => texts'[r.user][key] = texts[r.user][key]
  BY <1>1, <1>3 DEF SettingsInv, SettingRows
<1>10. DOMAIN chosen[r.user] = Key
  BY <1>2 DEF SettingsInv, SettingRows
<1>11. /\ DOMAIN chosen'[r.user] = Key
      /\ chosen'[r.user][r.key] = Parsed(r.key, r.text)
      /\ \A key \in Key : key # r.key => chosen'[r.user][key] = chosen[r.user][key]
  BY <1>1, <1>3, <1>10 DEF SettingsInv, SettingRows
<1>12. \A u \in User : DOMAIN texts'[u] \subseteq options' /\ \A key \in DOMAIN texts'[u] : texts'[u][key] \in Text(key)
  BY <1>1, <1>2, <1>8, <1>9, <1>6 DEF SettingsInv, SettingRows
<1>13. \A u \in User : \A key \in DOMAIN chosen'[u] : chosen'[u][key] \in Setting(key) \union {Default(key)}
  <2>1. Parsed(r.key, r.text) \in Setting(r.key) \union {Default(r.key)}
    BY <1>2, <1>3, TextReads
  <2> QED
    BY <1>8, <1>10, <1>11, <2>1 DEF SettingsInv, SettingRows
<1>14. \A u \in users' : DOMAIN chosen'[u] = Key
  BY <1>1, <1>8, <1>11 DEF SettingsInv, SettingRows
<1>15. overwritten' \subseteq Rows
  BY <1>1, <1>3 DEF SettingsInv, SettingRows, Rows
<1>16. SettingRows'
  BY <1>1, <1>8, <1>12, <1>13, <1>14, <1>15 DEF SettingsInv, SettingRows
<1>17. ASSUME NEW u \in users, NEW key \in Key, <<u, key>> \notin overwritten'
       PROVE  Parsed(key, TextOf(u, key)') = chosen'[u][key]
  <2>1. CASE u = r.user /\ key = r.key
    <3>1. written = r.text
      BY <1>7, <1>17, <2>1
    <3> QED
      BY <1>9, <1>11, <2>1, <3>1 DEF TextOf
  <2>2. CASE u # r.user \/ key # r.key
    <3>1. u \in User
      BY DEF SettingsInv, SettingRows
    <3>2. <<u, key>> # <<r.user, r.key>>
      BY <2>2
    <3>3. <<u, key>> \notin overwritten
      BY <1>1, <1>17, <3>2
    <3>4. Parsed(key, TextOf(u, key)) = chosen[u][key]
      BY <1>3, <3>3 DEF SettingsInv, ChoicesAre
    <3>5. TextOf(u, key)' = TextOf(u, key) /\ chosen'[u][key] = chosen[u][key]
      BY <1>8, <1>9, <1>11, <2>2, <3>1 DEF TextOf
    <3> QED
      BY <3>4, <3>5
  <2> QED
    BY <2>1, <2>2
<1>18. ChoicesAre'
  BY <1>1, <1>3, <1>17 DEF SettingsInv, ChoicesAre
<1> QED
  BY <1>4, <1>5, <1>16, <1>18 DEF SettingsInv

\* Every step keeps the settings in order.
LEMMA SettingsInvStep == SettingsInv /\ [FirstUseNext]_firstUseVars => SettingsInv'
<1> SUFFICES ASSUME SettingsInv, [FirstUseNext]_firstUseVars PROVE SettingsInv'
  OBVIOUS
<1>1. CASE Upgrade15 \/ Downgrade15 \/ UpgradeHead
  BY <1>1, FlatTableKeeps, UpgradeHeadKeeps
<1>2. ASSUME NEW k \in Server, BeginSeeding(k) \/ CommitSeeding(k) \/ FailSeeding(k) \/ CrashServer(k)
      PROVE  SettingsInv'
  BY <1>2, BeginSeedingKeeps, CommitSeedingKeeps, ServerDies
<1>3. ASSUME NEW c \in Client, NEW u \in User,
             \/ LoadRegister(c, u) \/ LoadSeedUser(c, u) \/ LoadLog(c, u)
             \/ \E key \in Key : \E v \in Setting(key) : LoadSet(c, u, key, v)
      PROVE  SettingsInv'
  BY <1>3, LoadsKeepSettings
<1>4. ASSUME NEW c \in Client, CommitJoin(c) \/ CommitSet(c) PROVE SettingsInv'
  BY <1>4, JoinKeepsSettings, SetKeepsSettings
<1>5. ASSUME NEW c \in Client, CommitLog(c) \/ RollBackFirst(c) PROVE SettingsInv'
  <2>1. /\ firstReq' = [firstReq EXCEPT ![c] = NoRequest]
        /\ UNCHANGED <<settingVars, users, deployVars, requests, gatesRaced>>
    BY <1>5 DEF CommitLog, RollBackFirst, userVars
  <2>2. UNCHANGED <<revision, options>>
    BY <2>1 DEF settingVars
  <2>3. RequestsInv'
    BY <2>1, <2>2, RequestEnds DEF SettingsInv
  <2>4. DeployInv'
    BY <2>1, <2>2, DeployStays DEF SettingsInv
  <2> QED
    BY <2>1, <2>3, <2>4, SettingsStay DEF SettingsInv
<1>6. CASE UNCHANGED firstUseVars
  <2>1. UNCHANGED <<settingVars, userVars, deployVars, requestVars>>
    BY <1>6 DEF firstUseVars, settingVars, userVars, deployVars, requestVars
  <2>2. UNCHANGED <<revision, options, users, gatesRaced>>
    BY <2>1 DEF settingVars, userVars
  <2> QED
    BY <2>1, <2>2, SettingsStay, DeployStays, RequestsStay DEF SettingsInv
<1> QED
  BY <1>1, <1>2, <1>3, <1>4, <1>5, <1>6 DEF FirstUseNext

\* It holds of a database at any revision.
LEMMA SettingsInvInit == FirstUseInit => SettingsInv
<1> SUFFICES ASSUME FirstUseInit PROVE SettingsInv
  OBVIOUS
<1>1. PICK row \in [Migrated -> UNION {Setting(key) : key \in Migrated}] :
        /\ \A key \in Migrated : row[key] \in Setting(key)
        /\ typed = IF revision = "catalog" THEN [u \in User |-> Empty]
                   ELSE [u \in User |-> IF Owner \in users /\ u = Owner THEN row ELSE Empty]
        /\ texts = IF revision = "catalog"
                   THEN [u \in User |-> IF Owner \in users /\ u = Owner THEN MovedToCatalog(row) ELSE Empty]
                   ELSE [u \in User |-> Empty]
        /\ chosen = [u \in User |-> IF Owner \in users /\ u = Owner
                                    THEN [key \in Key |-> IF key \in Migrated THEN row[key] ELSE Default(key)]
                                    ELSE Empty]
  BY DEF FirstUseInit
<1>2. /\ revision \in {"columns", "flat", "catalog"} /\ users \in {{}, {Owner}}
      /\ options = IF revision = "catalog" THEN Migrated ELSE {}
      /\ server = [k \in Server |-> Down] /\ serving = (revision = "catalog")
      /\ firstReq = [c \in Client |-> NoRequest]
      /\ crashes = 0 /\ requests = 0 /\ overwritten = {} /\ gatesRaced = FALSE
  BY DEF FirstUseInit
<1>3. DOMAIN Empty = {}
  <2>1. \A key \in DOMAIN << >> : FALSE
    OBVIOUS
  <2> QED
    BY <2>1 DEF Empty
<1>4. users \subseteq User /\ Owner \in User
  BY <1>2, FirstUseAssumption
<1>5. DOMAIN MovedToCatalog(row) = Migrated /\ \A key \in Migrated : MovedToCatalog(row)[key] = Serialized(key, row[key])
  <2>1. DOMAIN MovedToCatalog(row) = Migrated /\ \A key \in Migrated : MovedToCatalog(row)[key] = ColumnText(key, row[key])
    BY DEF MovedToCatalog
  <2>2. \A key \in Migrated : ColumnText(key, row[key]) = Serialized(key, row[key])
    BY <1>1, ColumnReads DEF Migrated
  <2> QED
    BY <2>1, <2>2
<1>6. \A key \in Migrated : MovedToCatalog(row)[key] \in Text(key)
  BY <1>1, <1>5 DEF Text
<1>7. SettingRows
  <2>1. DOMAIN typed = User /\ DOMAIN texts = User /\ DOMAIN chosen = User
    BY <1>1
  <2>2. ASSUME NEW u \in User
        PROVE  DOMAIN typed[u] \subseteq Migrated /\ \A key \in DOMAIN typed[u] : typed[u][key] \in Setting(key)
    <3>1. typed[u] = row \/ typed[u] = Empty
      BY <1>1, <2>2
    <3> QED
      BY <1>1, <1>3, <3>1
  <2>3. ASSUME NEW u \in User
        PROVE  DOMAIN texts[u] \subseteq options /\ \A key \in DOMAIN texts[u] : texts[u][key] \in Text(key)
    <3>1. (revision = "catalog" /\ texts[u] = MovedToCatalog(row)) \/ texts[u] = Empty
      BY <1>1, <2>3
    <3> QED
      BY <1>2, <1>3, <1>5, <1>6, <3>1
  <2>4. ASSUME NEW u \in User
        PROVE  \A key \in DOMAIN chosen[u] : chosen[u][key] \in Setting(key) \union {Default(key)}
    <3>1. chosen[u] = [key \in Key |-> IF key \in Migrated THEN row[key] ELSE Default(key)] \/ chosen[u] = Empty
      BY <1>1, <2>4
    <3> QED
      BY <1>1, <1>3, <3>1
  <2>5. \A u \in users : DOMAIN chosen[u] = Key
    BY <1>1, <1>2, <1>4
  <2>6. options \subseteq Key
    BY <1>2 DEF Migrated
  <2>7. overwritten \subseteq Rows
    BY <1>2
  <2> QED
    BY <1>4, <2>1, <2>2, <2>3, <2>4, <2>5, <2>6, <2>7 DEF SettingRows
<1>8. ChoicesAre
  <2>1. ASSUME NEW u \in users
        PROVE  u = Owner /\ Owner \in users /\ \A key \in Key : chosen[u][key] = IF key \in Migrated THEN row[key] ELSE Default(key)
    BY <1>1, <1>2, <1>4
  <2>2. CASE revision # "catalog"
    <3>1. \A u \in users : typed[u] = row
      BY <1>1, <1>4, <2>1, <2>2
    <3>2. \A u \in users : \A key \in Added : chosen[u][key] = Default(key)
      BY <2>1, SettingsAssumption DEF Migrated
    <3>3. \A u \in users : \A key \in Migrated : typed[u][key] = chosen[u][key]
      BY <2>1, <3>1 DEF Migrated
    <3> QED
      BY <1>2, <2>2, <3>1, <3>2, <3>3 DEF ChoicesAre
  <2>3. CASE revision = "catalog"
    <3>1. ASSUME NEW u \in users, NEW key \in Key
          PROVE  Parsed(key, TextOf(u, key)) = chosen[u][key]
      <4>1. texts[u] = MovedToCatalog(row)
        BY <1>1, <1>4, <2>1, <2>3
      <4>2. CASE key \in Migrated
        <5>1. TextOf(u, key) = Serialized(key, row[key])
          BY <1>5, <4>1, <4>2 DEF TextOf
        <5>2. Parsed(key, Serialized(key, row[key])) = row[key]
          BY <1>1, <4>2, ReadsBack
        <5> QED
          BY <2>1, <4>2, <5>1, <5>2
      <4>3. CASE key \notin Migrated
        <5>1. TextOf(u, key) = Catalog[key].default
          BY <1>5, <4>1, <4>3 DEF TextOf
        <5> QED
          BY <2>1, <4>3, <5>1, DefaultText
      <4> QED
        BY <4>2, <4>3
    <3> QED
      BY <2>3, <3>1 DEF ChoicesAre
  <2> QED
    BY <2>2, <2>3
<1>9. DeployInv
  <2>1. \A k \in Server : server[k] = Down /\ ~(server[k] \in Seeding)
    BY <1>2 DEF Down, Seeding
  <2>2. server \in [Server -> {Down, [at |-> "up"]} \union Seeding]
    BY <1>2
  <2>3. crashes \in 0 .. MaxCrashes
    BY <1>2, FirstUseAssumption
  <2> QED
    BY <1>2, <2>1, <2>2, <2>3 DEF DeployInv
<1>10. RequestsInv
  <2>1. \A c \in Client : firstReq[c] = NoRequest /\ ~(firstReq[c] \in Joining) /\ ~(firstReq[c] \in Choice)
    BY <1>2 DEF NoRequest, Joining, Choice
  <2>2. firstReq \in [Client -> {NoRequest} \union Joining \union Choice \union Logging]
    BY <1>2
  <2>3. requests \in 0 .. MaxRequests
    BY <1>2, FirstUseAssumption
  <2> QED
    BY <1>2, <2>1, <2>2, <2>3 DEF RequestsInv
<1> QED
  BY <1>7, <1>8, <1>9, <1>10 DEF SettingsInv

\* Whatever migrations, start-ups and overlapping requests do, a user sees the settings last
\* chosen, except where a start-up was just backfilling the option chosen, and where the
\* choice of what was there overlapped with another choice.
THEOREM SettingsAlwaysKept == FirstUseSpec => []SettingsKept
BY SettingsInvInit, SettingsInvStep, KeptByInv, PTL DEF FirstUseSpec

\* What the two invariants of the first use know of the types.
LEMMA FirstUseIsTyped == SettingsInv /\ FirstUseInv => FirstUseTypeOK
<1> SUFFICES ASSUME SettingsInv, FirstUseInv PROVE FirstUseTypeOK
  OBVIOUS
<1>1. registered \subseteq User /\ users \subseteq User
  BY DEF FirstUseInv, OneRegisters
<1>2. accounts \in [User -> Nat]
  BY DEF FirstUseInv, OneAccountEach
<1>3. /\ server \in [Server -> {Down, [at |-> "up"]} \union Seeding]
      /\ serving \in BOOLEAN /\ crashes \in 0 .. MaxCrashes
  BY DEF SettingsInv, DeployInv
<1>4. /\ firstReq \in [Client -> {NoRequest} \union Joining \union Choice \union Logging]
      /\ requests \in 0 .. MaxRequests /\ gatesRaced \in BOOLEAN
  BY DEF SettingsInv, RequestsInv
<1>5. revision \in {"columns", "flat", "catalog"}
  BY DEF SettingsInv, ChoicesAre
<1> QED
  BY <1>1, <1>2, <1>3, <1>4, <1>5 DEF SettingsInv, SettingRows, FirstUseTypeOK

\* The first use stays within its types.
THEOREM FirstUseTypeCorrect == FirstUseSpec => []FirstUseTypeOK
BY FirstUseInvInit, FirstUseInvStep, SettingsInvInit, SettingsInvStep, FirstUseIsTyped, PTL DEF FirstUseSpec

-----------------------------------------------------------------------------
(* All of them: a step of the run is a step of one component, at which the *)
(* others stutter.                                                         *)

\* A behaviour of all is one of each.
LEMMA EachUserPartRuns == UserSpec => DevicesSpec /\ ImportsSpec /\ ReceiptsSpec /\ BooksSpec /\ InboxSpec
<1>1. UserInit => DevicesInit /\ ImportsInit /\ ReceiptsInit /\ BooksInit /\ InboxInit
  BY DEF UserInit
<1>2. [UserNext]_userRunVars => [DevicesNext]_deviceVars
  BY DEF UserNext, userRunVars
<1>3. [UserNext]_userRunVars => [ImportsNext]_importVars
  BY DEF UserNext, userRunVars
<1>4. [UserNext]_userRunVars => [ReceiptsNext]_receiptVars
  BY DEF UserNext, userRunVars
<1>5. [UserNext]_userRunVars => [BooksNext]_bookVars
  BY DEF UserNext, userRunVars, BooksNext
<1>6. [UserNext]_userRunVars => [InboxNext]_inboxVars
  BY DEF UserNext, userRunVars
<1> QED
  BY <1>1, <1>2, <1>3, <1>4, <1>5, <1>6, PTL
     DEF UserSpec, DevicesSpec, ImportsSpec, ReceiptsSpec, BooksSpec, InboxSpec

\* The first use keeps its invariants among the others; fairness has no part in it.
LEMMA FirstUseAmongOthers == UserSpec => [](SettingsInv /\ FirstUseInv)
<1>1. UserInit => FirstUseInit
  BY DEF UserInit
<1>2. [UserNext]_userRunVars => [FirstUseNext]_firstUseVars
  BY DEF UserNext, userRunVars
<1> QED
  BY <1>1, <1>2, FirstUseInvInit, FirstUseInvStep, SettingsInvInit, SettingsInvStep, PTL DEF UserSpec

\* Every component stays within its types.
THEOREM UserTypesHold == UserSpec => []UserTypeOK
<1>1. FirstUseTypeOK /\ DevicesTypeOK /\ ImportsTypeOK /\ ReceiptsTypeOK /\ BooksTypeOK /\ InboxTypeOK => UserTypeOK
  BY DEF UserTypeOK
<1> QED
  BY <1>1, EachUserPartRuns, FirstUseAmongOthers, FirstUseIsTyped, DevicesTypeCorrect, ImportsTypeCorrect,
     ReceiptsTypeCorrect, BooksTypeCorrect, InboxTypeCorrect, PTL

\* What the user chose last is what there is: the settings, the budget, and the phone that
\* notifications are pushed to.
THEOREM ChoicesAreKept == UserSpec => []ChoicesKept
<1>1. SettingsKept /\ BudgetAsAnswered /\ PushesGoToTheUser => ChoicesKept
  BY DEF ChoicesKept
<1> QED
  BY <1>1, EachUserPartRuns, FirstUseAmongOthers, KeptByInv, BooksKeepTheBudget, BudgetIsAsAnswered,
     PushesAlwaysGoToTheUser, PTL
=============================================================================
