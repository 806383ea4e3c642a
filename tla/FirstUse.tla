------------------------------ MODULE FirstUse ------------------------------
(***************************************************************************)
(* From the database to the first request: the migrations of the settings, *)
(* the start-ups that seed the catalog and backfill every user's rows      *)
(* (entrypoint.sh, bootstrap/reference_data.py), the registration of a     *)
(* user with settings and account, and later changes of a setting.  Start- *)
(* ups of a new release overlap with each other and with requests that the *)
(* release before still serves.                                            *)
(***************************************************************************)
EXTENDS Requests, Settings

CONSTANTS
    User,           \* emails: users.email is unique
    Owner,          \* the user that is there when the release is deployed, if one is
    Server,         \* containers that start up
    MaxCrashes,     \* bound: start-ups that die in the middle
    MaxRequests     \* bound: requests

ASSUME FirstUseAssumption == Owner \in User /\ {MaxCrashes, MaxRequests} \subseteq Nat

VARIABLES
    revision,       \* what the settings are: columns of users, a flat table, or catalog and values
    typed,          \* user -> the row of setting columns
    options,        \* table configurations: the keys there are
    texts,          \* table user_configurations: user -> key -> text
    users,          \* table users
    accounts,       \* user -> number of accounts
    server,         \* container -> where its start-up is, and what it has read
    serving,        \* requests are answered
    firstReq,       \* client -> its request in flight
    crashes,
    requests,       \* requests so far
    chosen,         \* history: user -> key -> the setting the user chose last
    overwritten,    \* history: users and keys where a backfill met a choice made meanwhile,
                    \* or where a choice of what was read met another choice
    registered,     \* history: users that registered
    gatesRaced      \* history: registrations that overlapped

firstUseVars == <<revision, typed, options, texts, users, accounts, server, serving, firstReq,
                  crashes, requests, chosen, overwritten, registered, gatesRaced>>
settingVars == <<revision, typed, options, texts, chosen, overwritten>>
userVars == <<users, accounts, registered, gatesRaced>>
deployVars == <<server, serving, crashes>>
requestVars == <<firstReq, requests>>

Down == [at |-> "down"]
Rows == User \X Key

Joining == [op : {"register", "script"}, user : User, keys : SUBSET Key]
AnyText == UNION {Text(key) : key \in Key}
\* loaded: the texts of the row that is there; none where there is no row.
Choice == [op : {"set"}, user : User, key : Key, text : AnyText, loaded : {{}} \union {{text} : text \in AnyText}]
Logging == [op : {"log"}, user : User, heals : BOOLEAN]
Seeding == [at : {"script", "lifespan"}, ready : BOOLEAN, missing : SUBSET Key, rows : SUBSET Rows]

FirstUseTypeOK ==
    /\ revision \in {"columns", "flat", "catalog"}
    /\ \A u \in User : DOMAIN typed[u] \subseteq Migrated /\ \A key \in DOMAIN typed[u] : typed[u][key] \in Setting(key)
    /\ options \subseteq Key
    /\ \A u \in User : DOMAIN texts[u] \subseteq options /\ \A key \in DOMAIN texts[u] : texts[u][key] \in Text(key)
    /\ users \subseteq User
    /\ accounts \in [User -> Nat]
    /\ server \in [Server -> {Down, [at |-> "up"]} \union Seeding]
    /\ serving \in BOOLEAN
    /\ firstReq \in [Client -> {NoRequest} \union Joining \union Choice \union Logging]
    /\ crashes \in 0 .. MaxCrashes
    /\ requests \in 0 .. MaxRequests
    /\ \A u \in User : \A key \in DOMAIN chosen[u] : chosen[u][key] \in Setting(key) \union {Default(key)}
    /\ overwritten \subseteq Rows
    /\ registered \subseteq User
    /\ gatesRaced \in BOOLEAN

Empty == << >>

\* A database at any of the three revisions, with its user or, before the first, without.
FirstUseInit ==
    /\ revision \in {"columns", "flat", "catalog"}
    /\ users \in {{}, {Owner}}
    /\ \E row \in [Migrated -> UNION {Setting(key) : key \in Migrated}] :
         /\ \A key \in Migrated : row[key] \in Setting(key)
         /\ LET has == Owner \in users
                kept(r) == [u \in User |-> IF has /\ u = Owner THEN r ELSE Empty] IN
            /\ ~has => row = ServerDefaults
            /\ typed = IF revision = "catalog" THEN [u \in User |-> Empty] ELSE kept(row)
            /\ texts = IF revision = "catalog" THEN kept(MovedToCatalog(row)) ELSE [u \in User |-> Empty]
            /\ chosen = kept([key \in Key |-> IF key \in Migrated THEN row[key] ELSE Default(key)])
    /\ options = IF revision = "catalog" THEN Migrated ELSE {}
    /\ accounts = [u \in User |-> IF u \in users THEN 1 ELSE 0]
    /\ server = [k \in Server |-> Down]
    /\ serving = (revision = "catalog")
    /\ firstReq = [c \in Client |-> NoRequest]
    /\ crashes = 0
    /\ requests = 0
    /\ overwritten = {}
    /\ registered = {}
    /\ gatesRaced = FALSE

-----------------------------------------------------------------------------
(* Migrations: each run of alembic is one transaction.                     *)

Upgrade15 ==
    /\ revision = "columns"
    /\ revision' = "flat"
    /\ typed' = [u \in User |-> IF u \in users THEN MovedOut(typed[u]) ELSE typed[u]]
    /\ UNCHANGED <<options, texts, chosen, overwritten, userVars, deployVars, requestVars>>

Downgrade15 ==
    /\ revision = "flat"
    /\ revision' = "columns"
    /\ typed' = [u \in User |-> IF u \in users THEN MovedBack(typed[u]) ELSE typed[u]]
    /\ UNCHANGED <<options, texts, chosen, overwritten, userVars, deployVars, requestVars>>

\* entrypoint.sh: alembic upgrade head.
UpgradeHead ==
    /\ revision # "catalog"
    /\ revision' = "catalog"
    /\ options' = Migrated
    /\ texts' = [u \in User |-> IF u \in users THEN MovedToCatalog(MovedOut(typed[u])) ELSE texts[u]]
    /\ typed' = [u \in User |-> Empty]
    /\ UNCHANGED <<chosen, overwritten, userVars, deployVars, requestVars>>

-----------------------------------------------------------------------------
(* Start-ups: scripts/seed_reference_data.py, then the API's lifespan.     *)

\* list_catalog.
ListCatalog == options

\* Mutation of MissingOptions: seed_catalog inserts without looking.
MissingOptions_All == Key

\* seed_catalog, get_by_key: the options that are not there yet.
MissingOptions == Key \ options

\* initialize_user_defaults: the users' rows that are not there yet.
MissingRows(opts) == {ur \in users \X opts : ur[2] \notin DOMAIN texts[ur[1]]}

BeginSeeding(k) ==
    /\ revision = "catalog"
    /\ \/ server[k] = Down
       \/ server[k].at = "script" /\ server[k].ready
    /\ server' = [server EXCEPT ![k] =
         [at |-> IF @ = Down THEN "script" ELSE "lifespan", ready |-> FALSE,
          missing |-> MissingOptions, rows |-> MissingRows(ListCatalog \union MissingOptions)]]
    /\ UNCHANGED <<settingVars, userVars, serving, crashes, requestVars>>

Working(k) == server[k].at \in {"script", "lifespan"} /\ ~server[k].ready

\* texts with the rows `rs` set to the defaults.
WithDefaults(rs) ==
    [u \in User |-> [key \in {k \in Key : k \in DOMAIN texts[u] \/ <<u, k>> \in rs} |->
                      IF <<u, key>> \in rs THEN Catalog[key].default ELSE texts[u][key]]]

\* upsert_user_value looks again: the choice a user made in between is overwritten ...
Met(k) == {ur \in server[k].rows : ur[2] \in DOMAIN texts[ur[1]]}

CommitSeeding(k) ==
    /\ Working(k)
    /\ server[k].missing \intersect options = {}
    /\ options' = options \union server[k].missing
    /\ texts' = WithDefaults(server[k].rows)
    /\ overwritten' = overwritten \union Met(k)
    /\ server' = [server EXCEPT ![k] =
         IF @.at = "script" THEN [@ EXCEPT !.ready = TRUE, !.missing = {}, !.rows = {}] ELSE [at |-> "up"]]
    /\ serving' = (serving \/ server[k].at = "lifespan")
    /\ UNCHANGED <<revision, typed, chosen, userVars, crashes, requestVars>>

\* ... or the INSERT meets a unique constraint: the start-up fails, and is tried again.
FailSeeding(k) ==
    /\ Working(k)
    /\ server[k].missing \intersect options # {} \/ Met(k) # {}
    /\ server' = [server EXCEPT ![k] = Down]
    /\ UNCHANGED <<settingVars, userVars, serving, crashes, requestVars>>

CrashServer(k) ==
    /\ server[k] # Down
    /\ crashes < MaxCrashes
    /\ crashes' = crashes + 1
    /\ server' = [server EXCEPT ![k] = Down]
    /\ UNCHANGED <<settingVars, userVars, serving, requestVars>>

-----------------------------------------------------------------------------
(* Requests.                                                               *)

Free(c) ==
    /\ serving
    /\ firstReq[c] = NoRequest
    /\ requests < MaxRequests
    /\ requests' = requests + 1

\* Mutation of MayRegister: the gate is left open.
MayRegister_Always == TRUE

\* register: only while there is no user.
MayRegister == users = {}

Joiners == {c \in Client : firstReq[c].op = "register"}

LoadRegister(c, u) ==
    /\ Free(c)
    /\ MayRegister
    /\ firstReq' = [firstReq EXCEPT ![c] = [op |-> "register", user |-> u, keys |-> ListCatalog]]
    /\ gatesRaced' = (gatesRaced \/ Joiners # {})
    /\ UNCHANGED <<settingVars, users, accounts, registered, deployVars>>

\* scripts/seed.py looks for the email only.
LoadSeedUser(c, u) ==
    /\ Free(c)
    /\ u \notin users
    /\ firstReq' = [firstReq EXCEPT ![c] = [op |-> "script", user |-> u, keys |-> ListCatalog]]
    /\ UNCHANGED <<settingVars, userVars, deployVars>>

\* ensure_default_account, for a user that has none.
NewAccounts(u) == [accounts EXCEPT ![u] = @ + 1]

\* create_user, its default settings and its account: one commit, unless the email is taken.
CommitJoin(c) ==
    LET r == firstReq[c] IN
    /\ r.op \in {"register", "script"}
    /\ r.user \notin users
    /\ users' = users \union {r.user}
    /\ texts' = [texts EXCEPT ![r.user] = [key \in r.keys |-> Catalog[key].default]]
    /\ accounts' = NewAccounts(r.user)
    /\ chosen' = [chosen EXCEPT ![r.user] = [key \in Key |-> Default(key)]]
    /\ registered' = registered \union (IF r.op = "register" THEN {r.user} ELSE {})
    /\ firstReq' = [firstReq EXCEPT ![c] = NoRequest]
    /\ UNCHANGED <<revision, typed, options, overwritten, gatesRaced, deployVars, requests>>

\* set_values: the option is in the catalog, and the value is one it allows.
LoadSet(c, u, key, v) ==
    /\ Free(c)
    /\ u \in users
    /\ key \in options
    /\ v \in Catalog[key].allowed
    /\ firstReq' = [firstReq EXCEPT ![c] =
         [op |-> "set", user |-> u, key |-> key, text |-> Serialized(key, v),
          loaded |-> IF key \in DOMAIN texts[u] THEN {texts[u][key]} ELSE {}]]
    /\ UNCHANGED <<settingVars, userVars, deployVars>>

\* upsert_user_value: a row that was not there is inserted, and must not be there by now
\* (one that was there stays); a text that was there already needs no UPDATE, so that the row
\* keeps what it has by now.
Written(r) == IF r.text \in r.loaded THEN texts[r.user][r.key] ELSE r.text

CommitSet(c) ==
    LET r == firstReq[c] IN
    /\ r.op = "set"
    /\ r.loaded = {} <=> r.key \notin DOMAIN texts[r.user]
    /\ texts' = [texts EXCEPT ![r.user] =
         [key \in DOMAIN @ \union {r.key} |-> IF key = r.key THEN Written(r) ELSE @[key]]]
    /\ chosen' = [chosen EXCEPT ![r.user][r.key] = Parsed(r.key, r.text)]
    /\ overwritten' = IF r.text \in r.loaded /\ texts[r.user][r.key] \notin r.loaded
                        THEN overwritten \union {<<r.user, r.key>>}
                        ELSE overwritten \ {<<r.user, r.key>>}
    /\ firstReq' = [firstReq EXCEPT ![c] = NoRequest]
    /\ UNCHANGED <<revision, typed, options, userVars, deployVars, requests>>

\* get_default_account_id: what every request that records a transaction does first.
LoadLog(c, u) ==
    /\ Free(c)
    /\ u \in users
    /\ firstReq' = [firstReq EXCEPT ![c] = [op |-> "log", user |-> u, heals |-> accounts[u] = 0]]
    /\ UNCHANGED <<settingVars, userVars, deployVars>>

CommitLog(c) ==
    LET r == firstReq[c] IN
    /\ r.op = "log"
    /\ accounts' = IF r.heals THEN [accounts EXCEPT ![r.user] = @ + 1] ELSE accounts
    /\ firstReq' = [firstReq EXCEPT ![c] = NoRequest]
    /\ UNCHANGED <<settingVars, users, registered, gatesRaced, deployVars, requests>>

RollBackFirst(c) ==
    /\ firstReq[c] # NoRequest
    /\ firstReq' = [firstReq EXCEPT ![c] = NoRequest]
    /\ UNCHANGED <<settingVars, userVars, deployVars, requests>>

-----------------------------------------------------------------------------
FirstUseNext ==
    \/ Upgrade15
    \/ Downgrade15
    \/ UpgradeHead
    \/ \E k \in Server : BeginSeeding(k) \/ CommitSeeding(k) \/ FailSeeding(k) \/ CrashServer(k)
    \/ \E c \in Client, u \in User :
          \/ LoadRegister(c, u)
          \/ LoadSeedUser(c, u)
          \/ LoadLog(c, u)
          \/ \E key \in Key : \E v \in Setting(key) : LoadSet(c, u, key, v)
    \/ \E c \in Client : CommitJoin(c) \/ CommitSet(c) \/ CommitLog(c) \/ RollBackFirst(c)

\* The platform runs the entrypoint of every container, and again when it failed.
StartUp(k) == BeginSeeding(k) \/ CommitSeeding(k)

StartUpFairness == WF_firstUseVars(UpgradeHead) /\ \A k \in Server : WF_firstUseVars(StartUp(k))

FirstUseSpec == FirstUseInit /\ [][FirstUseNext]_firstUseVars /\ StartUpFairness

-----------------------------------------------------------------------------
(* Properties.                                                             *)

\* get_resolved_map, or the column where there is no catalog yet.
Resolved(u, key) ==
    CASE revision # "catalog" -> typed[u][key]
      [] revision = "catalog" /\ key \in DOMAIN texts[u] -> Parsed(key, texts[u][key])
      [] OTHER -> Default(key)

Shown == IF revision = "catalog" THEN options ELSE Migrated

\* Whatever the migrations, the seeding at every start and overlapping requests do, a user
\* sees the settings last chosen, but for two overlaps: a choice of an option that a start-up
\* was just backfilling for that user, and a choice of the value that was there when another
\* one was stored in between.
SettingsKept ==
    \A u \in users, key \in Shown : <<u, key>> \in overwritten \/ Resolved(u, key) = chosen[u][key]

\* A user has one account from the first moment and for ever, and only one user registers,
\* unless registrations overlapped: the check and the write are two steps.
FirstUseIsSound ==
    /\ \A u \in users : accounts[u] = 1
    /\ Cardinality(registered) > 1 => gatesRaced

\* However often start-ups die, or fail because another one seeds the same option, every
\* option is in the catalog in the end.
CatalogCompletes == <>[](revision = "catalog" /\ options = Key)
=============================================================================
