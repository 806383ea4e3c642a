------------------------------ MODULE Settings ------------------------------
(***************************************************************************)
(* The user's settings: the catalog of options (api/v1/configuration), the *)
(* migrations that moved the settings into it (alembic 0015 and 0016), and *)
(* the conversions between a setting, its database column and its text.    *)
(***************************************************************************)
EXTENDS Integers, FiniteSets, TLC

CONSTANTS
    Key,            \* bound: the options the runs follow
    Added,          \* of them, options a release added to catalog.py after migration 0016
    Number          \* values of integer settings

-----------------------------------------------------------------------------
OnByDefault ==
    {"week_start_monday", "digest_enabled", "sound_enabled", "pin_lock_enabled",
     "fingerprint_login_enabled", "password_protection_enabled", "auto_lock_enabled",
     "cloud_backup_enabled", "e2e_encryption_enabled", "two_factor_enabled"}
OffByDefault ==
    {"dark_mode", "round_up_savings", "face_id_enabled", "hide_sensitive_amounts",
     "privacy_mode_enabled", "local_backup_enabled"}

\* CONFIGURATION_DEFINITIONS: type, default text and allowed values of each option.
Catalog ==
    [key \in OnByDefault \union OffByDefault \union {"currency", "month_start_day", "auto_logout_minutes"} |->
       CASE key \in OnByDefault -> [type |-> "boolean", default |-> "true", allowed |-> BOOLEAN]
         [] key \in OffByDefault -> [type |-> "boolean", default |-> "false", allowed |-> BOOLEAN]
         [] key = "currency" -> [type |-> "string", default |-> "INR", allowed |-> {"INR"}]
         [] key = "month_start_day" -> [type |-> "integer", default |-> "1", allowed |-> 1 .. 28]
         [] key = "auto_logout_minutes" -> [type |-> "integer", default |-> "5", allowed |-> {1, 5, 15, 30}]]

ProfileKeys ==
    {"currency", "month_start_day", "dark_mode", "week_start_monday", "round_up_savings",
     "digest_enabled", "sound_enabled"}
SecurityKeys == DOMAIN Catalog \ ProfileKeys

ASSUME SettingsAssumption == Key \subseteq DOMAIN Catalog /\ Added \subseteq Key /\ Number \subseteq Nat

Migrated == Key \ Added

\* What the column of an option, or a request, can hold.
Setting(key) ==
    CASE Catalog[key].type = "boolean" -> BOOLEAN
      [] Catalog[key].type = "integer" -> Number
      [] Catalog[key].type = "string" -> Catalog[key].allowed

\* str() of an integer, and a cast of the column to text.
NumberText(n) == ToString(n)

\* parse_value's int() reads it back.
NumberOf(text) == CHOOSE n \in Number \union {1, 5} : NumberText(n) = text

\* Different integers have different texts, and the two defaults are texts of theirs.
ASSUME NumbersReadBack ==
    /\ \A m, n \in Number \union {1, 5} : NumberText(m) = NumberText(n) => m = n
    /\ NumberText(1) = "1" /\ NumberText(5) = "5"

\* serialize_value.
Serialized(key, v) ==
    CASE Catalog[key].type = "boolean" -> IF v THEN "true" ELSE "false"
      [] Catalog[key].type = "integer" -> NumberText(v)
      [] Catalog[key].type = "string" -> v

\* parse_value.
Parsed(key, text) ==
    CASE Catalog[key].type = "boolean" -> text \in {"true", "1", "yes"}
      [] Catalog[key].type = "integer" -> NumberOf(text)
      [] Catalog[key].type = "string" -> text

Default(key) == Parsed(key, Catalog[key].default)

Text(key) == {Serialized(key, v) : v \in Setting(key) \union {Default(key)}}

-----------------------------------------------------------------------------
(* The migrations.  A typed row has a column per migrated option.          *)

ServerDefaults == [key \in Migrated |-> Default(key)]

\* Migration 0015 copies the columns of users into user_configurations.
MovedOut(row) == [key \in Migrated |-> row[key]]

\* Mutation of MovedBack: the columns are added again, and not filled.
MovedBack_Empty(row) == ServerDefaults

\* Its downgrade adds the columns with their defaults, and copies the row back over them.
MovedBack(row) == [key \in Migrated |-> IF key \in DOMAIN row THEN row[key] ELSE ServerDefaults[key]]

\* FLAT_COLUMN_MAP: CASE WHEN for booleans, ::text for integers.
ColumnText(key, v) ==
    CASE Catalog[key].type = "boolean" -> (CASE v -> "true" [] ~v -> "false")
      [] Catalog[key].type = "integer" -> NumberText(v)
      [] Catalog[key].type = "string" -> v

\* Migration 0016: a row (user, option, text) for every column, joined on the key.
MovedToCatalog(row) == [key \in Migrated |-> ColumnText(key, row[key])]
=============================================================================
