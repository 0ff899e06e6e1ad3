------------------------------- MODULE Settings -------------------------------
(***************************************************************************)
(* Table system_settings: what a start makes of it, the PUT requests that  *)
(* replace a row under one lock and refresh afterwards what was built from *)
(* it, and the password change, which writes its row without the lock.     *)
(*                                                                         *)
(* A row's value is its body (endpoint, channel, level and directory, user *)
(* name), its secret and the flag enabled.  The API never shows a secret:  *)
(* it answers with a placeholder, and a client that echoes the placeholder *)
(* means the stored secret.                                                *)
(***************************************************************************)
EXTENDS Naturals, Sequences, FiniteSets

CONSTANTS
  Clients,     \* concurrent API requests
  Nobody,      \* not one of them
  Offered,     \* the values a PUT may bring: a set of rows for every key
  Texts,       \* what rows and secrets may hold
  Passwords,   \* passwords of the administrator
  Faults       \* what may go wrong: "database", "uv", "browser", "channel", "probe"

Keys     == {"cdp", "logging", "telegram", "webhook", "admin"}
Channels == {"telegram", "webhook"}

(* Secrets: absent or empty, a text, its Argon2id hash, the placeholder.   *)
NoSecret    == [form |-> "none", of |-> ""]
Text(x)     == [form |-> "text", of |-> x]
Hash(x)     == [form |-> "hash", of |-> x]
Placeholder == [form |-> "placeholder", of |-> ""]

(* Shapes: JSON objects, other JSON values that are not empty, no row.     *)
Object(body, secret, enabled) ==
  [shape |-> "object", body |-> body, secret |-> secret, enabled |-> enabled]
OtherValue == [Object("", NoSecret, "yes") EXCEPT !.shape = "other"]
NoRow      == [Object("", NoSecret, "no") EXCEPT !.shape = "absent"]
EmptyObject == Object("keyless", NoSecret, "yes")

Secrets == {NoSecret, Placeholder} \cup [form : {"text", "hash"}, of : Texts]
Rows    == [shape : {"object", "other", "absent"}, body : Texts, secret : Secrets,
            enabled : {"yes", "no"}]

ASSUME SettingsOK ==
  /\ Nobody \notin Clients
  /\ {"", "admin", "default", "keyless"} \cup Passwords \subseteq Texts
  /\ Offered \in [Keys -> SUBSET Rows]
  /\ \A k \in Keys : \A v \in Offered[k] :
       v.shape = "object" \/ (v.shape = "other" /\ v.secret = NoSecret)

VARIABLES
  process,   \* "down", "restoring", "up"; "refused" when the start raised
  rows,      \* the table
  updates,   \* the request that holds SystemSettingService._updates
  request,   \* the requests that write settings
  cache,     \* _setting_cache[("browser", "cdp")]
  sinks,     \* the logging row the sinks were built from; a sink nobody tracks
  tainted    \* "yes" once the last refresh of cache failed or ran beside another

settingsVars == <<process, rows, updates, request, cache, sinks, tainted>>

RequestIdle == [pc |-> "idle", key |-> "cdp", value |-> NoRow, seen |-> NoRow, alone |-> "yes"]

SettingsInit ==
  /\ process = "down"
  /\ rows = [k \in Keys |-> NoRow]
  /\ updates = Nobody
  /\ request = [c \in Clients |-> RequestIdle]
  /\ cache = EmptyObject
  /\ sinks = [config |-> "default", leaked |-> "no"]
  /\ tainted = "no"

-----------------------------------------------------------------------------
(* _redact_row. *)
Redact(row) == IF row.shape = "object" /\ row.secret # NoSecret
               THEN [row EXCEPT !.secret = Placeholder] ELSE row

(* loguru.configure: an unknown level raises before a sink was added, an   *)
(* unusable directory after the console sink was.                          *)
Configured(body) ==
  IF body = "badlevel" THEN sinks
  ELSE IF body = "baddirectory" THEN [sinks EXCEPT !.leaked = "yes"]
  ELSE [sinks EXCEPT !.config = body]

ConfigureRaises(body) == body \in {"badlevel", "baddirectory"}

-----------------------------------------------------------------------------
(* Start.                                                                  *)
Defaults == [k \in Keys |->
  IF k = "admin" THEN Object("admin", Hash("admin"), "yes") ELSE Object("default", NoSecret, "yes")]

\* Mutant of Seeded: only a missing row is filled in.
SeededOnce(k) == IF rows[k].shape = "absent" THEN Defaults[k] ELSE rows[k]

(* bootstrap: fills in what is missing and, the credentials apart, what is *)
(* not an object or an empty one.                                          *)
Seeded(k) ==
  IF rows[k].shape = "absent" THEN Defaults[k]
  ELSE IF k # "admin" /\ (rows[k].shape = "other" \/ (rows[k].body = "keyless" /\ rows[k].secret = NoSecret))
  THEN [Defaults[k] EXCEPT !.enabled = rows[k].enabled]
  ELSE rows[k]

(* _initialize up to the dependencies; an exception ends the process.      *)
SettingsStart ==
  /\ process \in {"down", "refused"}
  /\ LET seeded == [k \in Keys |-> Seeded(k)]
         raises == ConfigureRaises(seeded["logging"].body) \/ seeded["cdp"].shape = "other"
     IN  /\ rows' = seeded
         /\ process' = IF raises THEN "refused" ELSE "restoring"
         /\ cache' = IF raises THEN EmptyObject ELSE Redact(seeded["cdp"])
         /\ sinks' = [config |-> IF raises THEN "default" ELSE seeded["logging"].body,
                      leaked |-> "no"]
  /\ tainted' = "no"
  /\ UNCHANGED <<updates, request>>

(* The end of _initialize: the process serves requests. *)
SettingsReady ==
  /\ process = "restoring"
  /\ process' = "up"
  /\ UNCHANGED <<rows, updates, request, cache, sinks, tainted>>

(* Killed: what is not in the table is gone. *)
SettingsCrash ==
  /\ process \in {"restoring", "up"}
  /\ process' = "down"
  /\ updates' = Nobody
  /\ request' = [c \in Clients |-> RequestIdle]
  /\ cache' = EmptyObject
  /\ sinks' = [config |-> "default", leaked |-> "no"]
  /\ tainted' = "no"
  /\ UNCHANGED rows

-----------------------------------------------------------------------------
(* put.                                                                    *)

(* Another PUT of the same key is under way. *)
Beside(c, k) ==
  {d \in Clients \ {c} : request[d].pc \in {"merging", "refreshing", "applying"} /\ request[d].key = k}

\* Mutant of LockFree: the lock is dropped.
LockIgnored(c) == TRUE

LockFree(c) == updates = Nobody

(* _validate_schema refuses a logging value that is not an object. *)
Accepted(k, value) == k = "logging" => value.shape = "object"

PutArrives(c, k, value) ==
  /\ process = "up" /\ Accepted(k, value)
  /\ request[c].pc = "idle"
  /\ request' = [request EXCEPT ![c] =
       [RequestIdle EXCEPT !.pc = "waiting", !.key = k, !.value = value]]
  /\ UNCHANGED <<process, rows, updates, cache, sinks, tainted>>

(* The row is read under the lock. *)
PutReads(c) ==
  /\ request[c].pc = "waiting" /\ LockFree(c)
  /\ updates' = c
  /\ LET k == request[c].key
     IN  request' = [d \in Clients |->
           IF d = c THEN [request[c] EXCEPT !.pc = "merging", !.seen = rows[k],
                                            !.alone = IF Beside(c, k) = {} THEN "yes" ELSE "no"]
           ELSE IF d \in Beside(c, k) THEN [request[d] EXCEPT !.alone = "no"]
           ELSE request[d]]
  /\ UNCHANGED <<process, rows, cache, sinks, tainted>>

\* Mutant of Merged: a password is taken as it comes.
MergedUnhashed(k, row, value) ==
  IF value.secret = Placeholder THEN [value EXCEPT !.secret = row.secret] ELSE value

(* _merge_secrets: the placeholder stands for the stored secret, a hashed  *)
(* password stays, and what is left of passwords is hashed.                *)
Merged(k, row, value) ==
  LET secret == value.secret
  IN  [value EXCEPT !.secret =
         IF secret = Placeholder \/ (k = "admin" /\ secret # NoSecret /\ row.secret.form = "hash")
         THEN row.secret
         ELSE IF k = "admin" /\ secret.form = "text" THEN Hash(secret.of)
         ELSE secret]

(* dict() of a stored string raises. *)
CannotMerge(c) == request[c].value.shape = "object" /\ request[c].seen.shape = "other"

Refreshed == {"cdp", "logging"}

PutCommits(c) ==
  /\ request[c].pc = "merging" /\ ~CannotMerge(c)
  /\ LET k == request[c].key
         value == request[c].value
     IN  /\ rows' = [rows EXCEPT ![k] =
                       IF value.shape = "object" THEN Merged(k, request[c].seen, value) ELSE value]
         /\ request' = [request EXCEPT ![c] =
                          IF k \in Refreshed THEN [@ EXCEPT !.pc = "refreshing"] ELSE RequestIdle]
  /\ updates' = Nobody
  /\ UNCHANGED <<process, cache, sinks, tainted>>

\* Mutant of AfterFailure: an error leaves the lock taken.
LockKept(c) == c

AfterFailure(c) == Nobody

PutFails(c) ==
  /\ request[c].pc = "merging"
  /\ CannotMerge(c) \/ "database" \in Faults
  /\ request' = [request EXCEPT ![c] = RequestIdle]
  /\ updates' = AfterFailure(c)
  /\ UNCHANGED <<process, rows, cache, sinks, tainted>>

(* _on_setting_updated reads the row again, after the lock was released;   *)
(* _read_setting answers {} when the database fails.                       *)
RefreshReads(c) ==
  /\ request[c].pc = "refreshing"
  /\ \E seen \in {Redact(rows[request[c].key])} \cup (IF "database" \in Faults THEN {NoRow} ELSE {}) :
       request' = [request EXCEPT ![c].seen = seen, ![c].pc = "applying"]
  /\ UNCHANGED <<process, rows, updates, cache, sinks, tainted>>

\* Mutant of CacheAfter: a written endpoint waits for a restart.
CacheUntilRestart(seen) == cache

(* A string raises, and the cache stays. *)
CacheAfter(seen) ==
  IF seen.shape = "object" THEN seen ELSE IF seen.shape = "absent" THEN EmptyObject ELSE cache

RefreshApplies(c) ==
  /\ request[c].pc = "applying"
  /\ LET seen == request[c].seen
     IN  \/ /\ request[c].key = "cdp"
            /\ cache' = CacheAfter(seen)
            /\ tainted' = IF seen.shape # "object" \/ request[c].alone = "no" THEN "yes" ELSE "no"
            /\ UNCHANGED sinks
         \/ /\ request[c].key = "logging"
            /\ sinks' = Configured(IF seen.shape = "object" THEN seen.body ELSE "default")
            /\ UNCHANGED <<cache, tainted>>
  /\ request' = [request EXCEPT ![c] = RequestIdle]
  /\ UNCHANGED <<process, rows, updates>>

-----------------------------------------------------------------------------
(* change_password.                                                        *)

(* The old password is verified in a transaction of its own. *)
ChangeVerifies(c, old) ==
  /\ process = "up"
  /\ request[c].pc = "idle"
  /\ rows["admin"].shape = "object" /\ rows["admin"].secret = Hash(old)
  /\ request' = [request EXCEPT ![c] = [RequestIdle EXCEPT !.pc = "verified", !.key = "admin",
                                                           !.seen = rows["admin"]]]
  /\ UNCHANGED <<process, rows, updates, cache, sinks, tainted>>

(* The value is replaced whole. *)
ChangeCommits(c, new) ==
  /\ request[c].pc = "verified"
  /\ rows' = [rows EXCEPT !["admin"] = Object(request[c].seen.body, Hash(new), @.enabled)]
  /\ request' = [request EXCEPT ![c] = RequestIdle]
  /\ UNCHANGED <<process, updates, cache, sinks, tainted>>

-----------------------------------------------------------------------------
SettingsRequest ==
  \E c \in Clients :
    \/ \E k \in Keys : \E value \in Offered[k] : PutArrives(c, k, value)
    \/ \E old \in Passwords : ChangeVerifies(c, old)

SettingsStep(c) ==
  \/ PutReads(c) \/ PutCommits(c) \/ PutFails(c) \/ RefreshReads(c) \/ RefreshApplies(c)
  \/ \E new \in Passwords : ChangeCommits(c, new)

SettingsQuiet == \A c \in Clients : request[c].pc = "idle"

-----------------------------------------------------------------------------
(* Properties.                                                             *)

SettingsTypeOK ==
  /\ process \in {"down", "restoring", "up", "refused"}
  /\ rows \in [Keys -> Rows]
  /\ updates \in Clients \cup {Nobody}
  /\ request \in [Clients -> [pc : {"idle", "waiting", "merging", "refreshing", "applying", "verified"},
                              key : Keys, value : Rows, seen : Rows, alone : {"yes", "no"}]]
  /\ cache \in Rows
  /\ sinks \in [config : Texts, leaked : {"yes", "no"}]
  /\ tainted \in {"yes", "no"}

(* A PUT that echoes the placeholder leaves the secret that is stored when *)
(* it commits as it is, whatever other PUTs committed since the client     *)
(* read the placeholder (put, _merge_secrets and the lock).  The           *)
(* credentials are not claimed: change_password does not take the lock.    *)
SecretsSurviveEcho ==
  [][\A c \in Clients :
       LET k == request[c].key
       IN  /\ request[c].pc = "merging" /\ request'[c].pc # "merging" /\ rows'[k] # rows[k]
           /\ request[c].value.secret = Placeholder /\ k # "admin"
           => rows'[k].secret = rows[k].secret]_settingsVars

(* The stored password of the administrator is missing or an Argon2id      *)
(* hash, also after a PUT removed it and another one brought a new text    *)
(* (_merge_secrets, change_password, bootstrap).                           *)
PasswordIsHash == rows["admin"].secret.form \in {"none", "hash"}

(* A PUT of the browser row that ran alone is live once it is answered:    *)
(* the next session is opened with the stored endpoint (the secret apart,  *)
(* see DriverSeesRow).                                                     *)
LonePutIsLive ==
  process = "up" /\ tainted = "no" /\ rows["cdp"].shape = "object"
    /\ (\A c \in Clients : request[c].pc \in {"idle", "waiting"} \/ request[c].key # "cdp")
  => cache = Redact(rows["cdp"])

(* A start is refused only because of a logging row that no sink can be    *)
(* built from: every other row that was stored, a string in place of an    *)
(* object included, is repaired by bootstrap before it is used.            *)
OnlyLoggingStopsStart ==
  process = "refused" => ConfigureRaises(rows["logging"].body)

(* When nothing is being written, the browser driver is given the row as   *)
(* it is stored, secret included: "drivers re-read the cache on every open *)
(* so system_settings updates apply live" (container.py:161).              *)
DriverSeesRow ==
  process = "up" /\ SettingsQuiet => cache = rows["cdp"]

(* The requests that write settings all end, and with them the lock is     *)
(* free (put releases _updates on every path): however many there are, the *)
(* process comes back to a moment without one.                             *)
SettingsRequestsEnd == []<>(SettingsQuiet /\ updates = Nobody)
=============================================================================
