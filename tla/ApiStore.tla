------------------------------ MODULE ApiStore ------------------------------
(***************************************************************************)
(* The administrative tables behind the API: cloud_config and              *)
(* auth_providers, whose config column holds secrets that                  *)
(* utils/encryption.py encrypts, the users linked to a provider, and       *)
(* alerts.  The API runs as one or more replicas; a handler blocks its     *)
(* replica's event loop, so that a replica has one request in progress,    *)
(* but its SELECT and its UPDATE are two transactions and another replica  *)
(* or scripts/migrate_config_encryption.py may come in between.            *)
(*                                                                         *)
(* A row is [pub, secret, form]: what is stored in the clear (the fields a *)
(* CLI update merges, or the provider's name), the secret it holds, and    *)
(* how the secret is stored.                                               *)
(***************************************************************************)
EXTENDS Naturals, FiniteSets

CONSTANTS Servers,   \* the replicas of the API
          Configs,   \* ids of cloud_config
          Provs,     \* ids of auth_providers
          Alerts,    \* ids of alerts
          Fields,    \* the fields a CLI update may merge
          Names,     \* provider names, after lower()
          Secrets,   \* secrets an administrator may give
          NoSecret,  \* "the config has no sensitive field"
          Keys,      \* values of ENCRYPTION_KEY
          Absent, Gone,  \* "no such row yet", "no longer"
          Legacy,    \* rows an older version may have left behind
          Checked,   \* whether cloud_config has the CHECKs of alembic 002
          MaxRequests  \* bound: requests, migrations and restarts of a behaviour

Rows == Configs \cup Provs

\* How a config is stored: "clear" is a plain dict, a base64 or a JSON string, "junk"
\* a string that is neither, and a key stands for __data__ encrypted with it.
Forms == {"clear", "junk"} \cup Keys

RowOf(r) == [pub : IF r \in Configs THEN SUBSET Fields ELSE Names,
             secret : Secrets \cup {NoSecret}, form : Forms]

ASSUME KindsAssumption == Configs \cap Provs = {}
ASSUME SecretsAssumption == NoSecret \notin Secrets
ASSUME AbsentAssumption == \A r \in Rows : {Absent, Gone} \cap RowOf(r) = {} /\ Absent # Gone
ASSUME KeysAssumption == {"clear", "junk"} \cap Keys = {}
\* What an older version left: a config that cannot be read has no fields, and names
\* are distinct because idx_auth_providers_name came with the table (alembic 005).
ASSUME LegacyAssumption == \A old \in Legacy :
                             /\ old = [r \in Rows |-> old[r]]
                             /\ \A r \in Rows : old[r] \in {Absent} \cup RowOf(r)
                             /\ \A c \in Configs : old[c] # Absent /\ old[c].form = "junk"
                                                     => old[c].pub = {}
                             /\ \A p, q \in Provs :
                                  old[p] # Absent /\ old[q] # Absent /\ old[p].pub = old[q].pub
                                    => p = q
ASSUME CheckedAssumption == Checked \in BOOLEAN /\ MaxRequests \in Nat

VARIABLES
  table,    \* the committed rows
  users,    \* providers that auth_users refers to
  acked,    \* alerts with acknowledged_at set
  key,      \* the ENCRYPTION_KEY the processes are given
  op,       \* the request a replica has begun
  mig,      \* where the migration is
  snap,     \* the rows it has fetched
  left,     \* those it has not looked at yet
  pending,  \* its uncommitted UPDATEs, which lock their rows
  given,    \* ghost: the secret an administrator last gave
  told,     \* ghost: the public part the last answered change announced
  lapses,   \* ghost: <<r, why>> when a write ignored what the row held
  covered,  \* ghost: rows a committed migration has gone over
  acks,     \* ghost: alerts answered {"acknowledged": true}
  requests  \* how many requests, migrations and restarts there have been

vars == <<table, users, acked, key, op, mig, snap, left, pending, given, told,
          lapses, covered, acks, requests>>
migVars == <<mig, snap, left, pending>>
alertVars == <<acked, acks>>

Idle == [do |-> "idle"]
NoRows == [r \in {} |-> Absent]

There(r) == table[r] \notin {Absent, Gone}

Init == /\ table \in Legacy
        /\ users \in SUBSET {p \in Provs : There(p)}
        /\ acked = {} /\ acks = {}
        /\ key \in Keys
        /\ op = [s \in Servers |-> Idle]
        /\ mig = "idle" /\ left = {} /\ snap = NoRows /\ pending = NoRows
        /\ given = [r \in Rows |-> IF There(r) THEN table[r].secret ELSE NoSecret]
        /\ told = [r \in Rows |-> IF There(r) THEN table[r].pub ELSE {}]
        /\ lapses = {} /\ covered = {}
        /\ requests = 0

-----------------------------------------------------------------------------
(* utils/encryption.py and the helpers of queries/base.py.                 *)

\* encrypt_config: a dict without sensitive fields is returned as it is.
Encrypt(pub, secret) ==
  [pub |-> pub, secret |-> secret,
   form |-> IF secret = NoSecret THEN "clear" ELSE key]

\* Whether decrypt_config finds the sensitive fields.
Decrypts(row) == row.form \in {"clear", key}

\* decrypt_config: a token it cannot read is left out, a string that is no JSON
\* becomes {}.
Decrypt(row) ==
  [pub |-> IF row.form = "junk" THEN {} ELSE row.pub,
   secret |-> IF Decrypts(row) THEN row.secret ELSE NoSecret]

\* execute and insert_and_return commit; query_one and query_all give the connection
\* back, and the pool rolls back what they have done.
Commits(helper) == helper \in {"execute", "insert_and_return"}

\* The migration's transaction holds the row.
Locked(r) == r \in DOMAIN pending

\* An administrator's change of a row is stored and answered.
Store(r, row, secret) ==
  /\ table' = [table EXCEPT ![r] = row]
  /\ told' = [told EXCEPT ![r] = row.pub]
  /\ given' = [given EXCEPT ![r] = secret]

Begin(s, request) == op[s] = Idle /\ op' = [op EXCEPT ![s] = request]
End(s) == op' = [op EXCEPT ![s] = Idle]

-----------------------------------------------------------------------------
(* routes/config.py and the registrations of routes/auth.py.               *)

\* create_config, and register_gcp where the table accepts its credential_type.
CreateConfig(s, c, secret) ==
  /\ op[s] = Idle /\ table[c] = Absent
  /\ Store(c, Encrypt({}, secret), secret)
  /\ UNCHANGED <<users, key, op, migVars, lapses, covered, alertVars>>

\* register_azure_service_account stores its secret as it was given.
RegisterAzure(s, c, secret) ==
  /\ ~Checked
  /\ op[s] = Idle /\ table[c] = Absent
  /\ Store(c, [pub |-> {}, secret |-> secret, form |-> "clear"], secret)
  /\ UNCHANGED <<users, key, op, migVars, lapses, covered, alertVars>>

\* cli_configs_create: none of the fields it takes is sensitive.
CliCreate(s, c, set) ==
  /\ op[s] = Idle /\ table[c] = Absent
  /\ Store(c, Encrypt(set, NoSecret), NoSecret)
  /\ UNCHANGED <<users, key, op, migVars, lapses, covered, alertVars>>

\* update_config: UPDATE ... RETURNING through query_one.
UpdateConfig(s, c, secret) ==
  /\ op[s] = Idle /\ There(c) /\ ~Locked(c)
  /\ IF Commits("query_one")
     THEN Store(c, Encrypt({}, secret), secret) /\ UNCHANGED lapses
     ELSE /\ given' = [given EXCEPT ![c] = secret]
          /\ lapses' = lapses \cup {<<c, "unstored">>}
          /\ UNCHANGED <<table, told>>
  /\ UNCHANGED <<users, key, op, migVars, covered, alertVars>>

\* delete_config and cli_configs_delete.
DeleteConfig(s, c) ==
  /\ op[s] = Idle /\ There(c) /\ ~Locked(c)
  /\ table' = [table EXCEPT ![c] = Gone]
  /\ UNCHANGED <<users, key, op, migVars, given, told, lapses, covered, alertVars>>

\* cli_configs_update reads the row ...
CliUpdateReads(s, c, set) ==
  /\ There(c)
  /\ Begin(s, [do |-> "merge", row |-> c, set |-> set, seen |-> table[c]])
  /\ UNCHANGED <<table, users, key, migVars, given, told, lapses, covered, alertVars>>

\* Mutant: the config is taken as a reader sees it, without its secret.
MergeMasked(seen, set) == Encrypt(Decrypt(seen).pub \cup set, NoSecret)

\* Mutant: the fields of the request replace the config.
MergeReplaces(seen, set) == Encrypt(set, Decrypt(seen).secret)

\* ... merges the fields of the request into it ...
Merge(seen, set) == Encrypt(Decrypt(seen).pub \cup set, Decrypt(seen).secret)

\* What a write that is based on an earlier read has ignored.
Ignored(r, seen) ==
  {<<r, "blind">> : x \in {y \in {seen} : ~Decrypts(y)}}
  \cup {<<r, "raced">> : x \in {y \in {seen} : y # table[r]}}

\* ... and writes all of it back, whatever the row holds by now.
CliUpdateWrites(s) ==
  /\ op[s].do = "merge"
  /\ LET c == op[s].row IN
     \/ /\ There(c) /\ ~Locked(c)
        /\ table' = [table EXCEPT ![c] = Merge(op[s].seen, op[s].set)]
        /\ told' = [told EXCEPT ![c] = @ \cup op[s].set]
        /\ lapses' = lapses \cup Ignored(c, op[s].seen)
     \/ table[c] = Gone /\ UNCHANGED <<table, told, lapses>>
  /\ End(s)
  /\ UNCHANGED <<users, key, migVars, given, covered, alertVars>>

-----------------------------------------------------------------------------
(* routes/auth_providers.py and auth_users.                                *)

Named(n) == {p \in Provs : There(p) /\ table[p].pub = n}

\* Mutant: the name is only looked up, no index guards it.
NoIndex(p, n) == TRUE

\* idx_auth_providers_name.
UniqueName(p, n) == Named(n) \subseteq {p}

\* Mutant: the column refers to no table.
NoReference(p) == TRUE

\* auth_users.oidc_provider_id REFERENCES auth_providers(id), without ON DELETE.
NotReferenced(p) == p \notin users

\* create_provider and update_provider look the name up ...
ProviderChecks(s, p, n, secret, do) ==
  /\ table[p] = Absent <=> do = "create"
  /\ table[p] # Gone
  /\ \A t \in Servers : op[t] # Idle /\ op[t].row = p => op[t].do # "create"
  /\ Named(n) \subseteq {p}
  /\ Begin(s, [do |-> do, row |-> p, name |-> n, secret |-> secret])
  /\ UNCHANGED <<table, users, key, migVars, given, told, lapses, covered, alertVars>>

\* ... and write; the index refuses what another replica was quicker to store.
ProviderWrites(s) ==
  /\ op[s].do \in {"create", "update"}
  /\ LET p == op[s].row IN
     \/ /\ op[s].do = "create" \/ There(p)
        /\ ~Locked(p) /\ UniqueName(p, op[s].name)
        /\ Store(p, Encrypt(op[s].name, op[s].secret), op[s].secret)
     \/ /\ table[p] = Gone \/ ~UniqueName(p, op[s].name)
        /\ UNCHANGED <<table, told, given>>
  /\ End(s)
  /\ UNCHANGED <<users, key, migVars, lapses, covered, alertVars>>

\* delete_provider counts the linked users ...
DeleteProviderChecks(s, p) ==
  /\ There(p) /\ p \notin users
  /\ Begin(s, [do |-> "delete", row |-> p])
  /\ UNCHANGED <<table, users, key, migVars, given, told, lapses, covered, alertVars>>

\* ... and deletes; the foreign key refuses if one has been linked since.
DeleteProviderWrites(s) ==
  /\ op[s].do = "delete"
  /\ LET p == op[s].row IN
     \/ /\ There(p) /\ ~Locked(p) /\ NotReferenced(p)
        /\ table' = [table EXCEPT ![p] = Gone]
     \/ /\ table[p] = Gone \/ ~NotReferenced(p)
        /\ UNCHANGED table
  /\ End(s)
  /\ UNCHANGED <<users, key, migVars, given, told, lapses, covered, alertVars>>

\* A login provisions a user of the provider, or one is linked by hand.
LinkUser(p) ==
  /\ There(p)
  /\ users' = users \cup {p}
  /\ UNCHANGED <<table, key, op, migVars, given, told, lapses, covered, alertVars>>

-----------------------------------------------------------------------------
(* routes/alerts.py.                                                       *)

\* acknowledge_alert and acknowledge_all_alerts: UPDATE ... RETURNING through
\* query_one and query_all.
Acknowledge(s, which, helper) ==
  /\ op[s] = Idle
  /\ which # {} /\ which \cap acked = {}
  /\ acks' = acks \cup which
  /\ acked' = IF Commits(helper) THEN acked \cup which ELSE acked
  /\ UNCHANGED <<table, users, key, op, migVars, given, told, lapses, covered>>

-----------------------------------------------------------------------------
(* scripts/migrate_config_encryption.py --commit: one transaction.         *)

\* Mutant: the rows are enumerated, not selected.
FetchEvery(rows) ==
  /\ left' = rows
  /\ snap' = [r \in DOMAIN snap \cup left' |-> IF r \in left' THEN table[r] ELSE snap[r]]

\* SELECT id, config FROM the table.
Fetch(rows) ==
  /\ left' = {r \in rows : There(r)}
  /\ snap' = [r \in DOMAIN snap \cup left' |-> IF r \in left' THEN table[r] ELSE snap[r]]

MigrateBegins ==
  /\ mig = "idle" /\ mig' = "cloud_config"
  /\ Fetch(Configs)
  /\ UNCHANGED <<table, users, key, op, pending, given, told, lapses, covered, alertVars>>

\* Mutant: a plain dict passes for canonical.
DictIsCanonical(row) == row.form # "junk"

\* _is_canonical.
IsCanonical(row) == row.form \in Keys

\* Rows that are canonical, empty or free of secrets are skipped, the others are
\* written back from the copy that was fetched, if they are still there.  Of a
\* provider only the secret is: its name has a column of its own.
MigrateRow(r) ==
  /\ r \in left
  /\ left' = left \ {r}
  /\ LET plain == Decrypt(snap[r])
     IN  IF IsCanonical(snap[r]) \/ plain.secret = NoSecret \/ ~There(r)
         THEN UNCHANGED pending
         ELSE pending' = [q \in DOMAIN pending \cup {r} |->
                           IF q = r
                           THEN Encrypt(IF r \in Provs THEN table[r].pub ELSE plain.pub,
                                        plain.secret)
                           ELSE pending[q]]
  /\ UNCHANGED <<table, users, key, op, mig, snap, given, told, lapses, covered, alertVars>>

MigrateNextTable ==
  /\ mig = "cloud_config" /\ left = {}
  /\ mig' = "auth_providers"
  /\ Fetch(Provs)
  /\ UNCHANGED <<table, users, key, op, pending, given, told, lapses, covered, alertVars>>

MigrateEnds == mig' = "idle" /\ left' = {} /\ snap' = NoRows /\ pending' = NoRows

MigrateCommits ==
  /\ mig = "auth_providers" /\ left = {}
  /\ table' = [r \in Rows |-> IF Locked(r) THEN pending[r] ELSE table[r]]
  /\ lapses' = lapses \cup {<<r, "raced">> : r \in {q \in DOMAIN pending : table[q] # snap[q]}}
  /\ covered' = covered \cup DOMAIN snap
  /\ MigrateEnds
  /\ UNCHANGED <<users, key, op, given, told, alertVars>>

\* A statement fails or the script is killed: everything is rolled back.
MigrateFails ==
  /\ mig # "idle"
  /\ MigrateEnds
  /\ UNCHANGED <<table, users, key, op, given, told, lapses, covered, alertVars>>

\* The API is restarted with another ENCRYPTION_KEY; requests in progress are lost.
\* The script is not run while that happens: it "migrates *format*, not *key*".
Rekey(k) ==
  /\ mig = "idle" /\ k # key
  /\ key' = k
  /\ op' = [s \in Servers |-> Idle]
  /\ UNCHANGED <<table, users, migVars, given, told, lapses, covered, alertVars>>

-----------------------------------------------------------------------------
ConfigRequest(s, c) ==
  \/ \E x \in Secrets \cup {NoSecret} : CreateConfig(s, c, x) \/ UpdateConfig(s, c, x)
  \/ \E x \in Secrets : RegisterAzure(s, c, x)
  \/ \E set \in SUBSET Fields : CliCreate(s, c, set) \/ CliUpdateReads(s, c, set)
  \/ DeleteConfig(s, c)

ProviderRequest(s, p) ==
  \/ \E n \in Names, x \in Secrets, do \in {"create", "update"} : ProviderChecks(s, p, n, x, do)
  \/ DeleteProviderChecks(s, p)

AlertRequest(s) ==
  \/ \E a \in Alerts : Acknowledge(s, {a}, "query_one")
  \/ Acknowledge(s, Alerts \ acked, "query_all")

RequestContinues(s) == CliUpdateWrites(s) \/ ProviderWrites(s) \/ DeleteProviderWrites(s)

MigrateContinues == \/ MigrateNextTable \/ MigrateCommits \/ MigrateFails
                    \/ \E r \in Rows : MigrateRow(r)

Request == \/ \E s \in Servers, c \in Configs : ConfigRequest(s, c)
           \/ \E s \in Servers, p \in Provs : ProviderRequest(s, p)
           \/ \E s \in Servers : AlertRequest(s)
           \/ MigrateBegins
           \/ \E k \in Keys : Rekey(k)

Next == \/ requests < MaxRequests /\ Request /\ requests' = requests + 1
        \/ /\ \/ \E s \in Servers : RequestContinues(s)
              \/ MigrateContinues
              \/ \E p \in Provs : LinkUser(p)
           /\ UNCHANGED requests

Spec == Init /\ [][Next]_vars

-----------------------------------------------------------------------------
(* Properties.                                                             *)

Requests ==
  {Idle}
  \cup [do : {"merge"}, row : Configs, set : SUBSET Fields, seen : UNION {RowOf(c) : c \in Configs}]
  \cup [do : {"create", "update"}, row : Provs, name : Names, secret : Secrets]
  \cup [do : {"delete"}, row : Provs]

\* Types of the variables; a row the migration has rewritten exists.
TypeOK ==
  /\ \A r \in Rows : table[r] \in {Absent, Gone} \cup RowOf(r)
  /\ users \subseteq Provs /\ acked \subseteq Alerts /\ acks \subseteq Alerts
  /\ key \in Keys
  /\ op \in [Servers -> Requests]
  /\ mig \in {"idle", "cloud_config", "auth_providers"}
  /\ left \subseteq DOMAIN snap
  /\ \A r \in DOMAIN snap : r \in Rows /\ snap[r] \in RowOf(r)
  /\ \A r \in DOMAIN pending : There(r) /\ pending[r] \in RowOf(r)
  /\ given \in [Rows -> Secrets \cup {NoSecret}]
  /\ lapses \subseteq Rows \X {"blind", "raced", "unstored"}
  /\ covered \subseteq Rows
  /\ requests \in 0..MaxRequests

\* The secret of a row is the one that was given last.  A cloud configuration loses
\* it only to an update under another key (or to a PUT that was never stored), never
\* to updates and migrations that overlap; a provider only to a migration that
\* overlaps an update (config.py:602, encryption.py:151, migrate_config_encryption.py:112).
SecretIsKept ==
  \A r \in Rows : There(r) /\ table[r].secret # given[r] =>
    \E why \in IF r \in Configs THEN {"blind", "unstored"} ELSE {"raced"} :
      <<r, why>> \in lapses

\* What an answered change said stays in the row: a provider's name always, a field
\* of a cloud configuration unless a write that was based on an older copy of the row
\* has come after it (config.py:602-613, migrate_config_encryption.py:112).
UpdateIsKept ==
  \A r \in Rows : There(r) /\ table[r].pub # told[r] =>
    r \in Configs /\ <<r, "raced">> \in lapses

\* No row that a committed migration went over holds a readable secret in the clear,
\* whatever the API has written meanwhile or since
\* (migrate_config_encryption.py:63-116).
MigratedIsEncrypted ==
  \A r \in covered : There(r) /\ table[r].secret # NoSecret =>
    table[r].form \in Keys \cup {"junk"}

\* Replicas that pass the name check together still do not store a name twice
\* (auth_providers.py:145, 183).
NamesAreUnique == \A n \in Names : Cardinality(Named(n)) <= 1

\* No user is left with a provider that is gone, although users are counted and the
\* provider is deleted in two transactions (auth_providers.py:222-232).
UsersHaveProvider == \A p \in users : There(p)

-----------------------------------------------------------------------------
(* A statement of the repository that the code does not keep.              *)

\* "Sets alert status to `ack` and records the acknowledging user and timestamp"
\* (docs/openapi.yaml:2081); "Partial update of name, credential type, or config blob.
\* [...] Returns the updated record" (docs/openapi.yaml:404): what was answered is in
\* the database.
AnswerIsStored ==
  /\ acks \subseteq acked
  /\ \A c \in Configs : There(c) /\ table[c].secret # given[c] => <<c, "blind">> \in lapses
=============================================================================
