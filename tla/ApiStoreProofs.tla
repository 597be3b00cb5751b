--------------------------- MODULE ApiStoreProofs ---------------------------
(***************************************************************************)
(* Proofs about ApiStore: for any replicas, configurations, providers,     *)
(* names, secrets, keys and rows left by an older version, and any number  *)
(* of requests, migrations and changes of the key.                         *)
(***************************************************************************)
EXTENDS ApiStore, FiniteSetTheorems, TLAPS

-----------------------------------------------------------------------------
(* The tables: the part of the invariant that rows, users and the migration *)
(* take part in.                                                           *)

\* The rows, what the migration has fetched and what it has written have their types.
RowTypes ==
  /\ table = [r \in Rows |-> table[r]]
  /\ \A r \in Rows : table[r] \in {Absent, Gone} \cup RowOf(r)
  /\ left \subseteq DOMAIN snap
  /\ \A r \in DOMAIN snap : r \in Rows /\ snap[r] \in RowOf(r)
  /\ \A r \in DOMAIN pending : r \in Rows /\ There(r) /\ pending[r] \in RowOf(r)
  /\ covered \subseteq Rows /\ users \subseteq Provs
  /\ mig = "idle" => DOMAIN snap = {}
  /\ mig = "cloud_config" => DOMAIN snap \subseteq Configs

\* Two providers have two names, and the migration keeps the name of a provider
\* whose row it holds.
DistinctNames ==
  /\ \A p, q \in Provs : There(p) /\ There(q) /\ table[p].pub = table[q].pub => p = q
  /\ \A p \in Provs : p \in DOMAIN pending => pending[p].pub = table[p].pub

\* No readable secret in the clear.
Sealed(row) == row.secret # NoSecret => row.form \in Keys \cup {"junk"}

\* A row the migration has fetched is sealed, or is going to be, or has been fetched as
\* it is and is still to be looked at.  Such a row is never created anew.
Sealing ==
  /\ \A r \in covered \cup DOMAIN snap : table[r] # Absent
  /\ \A r \in covered : There(r) => Sealed(table[r])
  /\ \A r \in DOMAIN pending : Sealed(pending[r])
  /\ \A r \in DOMAIN snap : There(r) => \/ Sealed(table[r])
                                        \/ r \in left /\ table[r] = snap[r]
                                        \/ r \in DOMAIN pending

Core == RowTypes /\ UsersHaveProvider /\ DistinctNames /\ Sealing

\* The tables, the users and the migration as they are.
coreVars == <<table, users, migVars, covered>>

-----------------------------------------------------------------------------
(* Facts about the definitions.                                            *)

\* A row is not one of the marks for a row that is not there.
LEMMA RowIsThere ==
  ASSUME NEW r \in Rows, NEW row \in RowOf(r)
  PROVE  row # Absent /\ row # Gone
BY AbsentAssumption

\* A row that is there is a row.
LEMMA ThereIsRow == ASSUME RowTypes, NEW r \in Rows, There(r) PROVE table[r] \in RowOf(r)
BY DEF RowTypes, There

\* encrypt_config returns a row, and seals it.
LEMMA EncryptFacts ==
  ASSUME key \in Keys, NEW r \in Rows, NEW secret \in Secrets \cup {NoSecret},
         NEW pub \in IF r \in Configs THEN SUBSET Fields ELSE Names
  PROVE  /\ Encrypt(pub, secret) \in RowOf(r) /\ Encrypt(pub, secret).pub = pub
         /\ Encrypt(pub, secret).secret = secret
         /\ Sealed(Encrypt(pub, secret))
<1> DEFINE form == IF secret = NoSecret THEN "clear" ELSE key
<1>1. form \in Forms /\ (secret # NoSecret => form \in Keys)
  BY DEF Forms
<1>2. Encrypt(pub, secret) = [pub |-> pub, secret |-> secret, form |-> form]
  BY DEF Encrypt
<1> HIDE DEF form
<1>3. Encrypt(pub, secret) \in RowOf(r)
  BY <1>1, <1>2 DEF RowOf
<1> QED
  BY <1>1, <1>2, <1>3 DEF Sealed

-----------------------------------------------------------------------------
(* Steps of the API on the tables.                                         *)

\* One row is written or deleted, while the migration does not hold it.
LEMMA WriteKeeps ==
  ASSUME Core, NEW r \in Rows, NEW row \in RowOf(r) \cup {Gone}, ~Locked(r),
         table' = [table EXCEPT ![r] = row], UNCHANGED <<users, migVars, covered>>,
         row = Gone => r \notin users,
         r \in Provs /\ row # Gone => UniqueName(r, row.pub),
         row # Gone => table[r] = Absent \/ Sealed(row)
  PROVE  Core'
<1>1. RowTypes /\ UNCHANGED <<users, mig, snap, left, pending, covered>>
  BY DEF Core, migVars
<1>2. /\ table'[r] = row /\ \A q \in Rows \ {r} : table'[q] = table[q]
      /\ table' = [q \in Rows |-> table'[q]]
  BY <1>1 DEF RowTypes
<1>3. row # Absent /\ (row # Gone => row \in RowOf(r)) /\ Absent # Gone
  BY RowIsThere, AbsentAssumption
<1>4. r \notin DOMAIN pending
  BY DEF Locked
<1>5. /\ \A q \in Rows \ {r} : There(q)' <=> There(q)
      /\ There(r)' <=> row # Gone
  BY <1>2, <1>3 DEF There
<1>6. RowTypes'
  BY <1>1, <1>2, <1>3, <1>4, <1>5 DEF RowTypes
<1>7. UsersHaveProvider'
  <2> SUFFICES ASSUME NEW p \in users PROVE There(p)'
    BY <1>1 DEF UsersHaveProvider
  <2>1. p \in Rows /\ There(p)
    BY <1>1 DEF RowTypes, Rows, Core, UsersHaveProvider
  <2> QED
    BY <2>1, <1>5
<1>8. DistinctNames'
  <2>1. \A p \in Provs : p \in DOMAIN pending' => pending'[p].pub = table'[p].pub
    BY <1>1, <1>2, <1>4 DEF Core, DistinctNames, Rows
  <2>2. ASSUME NEW p \in Provs, NEW q \in Provs, There(p)', There(q)',
               table'[p].pub = table'[q].pub
        PROVE  p = q
    <3>1. p \in Rows /\ q \in Rows
      BY DEF Rows
    <3>2. CASE p = r /\ q # r
      <4>1. There(q) /\ table[q].pub = row.pub /\ row # Gone
        BY <2>2, <3>1, <3>2, <1>2, <1>5
      <4>2. q \in Named(row.pub)
        BY <4>1 DEF Named
      <4> QED
        BY <4>1, <4>2, <3>2 DEF UniqueName
    <3>3. CASE q = r /\ p # r
      <4>1. There(p) /\ table[p].pub = row.pub /\ row # Gone
        BY <2>2, <3>1, <3>3, <1>2, <1>5
      <4>2. p \in Named(row.pub)
        BY <4>1 DEF Named
      <4> QED
        BY <4>1, <4>2, <3>3 DEF UniqueName
    <3>4. CASE p # r /\ q # r
      BY <2>2, <3>1, <3>4, <1>2, <1>5 DEF Core, DistinctNames
    <3> QED
      BY <3>2, <3>3, <3>4
  <2> QED
    BY <2>1, <2>2 DEF DistinctNames
<1>9. Sealing'
  <2>1. \A q \in covered \cup DOMAIN snap : q \in Rows /\ table'[q] # Absent
    BY <1>1, <1>2, <1>3 DEF RowTypes, Core, Sealing
  <2>2. \A q \in covered : There(q)' => Sealed(table'[q])
    BY <1>1, <1>2, <1>5 DEF RowTypes, Core, Sealing
  <2>3. \A q \in DOMAIN snap : There(q)' => \/ Sealed(table'[q])
                                            \/ q \in left /\ table'[q] = snap[q]
                                            \/ q \in DOMAIN pending
    BY <1>1, <1>2, <1>5 DEF RowTypes, Core, Sealing
  <2> QED
    BY <2>1, <2>2, <2>3, <1>1 DEF Sealing, Core, Sealed
<1> QED
  BY <1>6, <1>7, <1>8, <1>9 DEF Core

\* A step that changes nothing of it.
LEMMA CoreStays == ASSUME Core, UNCHANGED coreVars PROVE Core'
BY DEF Core, coreVars, migVars, RowTypes, UsersHaveProvider, DistinctNames, Sealing, There,
   Sealed

\* A user is linked to a provider that is there.
LEMMA LinkKeeps == ASSUME Core, NEW p \in Provs, LinkUser(p) PROVE Core'
<1>1. There(p) /\ users' = users \cup {p} /\ UNCHANGED <<table, mig, snap, left, pending, covered>>
  BY DEF LinkUser, migVars
<1>2. RowTypes'
  BY <1>1 DEF Core, RowTypes, There
<1>3. UsersHaveProvider' /\ DistinctNames' /\ Sealing'
  BY <1>1 DEF Core, UsersHaveProvider, DistinctNames, Sealing, There, Sealed
<1> QED
  BY <1>2, <1>3 DEF Core

-----------------------------------------------------------------------------
(* Steps of the migration on the tables.                                   *)

\* A table is fetched once the one before it is done with.
LEMMA FetchKeeps ==
  ASSUME Core, NEW rows \in SUBSET Rows, Fetch(rows), left = {}, mig' # "idle",
         mig' = "cloud_config" => DOMAIN snap = {} /\ rows \subseteq Configs,
         UNCHANGED <<table, users, pending, covered>>
  PROVE  Core'
<1>1. /\ left' = {r \in rows : There(r)} /\ DOMAIN snap' = DOMAIN snap \cup left'
      /\ \A r \in DOMAIN snap' : snap'[r] = IF r \in left' THEN table[r] ELSE snap[r]
  BY DEF Fetch
<1>2. RowTypes
  BY DEF Core
<1>3. \A r \in left' : r \in Rows /\ There(r) /\ table[r] \in RowOf(r)
  BY <1>1, <1>2, ThereIsRow
<1>4. \A r \in DOMAIN snap' : r \in Rows /\ snap'[r] \in RowOf(r)
  BY <1>1, <1>2, <1>3 DEF RowTypes
<1>5. RowTypes'
  BY <1>1, <1>2, <1>4 DEF RowTypes, There
<1>6. Sealing'
  <2>1. \A r \in covered \cup DOMAIN snap' : table[r] # Absent
    BY <1>1, <1>3 DEF Core, Sealing, There
  <2>2. \A r \in DOMAIN snap' : There(r) => \/ Sealed(table[r])
                                            \/ r \in left' /\ table[r] = snap'[r]
                                            \/ r \in DOMAIN pending
    BY <1>1 DEF Core, Sealing
  <2> QED
    BY <2>1, <2>2 DEF Core, Sealing, There, Sealed
<1>7. UsersHaveProvider' /\ DistinctNames'
  BY DEF Core, UsersHaveProvider, DistinctNames, There
<1> QED
  BY <1>5, <1>6, <1>7 DEF Core

\* A row that is looked at is sealed already, or written back sealed.
LEMMA MigrateRowKeeps == ASSUME Core, key \in Keys, NEW r \in Rows, MigrateRow(r) PROVE Core'
<1> DEFINE plain == Decrypt(snap[r])
           pub == IF r \in Provs THEN table[r].pub ELSE plain.pub
           row == Encrypt(pub, plain.secret)
<1>1. /\ r \in left /\ left' = left \ {r} /\ UNCHANGED <<table, users, mig, snap, covered>>
  BY DEF MigrateRow
<1>2. RowTypes /\ snap[r] \in RowOf(r) /\ r \in DOMAIN snap
  BY <1>1 DEF Core, RowTypes
<1>3. CASE UNCHANGED pending /\ (IsCanonical(snap[r]) \/ plain.secret = NoSecret \/ ~There(r))
  <2>1. RowTypes'
    BY <1>1, <1>2, <1>3 DEF RowTypes, There
  <2>2. ASSUME There(r) PROVE Sealed(table[r]) \/ r \in DOMAIN pending
    <3>1. Sealed(snap[r])
      <4>1. CASE IsCanonical(snap[r])
        BY <4>1 DEF IsCanonical, Sealed
      <4>2. CASE plain.secret = NoSecret
        <5>1. Decrypts(snap[r]) => snap[r].secret = NoSecret
          BY <4>2 DEF Decrypt
        <5>2. snap[r].form \in Forms
          BY <1>2 DEF RowOf
        <5> QED
          BY <5>1, <5>2 DEF Decrypts, Forms, Sealed
      <4> QED
        BY <1>3, <2>2, <4>1, <4>2
    <3> QED
      BY <3>1, <2>2, <1>2 DEF Core, Sealing
  <2>3. Sealing'
    <3>1. \A q \in DOMAIN snap : There(q) => \/ Sealed(table[q])
                                             \/ q \in left' /\ table[q] = snap[q]
                                             \/ q \in DOMAIN pending
      BY <2>2, <1>1 DEF Core, Sealing
    <3> QED
      BY <3>1, <1>1, <1>3 DEF Core, Sealing, There, Sealed
  <2>4. UsersHaveProvider' /\ DistinctNames'
    BY <1>1, <1>3 DEF Core, UsersHaveProvider, DistinctNames, There
  <2> QED
    BY <2>1, <2>3, <2>4 DEF Core
<1>4. CASE /\ There(r) /\ pending' = [q \in DOMAIN pending \cup {r} |->
                                       IF q = r THEN row ELSE pending[q]]
  <2>1. table[r] \in RowOf(r)
    BY <1>2, <1>4, ThereIsRow
  <2>2. pub \in IF r \in Configs THEN SUBSET Fields ELSE Names
    BY <1>2, <2>1, KindsAssumption DEF RowOf, Rows, Decrypt
  <2>3. plain.secret \in Secrets \cup {NoSecret}
    BY <1>2 DEF RowOf, Decrypt
  <2> HIDE DEF pub, plain
  <2>4. row \in RowOf(r) /\ row.pub = pub /\ Sealed(row)
    BY <2>2, <2>3, EncryptFacts
  <2> HIDE DEF row
  <2>5. /\ DOMAIN pending' = DOMAIN pending \cup {r} /\ pending'[r] = row
        /\ \A q \in DOMAIN pending \ {r} : pending'[q] = pending[q]
    BY <1>4
  <2>6. RowTypes'
    BY <1>1, <1>2, <1>4, <2>4, <2>5 DEF RowTypes, There
  <2>7. DistinctNames'
    BY <1>1, <1>4, <2>4, <2>5 DEF Core, DistinctNames, There, pub
  <2>8. Sealing'
    BY <1>1, <2>4, <2>5 DEF Core, Sealing, There, Sealed
  <2>9. UsersHaveProvider'
    BY <1>1 DEF Core, UsersHaveProvider, There
  <2> QED
    BY <2>6, <2>7, <2>8, <2>9 DEF Core
<1> QED
  BY <1>3, <1>4 DEF MigrateRow

\* What the migration has written becomes visible.
LEMMA CommitKeeps == ASSUME Core, MigrateCommits PROVE Core'
<1>1. /\ left = {} /\ table' = [r \in Rows |-> IF Locked(r) THEN pending[r] ELSE table[r]]
      /\ covered' = covered \cup DOMAIN snap /\ users' = users
      /\ mig' = "idle" /\ left' = {} /\ snap' = NoRows /\ pending' = NoRows
  BY DEF MigrateCommits, MigrateEnds
<1>2. RowTypes /\ DOMAIN snap' = {} /\ DOMAIN pending' = {}
  BY <1>1 DEF Core, NoRows
<1>3. \A r \in Rows : table'[r] = IF r \in DOMAIN pending THEN pending[r] ELSE table[r]
  BY <1>1 DEF Locked
<1>4. \A r \in DOMAIN pending : /\ r \in Rows /\ There(r) /\ pending[r] \in RowOf(r)
                                /\ pending[r] # Absent /\ pending[r] # Gone
  BY <1>2, RowIsThere DEF RowTypes
<1>5. \A r \in Rows : There(r)' <=> There(r)
  BY <1>3, <1>4 DEF There
<1>6. RowTypes'
  BY <1>1, <1>2, <1>3, <1>4 DEF RowTypes
<1>7. UsersHaveProvider'
  BY <1>1, <1>2, <1>5 DEF Core, UsersHaveProvider, RowTypes, Rows
<1>8. DistinctNames'
  <2>1. \A p \in Provs : There(p) => table'[p].pub = table[p].pub
    BY <1>3 DEF Core, DistinctNames, Rows
  <2> QED
    BY <2>1, <1>2, <1>5 DEF Core, DistinctNames, Rows
<1>9. Sealing'
  <2>1. \A r \in covered \cup DOMAIN snap : r \in Rows
    BY <1>2 DEF RowTypes
  <2>2. \A r \in covered \cup DOMAIN snap : table'[r] # Absent
    BY <2>1, <1>3, <1>4 DEF Core, Sealing
  <2>3. \A r \in covered \cup DOMAIN snap : There(r)' => Sealed(table'[r])
    BY <2>1, <1>1, <1>3, <1>5 DEF Core, Sealing
  <2> QED
    BY <2>2, <2>3, <1>1, <1>2 DEF Sealing, Sealed
<1> QED
  BY <1>6, <1>7, <1>8, <1>9 DEF Core

\* A migration that is rolled back.
LEMMA RollbackKeeps == ASSUME Core, MigrateFails PROVE Core'
<1>1. /\ UNCHANGED <<table, users, covered>> /\ left' = {}
      /\ DOMAIN snap' = {} /\ DOMAIN pending' = {}
  BY DEF MigrateFails, MigrateEnds, NoRows
<1> QED
  BY <1>1 DEF Core, RowTypes, UsersHaveProvider, DistinctNames, Sealing, There, Sealed

-----------------------------------------------------------------------------
(* Requests in progress and what administrators were told.                 *)

Reasons == {"blind", "raced", "unstored"}

AuxTypes ==
  /\ key \in Keys
  /\ op \in [Servers -> Requests]
  /\ given \in [Rows -> Secrets \cup {NoSecret}]
  /\ told = [r \in Rows |-> told[r]]
  /\ lapses \subseteq Rows \X Reasons
  /\ mig \in {"idle", "cloud_config", "auth_providers"}
  /\ acked \subseteq Alerts /\ acks \subseteq Alerts

\* The losses that SecretIsKept allows.
Excused(r) == \E why \in IF r \in Configs THEN {"blind", "unstored"} ELSE {"raced"} :
                <<r, why>> \in lapses

\* A copy of a configuration carries the secret given last; an unreadable one carries
\* nothing else.
GoodCopy(c, copy) == /\ copy.secret = given[c] \/ Excused(c)
                     /\ copy.form = "junk" => copy.pub = {}

\* What a CLI update has read and what the migration has fetched are good copies; what
\* the migration writes is what it has fetched.
Copies ==
  /\ \A c \in Configs : There(c) /\ table[c].form = "junk" => table[c].pub = {}
  /\ \A s \in Servers : op[s].do = "merge" =>
       table[op[s].row] # Absent /\ GoodCopy(op[s].row, op[s].seen)
  /\ \A c \in Configs : c \in DOMAIN snap => GoodCopy(c, snap[c])
  /\ \A r \in DOMAIN pending :
       /\ r \in DOMAIN snap /\ pending[r].secret = snap[r].secret
       /\ r \in Configs => pending[r].pub = snap[r].pub /\ pending[r].form # "junk"

Kept == AuxTypes /\ Copies /\ SecretIsKept /\ UpdateIsKept

IInv == Core /\ Kept /\ requests \in 0..MaxRequests

\* The fields of a request by what it is to do.
LEMMA OpFacts ==
  ASSUME op \in [Servers -> Requests], NEW s \in Servers
  PROVE  /\ op[s].do = "merge" => /\ op[s].row \in Configs /\ op[s].set \in SUBSET Fields
                                  /\ op[s].seen \in RowOf(op[s].row)
         /\ op[s].do \in {"create", "update"} => /\ op[s].row \in Provs
                                                 /\ op[s].name \in Names
                                                 /\ op[s].secret \in Secrets
         /\ op[s].do = "delete" => op[s].row \in Provs
<1> DEFINE o == op[s]
<1>1. o \in Requests
  OBVIOUS
<1> HIDE DEF o
<1>2. CASE o = Idle
  BY <1>2 DEF Idle, o
<1>3. CASE o \in [do : {"merge"}, row : Configs, set : SUBSET Fields,
                  seen : UNION {RowOf(c) : c \in Configs}]
  <2>1. o.do = "merge" /\ o.row \in Configs /\ o.set \in SUBSET Fields
    BY <1>3
  <2>2. PICK c \in Configs : o.seen \in RowOf(c)
    BY <1>3
  <2>3. RowOf(c) = RowOf(o.row)
    BY <2>1, <2>2 DEF RowOf
  <2> QED
    BY <2>1, <2>2, <2>3 DEF o
<1>4. CASE o \in [do : {"create", "update"}, row : Provs, name : Names, secret : Secrets]
  BY <1>4 DEF o
<1>5. CASE o \in [do : {"delete"}, row : Provs]
  BY <1>5 DEF o
<1> QED
  BY <1>1, <1>2, <1>3, <1>4, <1>5 DEF Requests

\* A request that begins is one.
LEMMA BeginFacts ==
  ASSUME op \in [Servers -> Requests], NEW s \in Servers, NEW request \in Requests,
         Begin(s, request) \/ (End(s) /\ request = Idle)
  PROVE  /\ op' \in [Servers -> Requests] /\ op'[s] = request
         /\ \A t \in Servers \ {s} : op'[t] = op[t]
<1>1. op' = [op EXCEPT ![s] = request]
  BY DEF Begin, End
<1> QED
  BY <1>1

\* The property of a row and the two copies of it, for a step that leaves them, what was
\* given and what was told alone.
LEMMA KeptStays ==
  ASSUME Core, Kept, AuxTypes', UNCHANGED <<table, snap, pending, given, told, lapses>>,
         \A s \in Servers : op'[s] = op[s] \/ op'[s].do # "merge"
  PROVE  Kept'
<1>1. Copies'
  BY DEF Kept, Copies, GoodCopy, Excused, There
<1>2. SecretIsKept' /\ UpdateIsKept'
  BY DEF Kept, SecretIsKept, UpdateIsKept, There
<1> QED
  BY <1>1, <1>2 DEF Kept

\* A row is stored as it was given: a new configuration, or a provider.
LEMMA StoreKeeps ==
  ASSUME Core, Kept, AuxTypes', NEW r \in Rows, NEW row \in RowOf(r),
         NEW secret \in Secrets \cup {NoSecret},
         Store(r, row, secret), row.secret = secret, row.form # "junk", ~Locked(r),
         r \in Configs => table[r] = Absent, UNCHANGED <<snap, pending, lapses>>,
         \A s \in Servers : op'[s] = op[s] \/ op'[s].do # "merge"
  PROVE  Kept'
<1>1. /\ table'[r] = row /\ \A q \in Rows \ {r} : table'[q] = table[q]
      /\ told'[r] = row.pub /\ \A q \in Rows \ {r} : told'[q] = told[q]
      /\ given'[r] = secret /\ \A q \in Rows \ {r} : given'[q] = given[q]
  <2>1. /\ table = [q \in Rows |-> table[q]] /\ told = [q \in Rows |-> told[q]]
        /\ given \in [Rows -> Secrets \cup {NoSecret}]
    BY DEF Core, RowTypes, Kept, AuxTypes
  <2> QED
    BY <2>1 DEF Store
<1>2. \A q \in Rows \ {r} : (There(q)' <=> There(q)) /\ (Excused(q)' <=> Excused(q))
  BY <1>1 DEF There, Excused
<1>3. SecretIsKept' /\ UpdateIsKept'
  BY <1>1, <1>2 DEF Kept, SecretIsKept, UpdateIsKept
<1>4. row # Absent
  BY RowIsThere
<1>5. Copies'
  <2>1. \A c \in Configs : There(c)' /\ table'[c].form = "junk" => table'[c].pub = {}
    BY <1>1, <1>2 DEF Kept, Copies, Rows
  <2>2. ASSUME NEW s \in Servers, op'[s].do = "merge"
        PROVE  table'[op'[s].row] # Absent /\ GoodCopy(op[s].row, op[s].seen)'
    <3>1. /\ op'[s] = op[s] /\ op[s].row \in Configs
          /\ table[op[s].row] # Absent /\ GoodCopy(op[s].row, op[s].seen)
      BY <2>2, OpFacts DEF Kept, AuxTypes, Copies
    <3>2. op[s].row \in Rows \ {r}
      BY <3>1 DEF Rows
    <3> QED
      BY <3>1, <3>2, <1>1, <1>2 DEF GoodCopy, Excused
  <2>3. ASSUME NEW c \in Configs, c \in DOMAIN snap PROVE GoodCopy(c, snap[c])'
    <3>1. c \in Rows \ {r} /\ GoodCopy(c, snap[c])
      BY <2>3 DEF Core, Sealing, Kept, Copies, Rows
    <3> QED
      BY <3>1, <1>1, <1>2 DEF GoodCopy, Excused
  <2> QED
    BY <2>1, <2>2, <2>3 DEF Kept, Copies
<1> QED
  BY <1>3, <1>5 DEF Kept

\* create_config, register_azure_service_account and cli_configs_create.
LEMMA CreateKeeps ==
  ASSUME Core, Kept, NEW s \in Servers, NEW c \in Configs, NEW x \in Secrets \cup {NoSecret},
         NEW set \in SUBSET Fields,
         CreateConfig(s, c, x) \/ RegisterAzure(s, c, x) \/ CliCreate(s, c, set)
  PROVE  Core' /\ Kept'
<1>1. PICK row \in RowOf(c), secret \in Secrets \cup {NoSecret} :
        Store(c, row, secret) /\ row.secret = secret /\ row.form # "junk"
  <2>0. key \in Keys /\ c \in Rows /\ "junk" \notin Keys
    BY KeysAssumption DEF Kept, AuxTypes, Rows
  <2>1. CASE CreateConfig(s, c, x)
    <3>1. Encrypt({}, x) \in RowOf(c) /\ Encrypt({}, x).secret = x
      BY <2>0, EncryptFacts
    <3>2. Encrypt({}, x).form # "junk"
      BY <2>0 DEF Encrypt
    <3> QED
      BY <2>1, <3>1, <3>2 DEF CreateConfig
  <2>2. CASE CliCreate(s, c, set)
    <3>1. Encrypt(set, NoSecret) \in RowOf(c) /\ Encrypt(set, NoSecret).secret = NoSecret
      BY <2>0, EncryptFacts
    <3>2. Encrypt(set, NoSecret).form # "junk"
      BY <2>0 DEF Encrypt
    <3> QED
      BY <2>2, <3>1, <3>2 DEF CliCreate
  <2>3. CASE RegisterAzure(s, c, x)
    <3> DEFINE row == [pub |-> {}, secret |-> x, form |-> "clear"]
    <3>1. row \in RowOf(c) /\ row.secret = x /\ row.form # "junk"
      BY DEF RowOf, Forms
    <3>2. Store(c, row, x)
      BY <2>3 DEF RegisterAzure
    <3> HIDE DEF row
    <3> QED
      BY <3>1, <3>2
  <2> QED
    BY <2>1, <2>2, <2>3
<1>2. /\ table[c] = Absent /\ UNCHANGED <<users, key, op, migVars, lapses, covered, alertVars>>
  BY DEF CreateConfig, RegisterAzure, CliCreate
<1>3. c \in Rows /\ c \notin Provs /\ c \notin users /\ ~Locked(c)
  BY <1>2, KindsAssumption DEF Rows, Core, RowTypes, Locked, There
<1>4. Core'
  <2>1. table' = [table EXCEPT ![c] = row]
    BY <1>1 DEF Store
  <2> QED
    BY <2>1, <1>1, <1>2, <1>3, WriteKeeps
<1>5. AuxTypes'
  BY <1>1, <1>2, <1>3 DEF Kept, AuxTypes, Store, migVars, alertVars
<1>6. Kept'
  BY <1>1, <1>2, <1>3, <1>5, StoreKeeps DEF migVars
<1> QED
  BY <1>4, <1>6

\* update_config, whose UPDATE is not stored.
LEMMA UpdateConfigKeeps ==
  ASSUME Core, Kept, NEW s \in Servers, NEW c \in Configs, NEW x \in Secrets \cup {NoSecret},
         UpdateConfig(s, c, x)
  PROVE  Core' /\ Kept'
<1>1. /\ given' = [given EXCEPT ![c] = x] /\ lapses' = lapses \cup {<<c, "unstored">>}
      /\ UNCHANGED <<table, told, users, key, op, migVars, covered, alertVars>>
  BY DEF UpdateConfig, Commits
<1>2. c \in Rows /\ given'[c] = x /\ \A q \in Rows \ {c} : given'[q] = given[q]
  BY <1>1 DEF Rows, Kept, AuxTypes
<1>3. /\ Excused(c)' /\ \A q \in Rows : Excused(q) => Excused(q)'
      /\ \A q \in Rows : There(q)' <=> There(q)
  BY <1>1 DEF Excused, There
<1>4. AuxTypes'
  BY <1>1, <1>2 DEF Kept, AuxTypes, Reasons, migVars, alertVars
<1>5. SecretIsKept'
  BY <1>1, <1>2, <1>3 DEF Kept, SecretIsKept, Excused
<1>6. UpdateIsKept'
  BY <1>1, <1>3 DEF Kept, UpdateIsKept
<1>8. Copies'
  <2>1. \A t \in Servers : op[t].do = "merge" => GoodCopy(op[t].row, op[t].seen)'
    <3> SUFFICES ASSUME NEW t \in Servers, op[t].do = "merge"
                 PROVE  GoodCopy(op[t].row, op[t].seen)'
      OBVIOUS
    <3>1. op[t].row \in Configs /\ GoodCopy(op[t].row, op[t].seen)
      BY OpFacts DEF Kept, AuxTypes, Copies
    <3> QED
      BY <3>1, <1>1, <1>2, <1>3 DEF GoodCopy, Rows, Excused
  <2>2. \A d \in Configs : d \in DOMAIN snap => GoodCopy(d, snap[d])'
    BY <1>1, <1>2, <1>3 DEF Kept, Copies, GoodCopy, Rows, migVars
  <2> QED
    BY <2>1, <2>2, <1>1, <1>3 DEF Kept, Copies, There, migVars
<1>9. Core'
  BY <1>1, CoreStays DEF coreVars
<1> QED
  BY <1>4, <1>5, <1>6, <1>8, <1>9 DEF Kept

\* A row is deleted, while the migration does not hold it.
LEMMA DeleteKeeps ==
  ASSUME Core, Kept, NEW r \in Rows, There(r), ~Locked(r), r \notin users,
         table' = [table EXCEPT ![r] = Gone],
         UNCHANGED <<users, key, migVars, given, told, lapses, covered, alertVars>>,
         op' \in [Servers -> Requests],
         \A s \in Servers : op'[s] = op[s] \/ op'[s].do # "merge"
  PROVE  Core' /\ Kept'
<1>1. Core'
  BY WriteKeeps
<1>2. /\ table'[r] = Gone /\ \A q \in Rows \ {r} : table'[q] = table[q]
      /\ UNCHANGED <<snap, pending, given, told, lapses>> /\ Gone # Absent
  BY AbsentAssumption DEF Core, RowTypes, migVars
<1>3. \A q \in Rows : There(q)' => There(q) /\ table'[q] = table[q]
  BY <1>2 DEF There
<1>4. AuxTypes'
  BY DEF Kept, AuxTypes, migVars, alertVars
<1>5. SecretIsKept' /\ UpdateIsKept'
  BY <1>2, <1>3 DEF Kept, SecretIsKept, UpdateIsKept
<1>6. Copies'
  <2>1. ASSUME NEW s \in Servers, op'[s].do = "merge"
        PROVE  table'[op'[s].row] # Absent /\ GoodCopy(op[s].row, op[s].seen)' /\ op'[s] = op[s]
    <3>1. /\ op'[s] = op[s] /\ op[s].row \in Rows
          /\ table[op[s].row] # Absent /\ GoodCopy(op[s].row, op[s].seen)
      BY <2>1, OpFacts DEF Kept, AuxTypes, Copies, Rows
    <3> QED
      BY <3>1, <1>2 DEF GoodCopy, Excused
  <2>2. \A c \in Configs : c \in DOMAIN snap => GoodCopy(c, snap[c])'
    BY <1>2 DEF Kept, Copies, GoodCopy, Excused
  <2>3. \A c \in Configs : There(c)' /\ table'[c].form = "junk" => table'[c].pub = {}
    BY <1>3 DEF Kept, Copies, Rows
  <2> QED
    BY <2>1, <2>2, <2>3, <1>2 DEF Kept, Copies
<1> QED
  BY <1>1, <1>4, <1>5, <1>6 DEF Kept

\* A request that begins, or ends without having written.
LEMMA RequestStays ==
  ASSUME Core, Kept, NEW s \in Servers, NEW request \in Requests,
         Begin(s, request) \/ (End(s) /\ request = Idle),
         request.do # "merge", UNCHANGED <<key, given, told, lapses, alertVars>>,
         UNCHANGED coreVars
  PROVE  Core' /\ Kept'
<1>1. Core'
  BY CoreStays
<1>2. /\ op' \in [Servers -> Requests] /\ op'[s] = request
      /\ \A t \in Servers \ {s} : op'[t] = op[t]
  BY BeginFacts DEF Kept, AuxTypes
<1>3. AuxTypes'
  BY <1>2 DEF Kept, AuxTypes, coreVars, migVars, alertVars
<1>4. Kept'
  BY <1>2, <1>3, KeptStays DEF coreVars, migVars
<1> QED
  BY <1>1, <1>4

\* cli_configs_update reads a good copy.
LEMMA CliReadKeeps ==
  ASSUME Core, Kept, NEW s \in Servers, NEW c \in Configs, NEW set \in SUBSET Fields,
         CliUpdateReads(s, c, set)
  PROVE  Core' /\ Kept'
<1> DEFINE request == [do |-> "merge", row |-> c, set |-> set, seen |-> table[c]]
<1>1. /\ There(c) /\ Begin(s, request) /\ UNCHANGED <<key, given, told, lapses, alertVars>>
      /\ UNCHANGED coreVars
  BY DEF CliUpdateReads, coreVars, migVars
<1>2. c \in Rows /\ table[c] \in RowOf(c) /\ table[c] # Absent
  BY <1>1, ThereIsRow DEF Core, Rows, There
<1>3. request \in Requests
  <2>1. table[c] \in UNION {RowOf(d) : d \in Configs}
    BY <1>2
  <2> QED
    BY <2>1 DEF Requests
<1>4. GoodCopy(c, table[c])
  BY <1>1, <1>2 DEF Kept, SecretIsKept, Copies, GoodCopy, Excused
<1>5. request.do = "merge" /\ request.row = c /\ request.seen = table[c]
  OBVIOUS
<1> HIDE DEF request
<1>6. /\ op' \in [Servers -> Requests] /\ op'[s] = request
      /\ \A t \in Servers \ {s} : op'[t] = op[t]
  BY <1>1, <1>3, BeginFacts DEF Kept, AuxTypes
<1>7. AuxTypes'
  BY <1>1, <1>6 DEF Kept, AuxTypes, coreVars, migVars, alertVars
<1>8. UNCHANGED <<table, snap, pending, given, told, lapses>>
  BY <1>1 DEF coreVars, migVars
<1>9. Copies'
  <2>1. ASSUME NEW t \in Servers, op'[t].do = "merge"
        PROVE  table'[op'[t].row] # Absent /\ GoodCopy(op[t].row, op[t].seen)'
    <3>1. CASE t = s
      BY <3>1, <1>2, <1>4, <1>5, <1>6, <1>8 DEF GoodCopy, Excused
    <3>2. CASE t # s
      BY <2>1, <3>2, <1>6, <1>8 DEF Kept, Copies, GoodCopy, Excused
    <3> QED
      BY <3>1, <3>2
  <2> QED
    BY <2>1, <1>8 DEF Kept, Copies, GoodCopy, Excused, There
<1>10. SecretIsKept' /\ UpdateIsKept'
  BY <1>8 DEF Kept, SecretIsKept, UpdateIsKept, There
<1>11. Core'
  BY <1>1, CoreStays
<1> QED
  BY <1>7, <1>9, <1>10, <1>11 DEF Kept

\* ... and writes it back: with the secret it could read, or a lapse is recorded.
LEMMA CliWriteKeeps ==
  ASSUME Core, Kept, NEW s \in Servers, CliUpdateWrites(s)
  PROVE  Core' /\ Kept'
<1> DEFINE seen == op[s].seen
           set == op[s].set
           row == Merge(seen, set)
<1>1. /\ op[s].do = "merge" /\ End(s)
      /\ UNCHANGED <<users, key, migVars, given, covered, alertVars>>
  BY DEF CliUpdateWrites
<1>2. PICK c \in Configs : /\ c = op[s].row /\ c \in Rows
                            /\ set \in SUBSET Fields /\ seen \in RowOf(c)
  BY <1>1, OpFacts DEF Kept, AuxTypes, Rows
<1>3. CASE UNCHANGED <<table, told, lapses>>
  <2>1. Idle \in Requests /\ Idle.do # "merge" /\ UNCHANGED coreVars
    BY <1>1, <1>3 DEF Requests, Idle, coreVars
  <2> QED
    BY <2>1, <1>1, <1>3, RequestStays
<1>4. CASE /\ There(c) /\ ~Locked(c) /\ table' = [table EXCEPT ![c] = row]
           /\ told' = [told EXCEPT ![c] = @ \cup set]
           /\ lapses' = lapses \cup Ignored(c, seen)
  <2>0. GoodCopy(c, seen) /\ key \in Keys /\ c \notin Provs /\ c \notin users
    BY <1>1, <1>2, KindsAssumption DEF Kept, Copies, AuxTypes, Core, RowTypes
  <2> DEFINE pub == Decrypt(seen).pub \cup set
             secret == Decrypt(seen).secret
  <2>1. pub \in SUBSET Fields /\ secret \in Secrets \cup {NoSecret}
    BY <1>2 DEF Decrypt, RowOf
  <2>2. /\ Decrypts(seen) => secret = seen.secret
        /\ pub = seen.pub \cup set
    BY <2>0 DEF Decrypt, GoodCopy
  <2>3. /\ row \in RowOf(c) /\ row.pub = pub /\ row.secret = secret /\ Sealed(row)
    <3> HIDE DEF pub, secret
    <3>1. row = Encrypt(pub, secret)
      BY DEF Merge, pub, secret
    <3> QED
      BY <3>1, <2>0, <2>1, <1>2, EncryptFacts
  <2>4. row.form # "junk"
    BY <2>0, KeysAssumption DEF Merge, Encrypt
  <2>5. /\ ~Decrypts(seen) => <<c, "blind">> \in lapses'
        /\ seen # table[c] => <<c, "raced">> \in lapses'
        /\ lapses \subseteq lapses' /\ lapses' \subseteq Rows \X Reasons
    BY <1>2, <1>4 DEF Ignored, Kept, AuxTypes, Reasons
  <2> HIDE DEF pub, secret, row
  <2>6. Core'
    <3>1. row # Gone
      BY <2>3, <1>2, RowIsThere
    <3> QED
      BY <3>1, <2>0, <2>3, <1>1, <1>2, <1>4, WriteKeeps
  <2>7. /\ table'[c] = row /\ \A q \in Rows \ {c} : table'[q] = table[q]
        /\ told'[c] = told[c] \cup set /\ \A q \in Rows \ {c} : told'[q] = told[q]
        /\ told' = [q \in Rows |-> told'[q]]
    <3>1. table = [q \in Rows |-> table[q]] /\ told = [q \in Rows |-> told[q]]
      BY DEF Core, RowTypes, Kept, AuxTypes
    <3> QED
      BY <3>1, <1>2, <1>4
  <2>8. /\ op' \in [Servers -> Requests] /\ op'[s] = Idle
        /\ \A t \in Servers \ {s} : op'[t] = op[t]
    <3>1. Idle \in Requests
      BY DEF Requests
    <3> QED
      BY <3>1, <1>1, BeginFacts DEF Kept, AuxTypes
  <2>9. AuxTypes'
    BY <2>5, <2>7, <2>8, <1>1 DEF Kept, AuxTypes, migVars, alertVars
  <2>10. UNCHANGED <<snap, pending, given>> /\ \A q \in Rows : Excused(q) => Excused(q)'
    BY <1>1, <2>5 DEF migVars, Excused
  <2>11. \A q \in Rows \ {c} : There(q)' <=> There(q)
    BY <2>7 DEF There
  <2>12. row.secret = given[c] \/ Excused(c)'
    <3>1. CASE Decrypts(seen)
      BY <3>1, <2>0, <2>2, <2>3, <2>10, <1>2 DEF GoodCopy
    <3>2. CASE ~Decrypts(seen)
      BY <3>2, <2>5, <1>2 DEF Excused
    <3> QED
      BY <3>1, <3>2
  <2>13. SecretIsKept'
    <3> SUFFICES ASSUME NEW q \in Rows, There(q)', table'[q].secret # given'[q]
                 PROVE  Excused(q)'
      BY DEF SecretIsKept, Excused
    <3>1. CASE q = c
      BY <3>1, <2>7, <2>10, <2>12
    <3>2. CASE q # c
      <4>1. Excused(q)
        BY <3>2, <2>7, <2>10, <2>11 DEF Kept, SecretIsKept, Excused
      <4> QED
        BY <4>1, <2>10
    <3> QED
      BY <3>1, <3>2
  <2>14. UpdateIsKept'
    <3> SUFFICES ASSUME NEW q \in Rows, There(q)', table'[q].pub # told'[q]
                 PROVE  q \in Configs /\ <<q, "raced">> \in lapses'
      BY DEF UpdateIsKept
    <3>1. CASE q = c
      <4>1. CASE seen = table[c]
        <5>1. table[c].pub # told[c]
          BY <4>1, <3>1, <2>2, <2>3, <2>7
        <5> QED
          BY <5>1, <3>1, <1>2, <1>4, <2>5 DEF Kept, UpdateIsKept
      <4> QED
        BY <4>1, <3>1, <1>2, <2>5
    <3>2. CASE q # c
      BY <3>2, <2>5, <2>7, <2>11 DEF Kept, UpdateIsKept
    <3> QED
      BY <3>1, <3>2
  <2>15. Copies'
    <3>1. ASSUME NEW t \in Servers, op'[t].do = "merge"
          PROVE  /\ op'[t] = op[t] /\ table'[op[t].row] # Absent
                 /\ GoodCopy(op[t].row, op[t].seen)'
      <4>1. op'[t] = op[t]
        BY <3>1, <2>8 DEF Idle
      <4>2. op[t].row \in Rows /\ table[op[t].row] # Absent /\ GoodCopy(op[t].row, op[t].seen)
        BY <3>1, <4>1, OpFacts DEF Kept, AuxTypes, Copies, Rows
      <4>3. table'[op[t].row] # Absent
        BY <4>2, <2>3, <2>7, <1>2, RowIsThere
      <4>4. GoodCopy(op[t].row, op[t].seen)'
        BY <4>1, <4>2, <2>10 DEF GoodCopy, Excused
      <4> QED
        BY <4>1, <4>3, <4>4
    <3>2. \A d \in Configs : d \in DOMAIN snap => GoodCopy(d, snap[d])'
      BY <2>10 DEF Kept, Copies, GoodCopy, Rows
    <3>3. \A d \in Configs : There(d)' /\ table'[d].form = "junk" => table'[d].pub = {}
      BY <2>4, <2>7, <2>11 DEF Kept, Copies, Rows
    <3> QED
      BY <3>1, <3>2, <3>3, <2>10 DEF Kept, Copies
  <2> QED
    BY <2>6, <2>9, <2>13, <2>14, <2>15 DEF Kept
<1> QED
  BY <1>2, <1>3, <1>4 DEF CliUpdateWrites

\* create_provider, update_provider and delete_provider look before they write.
LEMMA ProviderChecksKeep ==
  ASSUME Core, Kept, NEW s \in Servers, NEW p \in Provs,
         \/ DeleteProviderChecks(s, p)
         \/ \E n \in Names, x \in Secrets, do \in {"create", "update"} :
              ProviderChecks(s, p, n, x, do)
  PROVE  Core' /\ Kept'
<1>1. UNCHANGED <<key, given, told, lapses, alertVars>> /\ UNCHANGED coreVars
  BY DEF DeleteProviderChecks, ProviderChecks, coreVars
<1>2. PICK request \in Requests : request.do # "merge" /\ Begin(s, request)
  <2>1. CASE DeleteProviderChecks(s, p)
    <3> DEFINE request == [do |-> "delete", row |-> p]
    <3>1. request \in Requests /\ request.do # "merge" /\ Begin(s, request)
      BY <2>1 DEF DeleteProviderChecks, Requests
    <3> HIDE DEF request
    <3> QED
      BY <3>1
  <2>2. ASSUME NEW n \in Names, NEW x \in Secrets, NEW do \in {"create", "update"},
               ProviderChecks(s, p, n, x, do)
        PROVE  \E request \in Requests : request.do # "merge" /\ Begin(s, request)
    <3> DEFINE request == [do |-> do, row |-> p, name |-> n, secret |-> x]
    <3>1. request \in Requests /\ request.do # "merge" /\ Begin(s, request)
      BY <2>2 DEF ProviderChecks, Requests
    <3> HIDE DEF request
    <3> QED
      BY <3>1
  <2> QED
    BY <2>1, <2>2
<1> QED
  BY <1>1, <1>2, RequestStays

\* A provider is written, if the index lets it.
LEMMA ProviderWriteKeeps ==
  ASSUME Core, Kept, NEW s \in Servers, ProviderWrites(s)
  PROVE  Core' /\ Kept'
<1> DEFINE name == op[s].name
           secret == op[s].secret
           row == Encrypt(name, secret)
<1>1. /\ op[s].do \in {"create", "update"} /\ End(s)
      /\ UNCHANGED <<users, key, migVars, lapses, covered, alertVars>>
  BY DEF ProviderWrites
<1>2. PICK p \in Provs : p = op[s].row /\ p \in Rows /\ name \in Names /\ secret \in Secrets
  BY <1>1, OpFacts DEF Kept, AuxTypes, Rows
<1>0. Idle \in Requests /\ Idle.do # "merge"
  BY DEF Requests, Idle
<1>3. CASE UNCHANGED <<table, told, given>>
  <2>1. UNCHANGED coreVars
    BY <1>1, <1>3 DEF coreVars
  <2> QED
    BY <1>0, <2>1, <1>1, <1>3, RequestStays
<1>4. CASE ~Locked(p) /\ UniqueName(p, name) /\ Store(p, row, secret)
  <2>1. p \notin Configs /\ key \in Keys /\ "junk" \notin Keys
    BY KindsAssumption, KeysAssumption DEF Kept, AuxTypes
  <2>2. row \in RowOf(p) /\ row.pub = name /\ row.secret = secret /\ Sealed(row)
    BY <2>1, <1>2, EncryptFacts
  <2>3. row.form # "junk"
    BY <2>1 DEF Encrypt
  <2>4. /\ op' \in [Servers -> Requests]
        /\ \A t \in Servers : op'[t] = op[t] \/ op'[t].do # "merge"
    BY <1>0, <1>1, BeginFacts DEF Kept, AuxTypes
  <2> HIDE DEF row, name, secret
  <2>5. AuxTypes'
    BY <2>4, <1>1, <1>2, <1>4 DEF Kept, AuxTypes, Store, migVars, alertVars
  <2>6. Core'
    <3>1. table' = [table EXCEPT ![p] = row] /\ row # Gone
      BY <1>2, <1>4, <2>2, RowIsThere DEF Store
    <3> QED
      BY <3>1, <1>1, <1>2, <1>4, <2>2, WriteKeeps
  <2>7. Kept'
    BY <1>1, <1>2, <1>4, <2>1, <2>2, <2>3, <2>4, <2>5, StoreKeeps DEF migVars
  <2> QED
    BY <2>6, <2>7
<1> QED
  BY <1>2, <1>3, <1>4 DEF ProviderWrites

\* A provider is deleted, if no user refers to it.
LEMMA ProviderDeleteKeeps ==
  ASSUME Core, Kept, NEW s \in Servers, DeleteProviderWrites(s)
  PROVE  Core' /\ Kept'
<1>1. /\ op[s].do = "delete" /\ End(s)
      /\ UNCHANGED <<users, key, migVars, given, told, lapses, covered, alertVars>>
  BY DEF DeleteProviderWrites
<1>2. PICK p \in Provs : p = op[s].row /\ p \in Rows
  BY <1>1, OpFacts DEF Kept, AuxTypes, Rows
<1>3. Idle \in Requests /\ Idle.do # "merge"
  BY DEF Requests, Idle
<1>4. CASE UNCHANGED table
  <2>1. UNCHANGED coreVars
    BY <1>1, <1>4 DEF coreVars
  <2> QED
    BY <1>3, <2>1, <1>1, RequestStays
<1>5. CASE There(p) /\ ~Locked(p) /\ NotReferenced(p) /\ table' = [table EXCEPT ![p] = Gone]
  <2>1. /\ op' \in [Servers -> Requests]
        /\ \A t \in Servers : op'[t] = op[t] \/ op'[t].do # "merge"
    BY <1>1, <1>3, BeginFacts DEF Kept, AuxTypes
  <2> QED
    BY <2>1, <1>1, <1>2, <1>5, DeleteKeeps DEF NotReferenced
<1> QED
  BY <1>2, <1>4, <1>5 DEF DeleteProviderWrites

\* delete_config and cli_configs_delete.
LEMMA ConfigDeleteKeeps ==
  ASSUME Core, Kept, NEW s \in Servers, NEW c \in Configs, DeleteConfig(s, c)
  PROVE  Core' /\ Kept'
<1>1. c \in Rows /\ c \notin users /\ op \in [Servers -> Requests]
  BY KindsAssumption DEF Rows, Core, RowTypes, Kept, AuxTypes
<1> QED
  BY <1>1, DeleteKeeps DEF DeleteConfig

\* Steps that concern neither a copy nor what was given: a link, an acknowledgement, and
\* a change of the key, after which no request is in progress.
LEMMA OthersKeep ==
  ASSUME Core, Kept,
         \/ \E p \in Provs : LinkUser(p)
         \/ \E s \in Servers : AlertRequest(s)
         \/ \E k \in Keys : Rekey(k)
  PROVE  Core' /\ Kept'
<1>0. Idle \in Requests /\ Idle.do # "merge"
  BY DEF Requests, Idle
<1>1. CASE \E p \in Provs : LinkUser(p)
  <2>1. AuxTypes' /\ UNCHANGED <<table, snap, pending, given, told, lapses, op>>
    BY <1>1 DEF LinkUser, Kept, AuxTypes, migVars, alertVars
  <2> QED
    BY <1>1, <2>1, LinkKeeps, KeptStays
<1>2. CASE \E s \in Servers : AlertRequest(s)
  <2>1. PICK which \in SUBSET Alerts :
          /\ acks' = acks \cup which /\ acked' \in {acked, acked \cup which}
          /\ UNCHANGED <<table, users, key, op, migVars, given, told, lapses, covered>>
    BY <1>2 DEF AlertRequest, Acknowledge
  <2>2. AuxTypes' /\ UNCHANGED coreVars
    BY <2>1 DEF Kept, AuxTypes, migVars, coreVars
  <2> QED
    BY <2>1, <2>2, CoreStays, KeptStays DEF migVars
<1>3. CASE \E k \in Keys : Rekey(k)
  <2>1. PICK k \in Keys : key' = k /\ op' = [s \in Servers |-> Idle]
                          /\ UNCHANGED <<table, users, migVars, given, told, lapses, covered, alertVars>>
    BY <1>3 DEF Rekey
  <2>2. AuxTypes' /\ UNCHANGED coreVars
    BY <2>1, <1>0 DEF Kept, AuxTypes, migVars, alertVars, coreVars
  <2>3. \A s \in Servers : op'[s].do # "merge"
    BY <2>1, <1>0
  <2> QED
    BY <2>1, <2>2, <2>3, CoreStays, KeptStays DEF migVars
<1> QED
  BY <1>1, <1>2, <1>3

-----------------------------------------------------------------------------
(* The migration and what was given.                                       *)

\* What is fetched is a good copy.
LEMMA MigrateFetchKeeps ==
  ASSUME Core, Kept, MigrateBegins \/ MigrateNextTable
  PROVE  Core' /\ Kept'
<1> DEFINE rows == IF mig = "idle" THEN Configs ELSE Provs
<1>1. /\ Fetch(rows) /\ rows \subseteq Rows /\ left = {}
      /\ mig' = IF mig = "idle" THEN "cloud_config" ELSE "auth_providers"
      /\ mig = "idle" => DOMAIN snap = {}
      /\ mig # "idle" => DOMAIN snap \subseteq Configs
      /\ UNCHANGED <<table, users, key, op, pending, given, told, lapses, covered, alertVars>>
  BY DEF MigrateBegins, MigrateNextTable, Core, RowTypes, Rows
<1>2. Core'
  BY <1>1, FetchKeeps
<1>3. /\ left' \subseteq rows /\ DOMAIN snap' = DOMAIN snap \cup left'
      /\ \A r \in left' : There(r)
      /\ \A r \in DOMAIN snap' : snap'[r] = IF r \in left' THEN table[r] ELSE snap[r]
  BY <1>1 DEF Fetch
<1>4. \A c \in Configs : There(c) => GoodCopy(c, table[c])
  BY DEF Kept, SecretIsKept, Copies, GoodCopy, Excused, Rows
<1>5. \A c \in Configs : c \in DOMAIN snap' => GoodCopy(c, snap'[c])
  BY <1>3, <1>4 DEF Kept, Copies
<1>6. \A r \in DOMAIN pending : r \in DOMAIN snap' /\ snap'[r] = snap[r]
  <2>1. \A r \in DOMAIN pending : r \in DOMAIN snap
    BY DEF Kept, Copies
  <2> QED
    BY <2>1, <1>1, <1>3, KindsAssumption
<1>7. Copies'
  BY <1>1, <1>5, <1>6 DEF Kept, Copies, GoodCopy, Excused, There
<1>8. AuxTypes' /\ SecretIsKept' /\ UpdateIsKept'
  BY <1>1 DEF Kept, AuxTypes, SecretIsKept, UpdateIsKept, There, alertVars
<1> QED
  BY <1>2, <1>7, <1>8 DEF Kept

\* A row is written back with the secret it was fetched with: one that cannot be read
\* is not written back.
LEMMA MigrateRowCopies ==
  ASSUME Core, Kept, NEW r \in Rows, MigrateRow(r)
  PROVE  Core' /\ Kept'
<1> DEFINE plain == Decrypt(snap[r])
           pub == IF r \in Provs THEN table[r].pub ELSE plain.pub
           row == Encrypt(pub, plain.secret)
<1>1. /\ r \in left
      /\ UNCHANGED <<table, users, key, op, mig, snap, given, told, lapses, covered, alertVars>>
  BY DEF MigrateRow
<1>2. key \in Keys /\ r \in DOMAIN snap /\ snap[r] \in RowOf(r)
  BY <1>1 DEF Core, RowTypes, Kept, AuxTypes
<1>3. Core'
  BY <1>2, MigrateRowKeeps
<1>4. AuxTypes' /\ SecretIsKept' /\ UpdateIsKept'
  BY <1>1 DEF Kept, AuxTypes, SecretIsKept, UpdateIsKept, There, alertVars
<1>5. CASE UNCHANGED pending
  <2>1. UNCHANGED <<table, snap, pending, given, told, lapses>>
    BY <1>1, <1>5
  <2> QED
    BY <1>1, <1>3, <1>4, <2>1, KeptStays
<1>6. CASE /\ plain.secret # NoSecret
           /\ pending' = [q \in DOMAIN pending \cup {r} |-> IF q = r THEN row ELSE pending[q]]
  <2>1. Decrypts(snap[r]) /\ plain.secret = snap[r].secret
    BY <1>6 DEF Decrypt
  <2>2. snap[r].form # "junk" /\ plain.pub = snap[r].pub
    BY <2>1, <1>2, KeysAssumption DEF Decrypts, Decrypt
  <2>3. /\ row.secret = snap[r].secret /\ row.form # "junk"
        /\ r \in Configs => row.pub = snap[r].pub
    BY <2>1, <2>2, <1>2, KeysAssumption, KindsAssumption DEF Encrypt
  <2> HIDE DEF row
  <2>4. /\ DOMAIN pending' = DOMAIN pending \cup {r} /\ pending'[r] = row
        /\ \A q \in DOMAIN pending \ {r} : pending'[q] = pending[q]
    BY <1>6
  <2>5. \A q \in DOMAIN pending' :
          /\ q \in DOMAIN snap /\ pending'[q].secret = snap[q].secret
          /\ q \in Configs => pending'[q].pub = snap[q].pub /\ pending'[q].form # "junk"
    BY <2>3, <2>4, <1>2 DEF Kept, Copies
  <2>6. Copies'
    BY <2>5, <1>1 DEF Kept, Copies, GoodCopy, Excused, There
  <2> QED
    BY <1>3, <1>4, <2>6 DEF Kept
<1> QED
  BY <1>5, <1>6 DEF MigrateRow

\* The rows that are committed hold what was fetched; where that is no longer what the
\* table held, a lapse is recorded.
LEMMA MigrateCommitCopies ==
  ASSUME Core, Kept, MigrateCommits
  PROVE  Core' /\ Kept'
<1>1. /\ table' = [r \in Rows |-> IF Locked(r) THEN pending[r] ELSE table[r]]
      /\ lapses' = lapses \cup {<<r, "raced">> : r \in {q \in DOMAIN pending : table[q] # snap[q]}}
      /\ mig' = "idle" /\ snap' = NoRows /\ pending' = NoRows
      /\ UNCHANGED <<users, key, op, given, told, alertVars>>
  BY DEF MigrateCommits, MigrateEnds
<1>2. Core'
  BY CommitKeeps
<1>3. /\ \A r \in Rows : table'[r] = IF r \in DOMAIN pending THEN pending[r] ELSE table[r]
      /\ DOMAIN snap' = {} /\ DOMAIN pending' = {}
  BY <1>1 DEF Locked, NoRows
<1>4. \A r \in DOMAIN pending :
        /\ r \in Rows /\ There(r) /\ pending[r] # Absent /\ pending[r] # Gone
        /\ table[r] = snap[r] \/ <<r, "raced">> \in lapses'
  BY <1>1, RowIsThere DEF Core, RowTypes
<1>5. \A r \in Rows : (There(r)' <=> There(r)) /\ (table[r] # Absent => table'[r] # Absent)
  BY <1>3, <1>4 DEF There
<1>6. /\ lapses \subseteq lapses' /\ lapses' \subseteq Rows \X Reasons
      /\ \A r \in Rows : Excused(r) => Excused(r)'
  <2>1. lapses \subseteq lapses'
    BY <1>1
  <2>2. lapses \subseteq Rows \X Reasons /\ "raced" \in Reasons
    BY DEF Kept, AuxTypes, Reasons
  <2>3. {<<r, "raced">> : r \in {q \in DOMAIN pending : table[q] # snap[q]}}
          \subseteq Rows \X Reasons
    BY <2>2, <1>4
  <2> QED
    BY <2>1, <2>2, <2>3, <1>1 DEF Excused
<1>7. AuxTypes'
  BY <1>1, <1>6 DEF Kept, AuxTypes, alertVars
<1>8. SecretIsKept'
  <2> SUFFICES ASSUME NEW r \in Rows, There(r)', table'[r].secret # given[r]
               PROVE  Excused(r)'
    BY <1>1 DEF SecretIsKept, Excused
  <2>1. CASE r \notin DOMAIN pending
    BY <2>1, <1>3, <1>5, <1>6 DEF Kept, SecretIsKept, Excused
  <2>2. CASE r \in DOMAIN pending /\ r \in Configs
    BY <2>2, <1>3, <1>6 DEF Kept, Copies, GoodCopy
  <2>3. CASE r \in DOMAIN pending /\ r \notin Configs
    <3>1. table[r] = snap[r] => Excused(r)
      BY <2>3, <1>3, <1>4 DEF Kept, Copies, SecretIsKept, Excused
    <3> QED
      BY <3>1, <2>3, <1>4, <1>6 DEF Excused
  <2> QED
    BY <2>1, <2>2, <2>3
<1>9. UpdateIsKept'
  <2> SUFFICES ASSUME NEW r \in Rows, There(r)', table'[r].pub # told[r]
               PROVE  r \in Configs /\ <<r, "raced">> \in lapses'
    BY <1>1 DEF UpdateIsKept
  <2>1. CASE table'[r].pub = table[r].pub
    BY <2>1, <1>5, <1>6 DEF Kept, UpdateIsKept
  <2>2. CASE table'[r].pub # table[r].pub
    <3>1. r \in DOMAIN pending /\ r \notin Provs
      BY <2>2, <1>3 DEF Core, DistinctNames
    <3> QED
      BY <3>1, <2>2, <1>3, <1>4 DEF Kept, Copies, Rows
  <2> QED
    BY <2>1, <2>2
<1>10. Copies'
  <2>1. \A c \in Configs : There(c)' /\ table'[c].form = "junk" => table'[c].pub = {}
    BY <1>3, <1>5 DEF Kept, Copies, Rows
  <2>2. ASSUME NEW s \in Servers, op[s].do = "merge"
        PROVE  table'[op[s].row] # Absent /\ GoodCopy(op[s].row, op[s].seen)'
    <3>1. /\ op[s].row \in Rows /\ table[op[s].row] # Absent
          /\ GoodCopy(op[s].row, op[s].seen)
      BY <2>2, OpFacts DEF Kept, AuxTypes, Copies, Rows
    <3> QED
      BY <3>1, <1>1, <1>5, <1>6 DEF GoodCopy, Excused
  <2> QED
    BY <2>1, <2>2, <1>1, <1>3 DEF Copies
<1> QED
  BY <1>2, <1>7, <1>8, <1>9, <1>10 DEF Kept

\* A migration that is rolled back.
LEMMA MigrateFailCopies ==
  ASSUME Core, Kept, MigrateFails
  PROVE  Core' /\ Kept'
<1>1. /\ mig' = "idle" /\ DOMAIN snap' = {} /\ DOMAIN pending' = {}
      /\ UNCHANGED <<table, users, key, op, given, told, lapses, covered, alertVars>>
  BY DEF MigrateFails, MigrateEnds, NoRows
<1>2. Kept'
  BY <1>1 DEF Kept, AuxTypes, Copies, SecretIsKept, UpdateIsKept, GoodCopy, Excused, There,
     alertVars
<1> QED
  BY <1>2, RollbackKeeps

-----------------------------------------------------------------------------
(* The invariant.                                                          *)

\* A database that an older version has left.
LEMMA InitIInv == Init => IInv
<1> SUFFICES ASSUME Init PROVE IInv
  OBVIOUS
<1>1. /\ table = [r \in Rows |-> table[r]]
      /\ \A r \in Rows : table[r] \in {Absent} \cup RowOf(r)
      /\ \A c \in Configs : table[c] # Absent /\ table[c].form = "junk" => table[c].pub = {}
      /\ \A p, q \in Provs :
           table[p] # Absent /\ table[q] # Absent /\ table[p].pub = table[q].pub => p = q
  BY LegacyAssumption DEF Init
<1>2. /\ users \subseteq {p \in Provs : There(p)} /\ covered = {} /\ left = {}
      /\ DOMAIN snap = {} /\ DOMAIN pending = {} /\ mig = "idle"
  BY DEF Init, NoRows
<1>3. \A r \in Rows : There(r) => table[r] # Absent /\ table[r] \in RowOf(r)
  BY <1>1 DEF There
<1>4. Core
  BY <1>1, <1>2, <1>3 DEF Core, RowTypes, UsersHaveProvider, DistinctNames, Sealing, There
<1>5. AuxTypes
  <2>1. given \in [Rows -> Secrets \cup {NoSecret}]
    <3>1. \A r \in Rows : There(r) => table[r].secret \in Secrets \cup {NoSecret}
      BY <1>3 DEF RowOf
    <3> QED
      BY <3>1 DEF Init
  <2>2. told = [r \in Rows |-> told[r]]
    BY DEF Init
  <2>3. op \in [Servers -> Requests] /\ key \in Keys
    BY DEF Init, Requests
  <2> QED
    BY <2>1, <2>2, <2>3 DEF Init, AuxTypes
<1>6. Copies
  <2>1. \A s \in Servers : op[s].do # "merge"
    BY DEF Init, Idle
  <2> QED
    BY <2>1, <1>1, <1>2, <1>3 DEF Copies, Rows
<1>7. SecretIsKept /\ UpdateIsKept
  BY DEF Init, SecretIsKept, UpdateIsKept
<1>8. requests \in 0..MaxRequests
  BY CheckedAssumption DEF Init
<1> QED
  BY <1>4, <1>5, <1>6, <1>7, <1>8 DEF IInv, Kept

\* Requests and what the processes do by themselves.
LEMMA NextIInv == IInv /\ [Next]_vars => IInv'
<1> SUFFICES ASSUME IInv, [Next]_vars PROVE IInv'
  OBVIOUS
<1>1. Core /\ Kept /\ requests \in 0..MaxRequests /\ MaxRequests \in Nat
  BY CheckedAssumption DEF IInv
<1>2. ASSUME NEW s \in Servers, NEW c \in Configs, ConfigRequest(s, c)
      PROVE  Core' /\ Kept'
  BY <1>1, <1>2, CreateKeeps, UpdateConfigKeeps, CliReadKeeps, ConfigDeleteKeeps
     DEF ConfigRequest
<1>3. ASSUME NEW s \in Servers, NEW p \in Provs, ProviderRequest(s, p)
      PROVE  Core' /\ Kept'
  BY <1>1, <1>3, ProviderChecksKeep DEF ProviderRequest
<1>4. ASSUME Request PROVE Core' /\ Kept'
  BY <1>1, <1>2, <1>3, <1>4, OthersKeep, MigrateFetchKeeps DEF Request
<1>5. ASSUME \E s \in Servers : RequestContinues(s) PROVE Core' /\ Kept'
  BY <1>1, <1>5, CliWriteKeeps, ProviderWriteKeeps, ProviderDeleteKeeps DEF RequestContinues
<1>6. ASSUME MigrateContinues PROVE Core' /\ Kept'
  BY <1>1, <1>6, MigrateFetchKeeps, MigrateRowCopies, MigrateCommitCopies, MigrateFailCopies
     DEF MigrateContinues
<1>7. ASSUME \E p \in Provs : LinkUser(p) PROVE Core' /\ Kept'
  BY <1>1, <1>7, OthersKeep
<1>8. ASSUME UNCHANGED vars PROVE Core' /\ Kept'
  <2>1. /\ AuxTypes' /\ UNCHANGED coreVars
        /\ UNCHANGED <<table, snap, pending, given, told, lapses, op>>
    BY <1>1, <1>8 DEF vars, coreVars, migVars, alertVars, Kept, AuxTypes
  <2> QED
    BY <1>1, <2>1, CoreStays, KeptStays
<1>9. Core' /\ Kept'
  BY <1>4, <1>5, <1>6, <1>7, <1>8 DEF Next
<1>10. requests' \in 0..MaxRequests
  BY <1>1 DEF Next, vars
<1> QED
  BY <1>9, <1>10 DEF IInv

\* IInv holds in every state: any replicas, rows and requests.
THEOREM Invariance == Spec => []IInv
BY InitIInv, NextIInv, PTL DEF Spec

\* The variables keep their types, and what the migration rewrites is there.
THEOREM TypeCorrect == Spec => []TypeOK
<1>1. IInv => TypeOK
  BY DEF IInv, Core, RowTypes, Kept, AuxTypes, Reasons, TypeOK
<1> QED
  BY <1>1, Invariance, PTL

\* No two providers have one name, whichever replicas have looked it up together.
THEOREM UniqueNames == Spec => []NamesAreUnique
<1>1. IInv => NamesAreUnique
  <2> SUFFICES ASSUME IInv, NEW n \in Names PROVE Cardinality(Named(n)) <= 1
    BY DEF NamesAreUnique
  <2>1. \A p, q \in Named(n) : p = q
    BY DEF Named, IInv, Core, DistinctNames
  <2>2. CASE Named(n) = {}
    BY <2>2, FS_EmptySet
  <2>3. CASE Named(n) # {}
    <3>1. PICK p \in Named(n) : TRUE
      BY <2>3
    <3>2. Named(n) = {p}
      BY <2>1, <3>1
    <3>3. Cardinality({p}) = 1
      BY FS_Singleton
    <3> QED
      BY <3>2, <3>3
  <2> QED
    BY <2>2, <2>3
<1> QED
  BY <1>1, Invariance, PTL

\* No user is left with a provider that is gone.
THEOREM UsersKeepProvider == Spec => []UsersHaveProvider
<1>1. IInv => UsersHaveProvider
  BY DEF IInv, Core
<1> QED
  BY <1>1, Invariance, PTL

\* No row that a committed migration went over holds a readable secret in the clear.
THEOREM MigrationSeals == Spec => []MigratedIsEncrypted
<1>1. IInv => MigratedIsEncrypted
  BY DEF IInv, Core, Sealing, Sealed, MigratedIsEncrypted
<1> QED
  BY <1>1, Invariance, PTL

\* The secret of a row is the one given last, but for the losses SecretIsKept names.
THEOREM SecretKept == Spec => []SecretIsKept
<1>1. IInv => SecretIsKept
  BY DEF IInv, Kept
<1> QED
  BY <1>1, Invariance, PTL

\* What an answered change said stays in the row, but for the losses UpdateIsKept names.
THEOREM UpdateKept == Spec => []UpdateIsKept
<1>1. IInv => UpdateIsKept
  BY DEF IInv, Kept
<1> QED
  BY <1>1, Invariance, PTL
=============================================================================
