------------------------------ MODULE Migrations ------------------------------
(***************************************************************************)
(* The database schema and the containers that bring it up to date.  Every *)
(* container runs the pending migrations and then starts the API           *)
(* (Dockerfile); more than one may start at a time, next to an earlier     *)
(* release that still serves and stores what is uploaded.                  *)
(*                                                                         *)
(* TypeORM looks for the table of executed migrations and creates it when  *)
(* it is missing, each in a statement by itself; then it reads the table,  *)
(* runs what is missing in one transaction, and writes the table in the    *)
(* same transaction.  PostgreSQL's DDL is transactional, and its locks are *)
(* held to the end: of two containers that read the same table the second  *)
(* waits at its first statement for the first to commit or roll back.  An  *)
(* upload locks the tables it inserts into, one after the other, in a way  *)
(* that lets other uploads in and keeps migrations out.  When a migration  *)
(* and an upload wait for each other PostgreSQL aborts one of them.        *)
(*                                                                         *)
(* Of the schema the model keeps tables and the columns that are added     *)
(* later than their table; of the data, whether a table has rows.          *)
(***************************************************************************)
EXTENDS Integers, Sequences

CONSTANTS
    Containers,
    Uploads,        \* calls of scanAndSave that get to their transaction
    MaxFaults       \* bound: crashes and reverts together

ASSUME MaxFaultsAssumption == MaxFaults \in Nat

VARIABLES
    schema,         \* committed tables and columns
    ledger,         \* whether there is a table of executed migrations
    done,           \* how many it holds, in their order
    rows,           \* the tables that have committed rows
    upload,         \* per upload: the tables it holds, those it has yet to insert into
    proc,           \* per container: phase, migrations done and schema as it sees them
    faults

vars == <<schema, ledger, done, rows, upload, proc, faults>>

(* Tables that a migration changes after creating them.                    *)
Tables == {"receipt", "receipt_item"}

-----------------------------------------------------------------------------
(* The migrations: what up() adds and what it drops; down() does the       *)
(* opposite.                                                               *)
Adds == <<
    {"tenant", "user"},
    {"receipt", "receipt_item"},
    {"receipt_item.category_id", "receipt_item.total_price",
     "receipt_item.category_classification_confidence"},
    {"receipt_item.name"},
    {"receipt_item.item_price", "receipt_item.quantity"},
    {"receipt_item.created_at", "receipt_item.updated_at"},
    {"receipt.s3_key", "receipt.use_id"},
    {"receipt.user_id"} >>

Drops == << {}, {}, {}, {}, {}, {}, {}, {"receipt.use_id"} >>

(* The table a migration alters, and locks for itself.                     *)
Locks == << {}, {}, {"receipt_item"}, {"receipt_item"},
            {"receipt_item"}, {"receipt_item"}, {"receipt"}, {"receipt"} >>

(* The tables to which it adds a column that is NOT NULL and has no        *)
(* default: the statement fails when there are rows.                       *)
NeedsEmpty == << {}, {}, {"receipt_item"}, {"receipt_item"}, {"receipt_item"},
                 {}, {"receipt"}, {} >>

N == Len(Adds)
Migration == 1..N
Columns == UNION {Adds[i] : i \in Migration}

(* Variant: the rename adds the new column and keeps the old one.          *)
UpKeepsOld(i, s) == s \cup Adds[i]

Up(i, s) == (s \ Drops[i]) \cup Adds[i]

(* Variant: down() drops the column and forgets its old name.              *)
DownForgetsOld(i, s) == s \ Adds[i]

(* Variant: the last down() gives the column a name no up() knows.         *)
DownMisspelt(i, s) ==
    (s \ Adds[i]) \cup (IF i = N THEN {"receipt.userid"} ELSE Drops[i])

Down(i, s) == (s \ Adds[i]) \cup Drops[i]

(* PostgreSQL accepts migration i in schema s: what it adds is not there,  *)
(* what it renames is, and no row lacks a value.                           *)
Accepted(i, s) ==
    /\ Adds[i] \cap s = {} /\ Drops[i] \subseteq s
    /\ NeedsEmpty[i] \cap rows = {}

(* What the entity classes read and write.                                 *)
EntityColumns ==
    {"tenant", "user", "receipt", "receipt_item",
     "receipt.s3_key", "receipt.user_id",
     "receipt_item.name", "receipt_item.category_id", "receipt_item.total_price",
     "receipt_item.item_price", "receipt_item.quantity",
     "receipt_item.category_classification_confidence",
     "receipt_item.created_at", "receipt_item.updated_at"}

-----------------------------------------------------------------------------
Phases == {"down", "creating", "ready", "loaded", "open", "migrated", "serving"}

Stopped == [phase |-> "down", at |-> 0, schema |-> {}]

Over == [holds |-> {}, wants |-> {}]

SchemaAfter(n) == (UNION {Adds[i] : i \in 1..n}) \ (UNION {Drops[i] : i \in 1..n})

(* A fresh database, or one some release has left, with or without rows.   *)
(* An upload may have been read without lines.                             *)
Init ==
    /\ done \in 0..N
    /\ ledger \in BOOLEAN /\ (done > 0 => ledger)
    /\ schema = SchemaAfter(done)
    /\ rows \in SUBSET (schema \cap Tables)
    /\ "receipt_item" \in rows => "receipt" \in rows
    /\ \E w \in [Uploads -> {{"receipt"}, Tables}] :
           upload = [u \in Uploads |-> [Over EXCEPT !.wants = w[u]]]
    /\ proc = [c \in Containers |-> Stopped]
    /\ faults = 0

Goto(c, phase) == proc' = [proc EXCEPT ![c] = [Stopped EXCEPT !.phase = phase]]

(* migration:run looks for the table of executed migrations.               *)
HasTable(c) ==
    /\ proc[c].phase = "down"
    /\ Goto(c, IF ledger THEN "ready" ELSE "creating")
    /\ UNCHANGED <<schema, ledger, done, rows, upload, faults>>

(* It was not there: CREATE TABLE, committed by itself.                    *)
CreateTable(c) ==
    /\ proc[c].phase = "creating" /\ ~ledger
    /\ ledger' = TRUE
    /\ Goto(c, "ready")
    /\ UNCHANGED <<schema, done, rows, upload, faults>>

(* Another container has created it since: the command fails.              *)
CreateTableFails(c) ==
    /\ proc[c].phase = "creating" /\ ledger
    /\ Goto(c, "down")
    /\ UNCHANGED <<schema, ledger, done, rows, upload, faults>>

(* Variant: the migrations are looked for where they are not recorded.     *)
LoadNothing(c) ==
    /\ proc[c].phase = "ready"
    /\ proc' = [proc EXCEPT ![c] = [phase |-> "loaded", at |-> 0, schema |-> {}]]
    /\ UNCHANGED <<schema, ledger, done, rows, upload, faults>>

(* The executed migrations are read.                                       *)
Load(c) ==
    /\ proc[c].phase = "ready"
    /\ proc' = [proc EXCEPT ![c] = [phase |-> "loaded", at |-> done, schema |-> {}]]
    /\ UNCHANGED <<schema, ledger, done, rows, upload, faults>>

Seen(c) == IF proc[c].phase = "open" THEN proc[c].schema ELSE schema

(* The tables its open transaction has locked.                             *)
LockedBy(c) ==
    UNION {Locks[i] : i \in IF proc[c].phase = "open" THEN (done + 1)..proc[c].at ELSE {}}

(* It has a migration to run, and no other transaction holds the locks.    *)
AtMigration(c) ==
    /\ proc[c].phase \in {"loaded", "open"} /\ proc[c].at < N
    /\ \A d \in Containers \ {c} : proc[d].phase # "open"
    /\ \A u \in Uploads : upload[u].holds \cap Locks[proc[c].at + 1] = {}

(* Variant: each migration is committed by itself.                         *)
MigrateEach(c) ==
    LET i == proc[c].at + 1 IN
    /\ AtMigration(c) /\ Accepted(i, schema)
    /\ schema' = Up(i, schema) /\ done' = i
    /\ proc' = [proc EXCEPT ![c].at = i]
    /\ UNCHANGED <<ledger, rows, upload, faults>>

(* One migration, in the transaction its first one opens.                  *)
Migrate(c) ==
    LET i == proc[c].at + 1 IN
    /\ AtMigration(c) /\ Accepted(i, Seen(c))
    /\ proc' = [proc EXCEPT ![c] = [phase |-> "open", at |-> i,
                                    schema |-> Up(i, Seen(c))]]
    /\ UNCHANGED <<schema, ledger, done, rows, upload, faults>>

(* Variant: the command hangs with its transaction open.                   *)
FailKeepsTransaction(c) ==
    /\ AtMigration(c) /\ ~Accepted(proc[c].at + 1, Seen(c))
    /\ proc' = [proc EXCEPT ![c].phase = "open"]
    /\ UNCHANGED <<schema, ledger, done, rows, upload, faults>>

(* Variant: the API starts whether or not the command succeeded.           *)
FailStartsAnyway(c) ==
    /\ AtMigration(c) /\ ~Accepted(proc[c].at + 1, Seen(c))
    /\ Goto(c, "migrated")
    /\ UNCHANGED <<schema, ledger, done, rows, upload, faults>>

(* A statement is refused: rollback, the command fails, and with it the    *)
(* container, before the API starts.                                       *)
Fail(c) ==
    /\ AtMigration(c) /\ ~Accepted(proc[c].at + 1, Seen(c))
    /\ Goto(c, "down")
    /\ UNCHANGED <<schema, ledger, done, rows, upload, faults>>

(* The next migration waits for an upload that waits for what the          *)
(* transaction has locked, and PostgreSQL makes the migration the victim.  *)
(* (The upload as the victim is one way of UploadFails.)                   *)
LoseDeadlock(c) ==
    /\ proc[c].phase = "open" /\ proc[c].at < N
    /\ \E u \in Uploads : /\ upload[u].holds \cap Locks[proc[c].at + 1] # {}
                          /\ upload[u].wants \cap LockedBy(c) # {}
    /\ Goto(c, "down")
    /\ UNCHANGED <<schema, ledger, done, rows, upload, faults>>

(* The last pending migration is through: COMMIT.                          *)
Commit(c) ==
    /\ proc[c].phase = "open" /\ proc[c].at = N
    /\ schema' = proc[c].schema
    /\ done' = N
    /\ Goto(c, "migrated")
    /\ UNCHANGED <<ledger, rows, upload, faults>>

NothingPending(c) ==
    /\ proc[c].phase = "loaded" /\ proc[c].at = N
    /\ Goto(c, "migrated")
    /\ UNCHANGED <<schema, ledger, done, rows, upload, faults>>

(* && node dist/main.js                                                    *)
Start(c) ==
    /\ proc[c].phase = "migrated"
    /\ Goto(c, "serving")
    /\ UNCHANGED <<schema, ledger, done, rows, upload, faults>>

(* The container is killed or loses its connection: an open transaction    *)
(* rolls back.                                                             *)
Crash(c) ==
    /\ proc[c].phase # "down" /\ faults < MaxFaults
    /\ Goto(c, "down")
    /\ faults' = faults + 1
    /\ UNCHANGED <<schema, ledger, done, rows, upload>>

(* migration:revert undoes the last migration, on a development database   *)
(* nothing else uses; a table that is dropped takes its rows along.        *)
Revert ==
    /\ \A c \in Containers : proc[c].phase = "down"
    /\ \A u \in Uploads : upload[u].holds = {}
    /\ done > 0 /\ faults < MaxFaults
    /\ schema' = Down(done, schema)
    /\ rows' = rows \cap schema'
    /\ done' = done - 1
    /\ faults' = faults + 1
    /\ UNCHANGED <<ledger, upload, proc>>

(* An upload, on some release that serves, inserts into a table.           *)
Insert(u, t) ==
    /\ t \in upload[u].wants /\ t \in schema
    /\ \A c \in Containers : t \notin LockedBy(c)
    /\ upload' = [upload EXCEPT ![u].holds = @ \cup {t}, ![u].wants = @ \ {t}]
    /\ UNCHANGED <<schema, ledger, done, rows, proc, faults>>

SaveReceipt(u) == Insert(u, "receipt")

SaveLines(u) == "receipt" \in upload[u].holds /\ Insert(u, "receipt_item")

CommitUpload(u) ==
    /\ upload[u].holds # {} /\ upload[u].wants = {}
    /\ rows' = rows \cup upload[u].holds
    /\ upload' = [upload EXCEPT ![u] = Over]
    /\ UNCHANGED <<schema, ledger, done, proc, faults>>

(* A statement is refused, PostgreSQL makes it the victim of a deadlock,   *)
(* or its process dies: rollback.                                          *)
UploadFails(u) ==
    /\ upload[u].holds # {}
    /\ upload' = [upload EXCEPT ![u] = Over]
    /\ UNCHANGED <<schema, ledger, done, rows, proc, faults>>

ContainerStep(c) ==
    \/ HasTable(c) \/ CreateTable(c) \/ CreateTableFails(c)
    \/ Load(c) \/ Migrate(c) \/ Fail(c) \/ LoseDeadlock(c) \/ Commit(c)
    \/ NothingPending(c) \/ Start(c)

(* What an upload does once it has begun.                                  *)
UploadEnds(u) == SaveLines(u) \/ CommitUpload(u) \/ UploadFails(u)

Next ==
    \/ \E c \in Containers : ContainerStep(c) \/ Crash(c)
    \/ Revert
    \/ \E u \in Uploads : SaveReceipt(u) \/ UploadEnds(u)

Spec == Init /\ [][Next]_vars

(* A container that has not crashed goes on, one that stopped is started   *)
(* again, an upload that has begun ends, and the wait for a lock ends with *)
(* the lock or with a victim.                                              *)
Fairness ==
    /\ \A c \in Containers : WF_vars(ContainerStep(c))
    /\ \A u \in Uploads : WF_vars(UploadEnds(u))

FairSpec == Spec /\ Fairness

-----------------------------------------------------------------------------
TypeOK ==
    /\ schema \subseteq Columns
    /\ ledger \in BOOLEAN
    /\ done \in 0..N
    /\ rows \subseteq Tables
    /\ upload \in [Uploads -> [holds: SUBSET Tables, wants: SUBSET Tables]]
    /\ proc \in [Containers -> [phase: Phases, at: 0..N, schema: SUBSET Columns]]
    /\ faults \in 0..MaxFaults

(* A deployment is all or nothing: at any time, also in the middle of one, *)
(* after a crash and next to another, the committed schema is the one of   *)
(* the migrations recorded as executed, and an open transaction sees the   *)
(* one of those it ran (up and down of every migration).                   *)
SchemaAgreesWithLedger ==
    /\ schema = SchemaAfter(done) /\ (done > 0 => ledger)
    /\ \A c \in Containers : proc[c].phase = "open" => proc[c].schema = SchemaAfter(proc[c].at)

(* The API serves only with the schema its entity classes describe: every  *)
(* column they use is there, and none they do not fill (Dockerfile:47).    *)
ServesOnlyEntitySchema ==
    \A c \in Containers : proc[c].phase = "serving" => schema = EntityColumns

Blocking == \E i \in (done + 1)..N : NeedsEmpty[i] \cap rows # {}

(* The schema does not change under an upload: what the release that       *)
(* serves inserts into receipt and into receipt_item is committed with the *)
(* schema it was inserted with.  No lock says so by itself: it holds since *)
(* all pending migrations are one transaction and the last of them locks   *)
(* the table an upload begins with (receipt.service.ts:125, 1770093126257).*)
SchemaStillUnderUpload ==
    [][schema' # schema => \A u \in Uploads : upload[u].holds = {}]_vars

(* An upload stands between the two tables it inserts into.                *)
HalfStored(u) == upload[u] = [holds |-> {"receipt"}, wants |-> {"receipt_item"}]

(* While the database can be reached, migration:run fails for four reasons *)
(* only.  Rows are there for which a new column has no value               *)
(* (1769523612589 to 1769524755485 and 1770093102405), and no attempt will *)
(* ever succeed.  Or another container was faster, with the migrations or  *)
(* with the table that records them, on a fresh database.  Or the release  *)
(* that serves is older than 1769767651243, so that receipt_item is locked *)
(* before receipt, and an upload with lines, which locks them the other    *)
(* way round, has its receipt in when 1770093102405 comes to receipt.      *)
FailsOnlyForCause ==
    [][\A c \in Containers :
          proc[c].phase # "down" /\ proc'[c].phase = "down" /\ faults' = faults =>
              \/ Blocking
              \/ done = N
              \/ proc[c].phase = "creating" /\ ledger
              \/ done < 6 /\ proc[c].at = 6 /\ \E u \in Uploads : HalfStored(u)]_vars

(* A deployment that rows do not block comes up: in the end every          *)
(* container serves, whatever crashed, whoever was faster and whichever    *)
(* deadlock was lost (Dockerfile:47).                                      *)
EveryContainerServes ==
    <>[]~Blocking => \A c \in Containers : <>[](proc[c].phase = "serving")

-----------------------------------------------------------------------------
(* Refinement: what is committed, and who serves.                          *)
Service == INSTANCE Deployment WITH
    Creates <- [i \in Migration |-> Adds[i] \cap Tables],
    version <- done,
    serving <- {c \in Containers : proc[c].phase = "serving"}

(* Containers that race, wait for each other's locks and are killed amount *)
(* to deployments that take effect at once, over data they fit, and lose   *)
(* none: no row slips in between the check of a migration and its commit,  *)
(* and a revert loses only what it drops (migration:run:prod and           *)
(* migration:revert, package.json:24; Dockerfile:47).                      *)
ImplementsDeployment == Service!Spec

=============================================================================
