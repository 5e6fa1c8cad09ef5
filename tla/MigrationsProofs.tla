--------------------------- MODULE MigrationsProofs ---------------------------
(***************************************************************************)
(* Proofs about Migrations for any number of containers, uploads and       *)
(* faults.                                                                 *)
(***************************************************************************)
EXTENDS Migrations, TLAPS

USE MaxFaultsAssumption

-----------------------------------------------------------------------------
(* The eight migrations *)

LEMMA Eight == N = 8
  BY DEF N, Adds

LEMMA DropsValues ==
    /\ \A i \in 1..7 : Drops[i] = {}
    /\ Drops[8] = {"receipt.use_id"}
  BY DEF Drops

(* No column is added twice.                                               *)
LEMMA AddsDisjoint ==
    ASSUME NEW i \in 1..8, NEW j \in 1..8, i # j
    PROVE  Adds[i] \cap Adds[j] = {}
  BY DEF Adds

LEMMA UseId == \A i \in 1..8 : "receipt.use_id" \in Adds[i] <=> i = 7
  BY DEF Adds

LEMMA AddsSomething == \A i \in 1..8 : Adds[i] # {}
  BY DEF Adds

LEMMA InSchemaAfter ==
    ASSUME NEW n \in 0..8, NEW x
    PROVE  x \in SchemaAfter(n) <=>
               /\ \E i \in 1..n : x \in Adds[i]
               /\ n = 8 => x # "receipt.use_id"
<1>1. x \in UNION {Drops[i] : i \in 1..n} <=> \E i \in 1..n : x \in Drops[i]
  OBVIOUS
<1>2. (\E i \in 1..n : x \in Drops[i]) <=> n = 8 /\ x = "receipt.use_id"
  BY DropsValues
<1>. QED
  BY <1>1, <1>2 DEF SchemaAfter

(* Migration by migration, up leads from one schema to the next.           *)
LEMMA UpNext ==
    ASSUME NEW n \in 0..7
    PROVE  Up(n + 1, SchemaAfter(n)) = SchemaAfter(n + 1)
<1>1. ASSUME NEW x
      PROVE  x \in Up(n + 1, SchemaAfter(n)) <=> x \in SchemaAfter(n + 1)
  <2>1. (\E i \in 1..(n + 1) : x \in Adds[i])
           <=> (\E i \in 1..n : x \in Adds[i]) \/ x \in Adds[n + 1]
    OBVIOUS
  <2>2. x \in Up(n + 1, SchemaAfter(n)) <=>
            (x \in SchemaAfter(n) /\ x \notin Drops[n + 1]) \/ x \in Adds[n + 1]
    BY DEF Up
  <2>3. x \in SchemaAfter(n) <=> \E i \in 1..n : x \in Adds[i]
    BY InSchemaAfter
  <2>4. x \in SchemaAfter(n + 1) <=>
            /\ \E i \in 1..(n + 1) : x \in Adds[i]
            /\ n + 1 = 8 => x # "receipt.use_id"
    BY InSchemaAfter
  <2>5. x \in Drops[n + 1] <=> n + 1 = 8 /\ x = "receipt.use_id"
    BY DropsValues
  <2>6. n + 1 = 8 /\ x \in Adds[n + 1] => x # "receipt.use_id"
    BY UseId
  <2>. QED
    BY <2>1, <2>2, <2>3, <2>4, <2>5, <2>6
<1>. QED
  BY <1>1

(* And down leads back.                                                    *)
LEMMA DownBack ==
    ASSUME NEW n \in 1..8
    PROVE  Down(n, SchemaAfter(n)) = SchemaAfter(n - 1)
<1>1. ASSUME NEW x
      PROVE  x \in Down(n, SchemaAfter(n)) <=> x \in SchemaAfter(n - 1)
  <2>1. (\E i \in 1..n : x \in Adds[i])
           <=> (\E i \in 1..(n - 1) : x \in Adds[i]) \/ x \in Adds[n]
    OBVIOUS
  <2>2. x \in Down(n, SchemaAfter(n)) <=>
            (x \in SchemaAfter(n) /\ x \notin Adds[n]) \/ x \in Drops[n]
    BY DEF Down
  <2>3. x \in SchemaAfter(n - 1) <=> \E i \in 1..(n - 1) : x \in Adds[i]
    BY InSchemaAfter
  <2>4. x \in SchemaAfter(n) <=>
            (\E i \in 1..n : x \in Adds[i]) /\ (n = 8 => x # "receipt.use_id")
    BY InSchemaAfter
  <2>5. x \in Drops[n] <=> n = 8 /\ x = "receipt.use_id"
    BY DropsValues
  <2>6. \A i \in 1..(n - 1) : x \in Adds[i] => x \notin Adds[n]
    BY AddsDisjoint
  <2>7. n = 8 /\ x = "receipt.use_id" => \E i \in 1..(n - 1) : x \in Adds[i]
    BY UseId
  <2>. QED
    BY <2>1, <2>2, <2>3, <2>4, <2>5, <2>6, <2>7
<1>. QED
  BY <1>1

(* All of them together make what the entity classes describe.             *)
LEMMA Final == SchemaAfter(8) = EntityColumns
<1>1. ASSUME NEW x
      PROVE  (\E i \in 1..8 : x \in Adds[i]) <=>
                 x \in EntityColumns \/ x = "receipt.use_id"
  BY DEF Adds, EntityColumns
<1>2. "receipt.use_id" \notin EntityColumns
  BY DEF EntityColumns
<1>. QED
  BY <1>1, <1>2, InSchemaAfter

(* Where all migrations were run, none is accepted again.                  *)
LEMMA FinalRefuses ==
    ASSUME NEW i \in 1..8
    PROVE  ~Accepted(i, SchemaAfter(8))
<1>1. CASE i = 7
  <2>1. "receipt.s3_key" \in Adds[7]
    BY DEF Adds
  <2>2. "receipt.s3_key" \in SchemaAfter(8)
    BY <2>1, InSchemaAfter
  <2>. QED
    BY <1>1, <2>1, <2>2 DEF Accepted
<1>2. CASE i # 7
  <2>1. PICK x \in Adds[i] : TRUE
    BY AddsSomething
  <2>2. x # "receipt.use_id"
    BY <1>2, UseId
  <2>3. x \in SchemaAfter(8)
    BY <2>1, <2>2, InSchemaAfter
  <2>. QED
    BY <2>1, <2>3 DEF Accepted
<1>. QED
  BY <1>1, <1>2

(* In the schema before it, a migration is refused because of rows only.   *)
LEMMA NextRefusedByRows ==
    ASSUME NEW n \in 0..7, ~Accepted(n + 1, SchemaAfter(n))
    PROVE  NeedsEmpty[n + 1] \cap rows # {}
<1>1. Adds[n + 1] \cap SchemaAfter(n) = {}
  BY InSchemaAfter, AddsDisjoint
<1>2. Drops[n + 1] \subseteq SchemaAfter(n)
  <2>1. CASE n = 7
    BY <2>1, DropsValues, UseId, InSchemaAfter
  <2>2. CASE n # 7
    BY <2>2, DropsValues
  <2>. QED
    BY <2>1, <2>2
<1>. QED
  BY <1>1, <1>2 DEF Accepted

-----------------------------------------------------------------------------
(* The containers *)

Record == [phase: Phases, at: 0..8, schema: SUBSET Columns]

UploadRecord == [holds: SUBSET Tables, wants: SUBSET Tables]

(* What a container knows: there is a table of migrations; what it loaded  *)
(* from it is still the committed one, or another container was faster;    *)
(* its transaction is ahead of the table; and who is past the command      *)
(* knows that nothing is pending.                                          *)
ViewOK(c) ==
    /\ proc[c].phase \in {"ready", "loaded", "open"} => ledger
    /\ proc[c].phase = "loaded" => proc[c].at = done \/ done = 8
    /\ proc[c].phase = "open" => done < proc[c].at /\ proc[c].schema = SchemaAfter(proc[c].at)
    /\ proc[c].phase \in {"migrated", "serving"} => done = 8

(* The inductive invariant; the locks leave one open transaction at most.  *)
IInv ==
    /\ done \in 0..8 /\ rows \subseteq Tables /\ faults \in 0..MaxFaults
    /\ ledger \in BOOLEAN /\ (done > 0 => ledger)
    /\ upload \in [Uploads -> UploadRecord]
    /\ proc \in [Containers -> Record]
    /\ schema = SchemaAfter(done)
    /\ \A c \in Containers : ViewOK(c)
    /\ \A c, d \in Containers :
          proc[c].phase = "open" /\ proc[d].phase = "open" => c = d

LEMMA SchemaType == ASSUME NEW n \in 0..8 PROVE SchemaAfter(n) \subseteq Columns
  BY Eight, InSchemaAfter DEF Columns, Migration

LEMMA StoppedType == Stopped \in Record /\ Stopped.phase = "down"
  BY DEF Stopped, Record, Phases

LEMMA OverType == Over \in UploadRecord /\ Over.holds = {} /\ Over.wants = {}
  BY DEF Over, UploadRecord

LEMMA InitIInv == Init => IInv
<1>. SUFFICES ASSUME Init PROVE IInv
  OBVIOUS
<1>1. upload \in [Uploads -> UploadRecord]
  <2>1. PICK w \in [Uploads -> {{"receipt"}, Tables}] :
            upload = [u \in Uploads |-> [Over EXCEPT !.wants = w[u]]]
    BY DEF Init
  <2>2. \A u \in Uploads : w[u] \subseteq Tables
    BY DEF Tables
  <2>. QED
    BY <2>1, <2>2 DEF Over, UploadRecord
<1>. QED
  BY <1>1, Eight, StoppedType DEF Init, IInv, ViewOK, Tables

(* A step of one container that leaves the schema alone.                   *)
LEMMA MovePreserves ==
    ASSUME IInv, NEW c \in Containers, NEW rec \in Record,
           proc' = [proc EXCEPT ![c] = rec],
           rec.phase \in {"ready", "loaded", "open"} => ledger',
           rec.phase = "loaded" => rec.at = done \/ done = 8,
           rec.phase = "open" =>
               /\ done < rec.at /\ rec.schema = SchemaAfter(rec.at)
               /\ \A d \in Containers \ {c} : proc[d].phase # "open",
           rec.phase \in {"migrated", "serving"} => done = 8,
           ledger' \in BOOLEAN, ledger => ledger',
           UNCHANGED <<schema, done, rows, upload>>, faults' \in 0..MaxFaults
    PROVE  IInv'
<1>1. proc' \in [Containers -> Record] /\ proc'[c] = rec
      /\ \A d \in Containers \ {c} : proc'[d] = proc[d]
  BY DEF IInv
<1>2. schema' = SchemaAfter(done') /\ (done' > 0 => ledger')
  BY DEF IInv
<1>3. \A d \in Containers : ViewOK(d)'
  BY <1>1 DEF IInv, ViewOK
<1>4. \A d, e \in Containers :
         proc'[d].phase = "open" /\ proc'[e].phase = "open" => d = e
  BY <1>1 DEF IInv
<1>. QED
  BY <1>1, <1>2, <1>3, <1>4 DEF IInv

(* One that is at no migration afterwards.                                 *)
LEMMA GotoPreserves ==
    ASSUME IInv, NEW c \in Containers,
           NEW p \in {"down", "creating", "ready", "migrated", "serving"}, Goto(c, p),
           p = "ready" => ledger',
           p \in {"migrated", "serving"} => done = 8,
           ledger' \in BOOLEAN, ledger => ledger',
           UNCHANGED <<schema, done, rows, upload>>, faults' \in 0..MaxFaults
    PROVE  IInv'
<1> DEFINE rec == [Stopped EXCEPT !.phase = p]
<1>1. rec \in Record /\ rec.phase = p
  BY DEF Stopped, Record, Phases
<1>2. proc' = [proc EXCEPT ![c] = rec]
  BY DEF Goto
<1> HIDE DEF rec
<1>. QED
  BY <1>1, <1>2, MovePreserves

LEMMA LoadPreserves ==
    ASSUME IInv, NEW c \in Containers, Load(c) PROVE IInv'
<1> DEFINE rec == [phase |-> "loaded", at |-> done, schema |-> {}]
<1>1. rec \in Record /\ rec.phase = "loaded" /\ rec.at = done
  BY DEF IInv, Record, Phases
<1>2. proc' = [proc EXCEPT ![c] = rec] /\ UNCHANGED <<schema, ledger, done, rows, upload>>
      /\ faults' \in 0..MaxFaults /\ ledger' /\ ledger' \in BOOLEAN
  BY DEF Load, IInv, ViewOK
<1> HIDE DEF rec
<1>. QED
  BY <1>1, <1>2, MovePreserves

(* Where a container stands when a migration is its turn: right before it, *)
(* unless another container has run them all.                              *)
LEMMA AtMigrationView ==
    ASSUME IInv, NEW c \in Containers, AtMigration(c)
    PROVE  /\ proc[c].at \in 0..7
           /\ \/ done = 8 /\ Seen(c) = SchemaAfter(8)
              \/ done <= proc[c].at /\ Seen(c) = SchemaAfter(proc[c].at)
  BY Eight DEF IInv, ViewOK, AtMigration, Seen, Record

LEMMA MigratePreserves ==
    ASSUME IInv, NEW c \in Containers, Migrate(c) PROVE IInv'
<1> DEFINE n == proc[c].at
           rec == [phase |-> "open", at |-> n + 1, schema |-> Up(n + 1, Seen(c))]
<1>1. AtMigration(c) /\ Accepted(n + 1, Seen(c))
  BY DEF Migrate
<1>2. n \in 0..7 /\ done <= n /\ Seen(c) = SchemaAfter(n)
  BY <1>1, AtMigrationView, FinalRefuses
<1>3. rec.phase = "open" /\ rec.at = n + 1 /\ rec.schema = SchemaAfter(n + 1)
  BY <1>2, UpNext
<1>4. rec \in Record
  BY <1>2, <1>3, SchemaType DEF Record, Phases
<1>5. proc' = [proc EXCEPT ![c] = rec] /\ UNCHANGED <<schema, ledger, done, rows, upload, faults>>
  BY DEF Migrate
<1>7. ledger
  BY <1>1 DEF AtMigration, IInv, ViewOK
<1>6. done < rec.at /\ \A d \in Containers \ {c} : proc[d].phase # "open"
  BY <1>1, <1>2, <1>3 DEF AtMigration, IInv
<1> HIDE DEF rec, n
<1>. QED
  BY <1>3, <1>4, <1>5, <1>6, <1>7, MovePreserves DEF IInv

LEMMA CommitPreserves ==
    ASSUME IInv, NEW c \in Containers, Commit(c) PROVE IInv'
<1> DEFINE rec == [Stopped EXCEPT !.phase = "migrated"]
<1>1. rec \in Record /\ rec.phase = "migrated"
  BY DEF Stopped, Record, Phases
<1>2. /\ schema' = SchemaAfter(8) /\ done' = 8 /\ UNCHANGED <<ledger, rows, upload, faults>>
      /\ proc' = [proc EXCEPT ![c] = rec] /\ ledger
  BY Eight DEF Commit, Goto, IInv, ViewOK
<1> HIDE DEF rec
<1>3. proc' \in [Containers -> Record] /\ proc'[c] = rec
      /\ \A d \in Containers \ {c} : proc'[d] = proc[d]
  BY <1>1, <1>2 DEF IInv
<1>4. \A d \in Containers : proc'[d].phase # "open"
  BY <1>1, <1>3 DEF IInv, Commit
<1>5. \A d \in Containers : ViewOK(d)'
  BY <1>2, <1>4 DEF ViewOK
<1>. QED
  BY <1>2, <1>3, <1>4, <1>5 DEF IInv

LEMMA RevertPreserves == ASSUME IInv, Revert PROVE IInv'
<1>1. schema' = SchemaAfter(done - 1) /\ done' = done - 1 /\ done' \in 0..8
  BY DownBack DEF Revert, IInv
<1>2. rows' \subseteq Tables /\ faults' \in 0..MaxFaults /\ UNCHANGED <<ledger, upload, proc>>
      /\ ledger
  BY DEF Revert, IInv
<1>3. \A d \in Containers : ViewOK(d)'
  BY <1>2 DEF Revert, ViewOK
<1>. QED
  BY <1>1, <1>2, <1>3 DEF IInv

(* An upload changes rows and locks only.                                  *)
LEMMA UploadPreserves ==
    ASSUME IInv, NEW u \in Uploads, SaveReceipt(u) \/ UploadEnds(u)
    PROVE  IInv'
<1>1. /\ rows' \subseteq Tables /\ upload' \in [Uploads -> UploadRecord]
      /\ UNCHANGED <<schema, ledger, done, proc, faults>>
  <2>1. ASSUME NEW t \in Tables, Insert(u, t) PROVE upload' \in [Uploads -> UploadRecord]
    BY <2>1 DEF Insert, IInv, UploadRecord
  <2>2. SaveReceipt(u) \/ SaveLines(u) => \E t \in Tables : Insert(u, t)
    BY DEF SaveReceipt, SaveLines, Tables
  <2>3. ASSUME CommitUpload(u) \/ UploadFails(u) PROVE upload' \in [Uploads -> UploadRecord]
    BY <2>3, OverType DEF CommitUpload, UploadFails, IInv
  <2>4. upload[u].holds \subseteq Tables
    BY DEF IInv, UploadRecord
  <2>. QED
    BY <2>1, <2>2, <2>3, <2>4 DEF UploadEnds, SaveReceipt, SaveLines, Insert, CommitUpload,
           UploadFails, IInv
<1>. QED
  BY <1>1 DEF IInv, ViewOK

LEMMA NextIInv == IInv /\ [Next]_vars => IInv'
<1>. SUFFICES ASSUME IInv, [Next]_vars PROVE IInv'
  OBVIOUS
<1>0. ledger \in BOOLEAN /\ faults \in 0..MaxFaults
  BY DEF IInv
<1>1. ASSUME NEW c \in Containers,
             CreateTableFails(c) \/ Fail(c) \/ LoseDeadlock(c) \/ Crash(c)
      PROVE  IInv'
  <2>1. Goto(c, "down") /\ UNCHANGED <<schema, ledger, done, rows, upload>>
        /\ faults' \in 0..MaxFaults
    BY <1>0, <1>1 DEF CreateTableFails, Fail, LoseDeadlock, Crash
  <2>. QED
    BY <1>0, <2>1, GotoPreserves
<1>2. ASSUME NEW c \in Containers, HasTable(c) PROVE IInv'
  <2>1. CASE ledger
    BY <1>0, <1>2, <2>1, GotoPreserves DEF HasTable
  <2>2. CASE ~ledger
    BY <1>0, <1>2, <2>2, GotoPreserves DEF HasTable
  <2>. QED
    BY <2>1, <2>2
<1>3. ASSUME NEW c \in Containers, CreateTable(c) PROVE IInv'
  BY <1>0, <1>3, GotoPreserves DEF CreateTable
<1>4. ASSUME NEW c \in Containers, NothingPending(c) PROVE IInv'
  <2>1. done = 8
    BY <1>4, Eight DEF NothingPending, IInv, ViewOK
  <2>. QED
    BY <1>0, <1>4, <2>1, GotoPreserves DEF NothingPending
<1>5. ASSUME NEW c \in Containers, Start(c) PROVE IInv'
  <2>1. done = 8
    BY <1>5 DEF Start, IInv, ViewOK
  <2>. QED
    BY <1>0, <1>5, <2>1, GotoPreserves DEF Start
<1>6. CASE UNCHANGED vars
  BY <1>6 DEF vars, IInv, ViewOK
<1>. QED
  BY <1>1, <1>2, <1>3, <1>4, <1>5, <1>6, LoadPreserves, MigratePreserves,
     CommitPreserves, RevertPreserves, UploadPreserves DEF Next, ContainerStep

LEMMA Inductive == Spec => []IInv
  BY InitIInv, NextIInv, PTL DEF Spec

-----------------------------------------------------------------------------
(* Type correctness.                                                       *)
THEOREM TypeCorrect == Spec => []TypeOK
<1>1. IInv => TypeOK
  BY Eight, SchemaType DEF IInv, TypeOK, Record, UploadRecord
<1>. QED
  BY <1>1, Inductive, PTL

(* A deployment is all or nothing (up and down of every migration).        *)
THEOREM AllOrNothing == Spec => []SchemaAgreesWithLedger
<1>1. IInv => SchemaAgreesWithLedger
  BY DEF IInv, ViewOK, SchemaAgreesWithLedger
<1>. QED
  BY <1>1, Inductive, PTL

(* The API serves only with the schema of its entity classes               *)
(* (Dockerfile:47).                                                        *)
THEOREM ServesEntitySchema == Spec => []ServesOnlyEntitySchema
<1>1. IInv => ServesOnlyEntitySchema
  BY Final DEF IInv, ViewOK, ServesOnlyEntitySchema
<1>. QED
  BY <1>1, Inductive, PTL

-----------------------------------------------------------------------------
(* Rows and locks *)

(* Rows are in tables that exist, and stay out of the tables for which an  *)
(* open transaction found none: it holds their locks to its end.           *)
RowsOK ==
    /\ rows \subseteq schema
    /\ \A c \in Containers : proc[c].phase = "open" =>
          \A i \in (done + 1)..proc[c].at : NeedsEmpty[i] \cap rows = {}

(* An upload begins with receipt, inserts into tables that exist, and      *)
(* holds none that an open transaction has locked.                         *)
UploadsOK ==
    \A u \in Uploads :
        /\ upload[u].holds \subseteq schema
        /\ upload[u].holds \cap upload[u].wants = {}
        /\ upload[u].holds # {} => "receipt" \in upload[u].holds
        /\ \A c \in Containers : proc[c].phase = "open" =>
               \A i \in (done + 1)..proc[c].at : Locks[i] \cap upload[u].holds = {}

LEMMA NeedsLocked ==
    /\ Len(NeedsEmpty) = 8
    /\ \A i \in 1..8 : NeedsEmpty[i] \subseteq Locks[i]
  BY DEF NeedsEmpty, Locks

LEMMA LocksValues ==
    /\ \A i \in 1..2 : Locks[i] = {}
    /\ \A i \in 3..6 : Locks[i] = {"receipt_item"}
    /\ \A i \in 7..8 : Locks[i] = {"receipt"}
  BY DEF Locks

LEMMA InLockedBy ==
    ASSUME NEW c \in Containers, NEW t
    PROVE  t \in LockedBy(c) <=> /\ proc[c].phase = "open"
                                /\ \E i \in (done + 1)..proc[c].at : t \in Locks[i]
  BY DEF LockedBy

LEMMA TablesAt ==
    ASSUME NEW n \in 0..8, NEW t \in Tables
    PROVE  t \in SchemaAfter(n) <=> \E i \in 1..n : t \in Adds[i]
<1>1. t # "receipt.use_id"
  BY DEF Tables
<1>. QED
  BY <1>1, InSchemaAfter

(* A migration that was accepted found no rows where it needs none, and    *)
(* so did the ones before it in its transaction.                           *)
LEMMA MigrateKeepsRows ==
    ASSUME IInv, RowsOK, NEW c \in Containers, Migrate(c) PROVE RowsOK'
<1> DEFINE n == proc[c].at
<1>1. AtMigration(c) /\ Accepted(n + 1, Seen(c))
  BY DEF Migrate
<1>2. n \in 0..7 /\ done <= n /\ done # 8
  BY <1>1, AtMigrationView, FinalRefuses
<1>3. NeedsEmpty[n + 1] \cap rows = {}
  BY <1>1 DEF Accepted
<1>4. \A i \in (done + 1)..(n + 1) : NeedsEmpty[i] \cap rows = {}
  <2>1. CASE proc[c].phase = "open"
    BY <1>2, <1>3, <2>1 DEF RowsOK, IInv
  <2>2. CASE proc[c].phase = "loaded"
    BY <1>2, <1>3, <2>2 DEF ViewOK, IInv
  <2>. QED
    BY <1>1, <2>1, <2>2 DEF AtMigration
<1>5. /\ UNCHANGED <<schema, done, rows>>
      /\ proc'[c].at = n + 1
      /\ \A d \in Containers \ {c} : proc'[d] = proc[d]
  BY DEF Migrate, IInv
<1>. QED
  BY <1>4, <1>5 DEF RowsOK

(* Nor does any upload hold what it locks.                                 *)
LEMMA MigrateKeepsUploads ==
    ASSUME IInv, UploadsOK, NEW c \in Containers, Migrate(c) PROVE UploadsOK'
<1> DEFINE n == proc[c].at
<1>1. AtMigration(c) /\ Accepted(n + 1, Seen(c))
  BY DEF Migrate
<1>2. n \in 0..7 /\ done <= n /\ done # 8
  BY <1>1, AtMigrationView, FinalRefuses
<1>3. ASSUME NEW u \in Uploads, NEW i \in (done + 1)..(n + 1)
      PROVE  Locks[i] \cap upload[u].holds = {}
  <2>1. CASE i = n + 1
    BY <1>1, <2>1 DEF AtMigration
  <2>2. CASE i # n + 1
    <3>1. i \in (done + 1)..n
      BY <1>2, <2>2 DEF IInv
    <3>2. proc[c].phase = "open"
      BY <1>1, <1>2, <3>1 DEF AtMigration, IInv, ViewOK
    <3>. QED
      BY <3>1, <3>2 DEF UploadsOK
  <2>. QED
    BY <2>1, <2>2
<1>5. /\ UNCHANGED <<schema, done, upload>>
      /\ proc'[c].at = n + 1
      /\ \A d \in Containers \ {c} : proc'[d] = proc[d]
  BY DEF Migrate, IInv
<1>. QED
  BY <1>3, <1>5 DEF UploadsOK

(* A transaction that has run every migration has locked receipt, so no    *)
(* upload is under way when it commits.                                    *)
LEMMA CommitAlone ==
    ASSUME IInv, UploadsOK, NEW c \in Containers, Commit(c)
    PROVE  \A u \in Uploads : upload[u].holds = {}
<1>1. proc[c].phase = "open" /\ proc[c].at = 8 /\ 8 \in (done + 1)..8
  BY Eight DEF Commit, IInv, ViewOK
<1>. QED
  BY <1>1, LocksValues DEF UploadsOK

LEMMA InsertKeepsUploads ==
    ASSUME IInv, UploadsOK, NEW u \in Uploads, NEW t \in Tables, Insert(u, t),
           t = "receipt" \/ "receipt" \in upload[u].holds
    PROVE  UploadsOK'
<1>1. /\ upload[u].holds \subseteq Tables /\ t \in schema
      /\ upload'[u].holds = upload[u].holds \cup {t}
      /\ upload'[u].wants = upload[u].wants \ {t}
      /\ \A v \in Uploads \ {u} : upload'[v] = upload[v]
      /\ UNCHANGED <<schema, done, proc>>
  BY DEF Insert, IInv, UploadRecord
<1>2. ASSUME NEW c \in Containers, proc[c].phase = "open",
             NEW i \in (done + 1)..proc[c].at
      PROVE  t \notin Locks[i]
  BY <1>2, InLockedBy DEF Insert
<1>3. /\ upload'[u].holds \subseteq schema
      /\ upload'[u].holds \cap upload'[u].wants = {}
      /\ "receipt" \in upload'[u].holds
  BY <1>1 DEF UploadsOK
<1>4. ASSUME NEW c \in Containers, proc[c].phase = "open",
             NEW i \in (done + 1)..proc[c].at
      PROVE  Locks[i] \cap upload'[u].holds = {}
  BY <1>1, <1>2, <1>4 DEF UploadsOK
<1>. QED
  BY <1>1, <1>3, <1>4 DEF UploadsOK

(* What an upload commits goes into tables that no migration has locked.   *)
LEMMA CommitUploadKeepsRows ==
    ASSUME IInv, RowsOK, UploadsOK, NEW u \in Uploads, CommitUpload(u) PROVE RowsOK'
<1>1. rows' = rows \cup upload[u].holds /\ UNCHANGED <<schema, done, proc>>
  BY DEF CommitUpload
<1>2. ASSUME NEW c \in Containers, proc[c].phase = "open",
             NEW i \in (done + 1)..proc[c].at
      PROVE  NeedsEmpty[i] \cap rows' = {}
  <2>1. i \in 1..8
    BY DEF IInv, Record
  <2>2. Locks[i] \cap upload[u].holds = {} /\ NeedsEmpty[i] \cap rows = {}
    BY <1>2 DEF UploadsOK, RowsOK
  <2>. QED
    BY <1>1, <2>1, <2>2, NeedsLocked
<1>. QED
  BY <1>1, <1>2 DEF RowsOK, UploadsOK

LEMMA UploadKeeps ==
    ASSUME IInv, RowsOK, UploadsOK, NEW u \in Uploads, SaveReceipt(u) \/ UploadEnds(u)
    PROVE  RowsOK' /\ UploadsOK'
<1>1. ASSUME NEW t \in Tables, Insert(u, t), t = "receipt" \/ "receipt" \in upload[u].holds
      PROVE  RowsOK' /\ UploadsOK'
  <2>1. RowsOK'
    BY <1>1 DEF Insert, RowsOK
  <2>. QED
    BY <1>1, <2>1, InsertKeepsUploads
<1>2. ASSUME CommitUpload(u) \/ UploadFails(u) PROVE UploadsOK'
  <2>1. /\ UNCHANGED <<schema, done, proc>> /\ upload'[u] = Over
        /\ \A v \in Uploads \ {u} : upload'[v] = upload[v]
    BY <1>2 DEF CommitUpload, UploadFails, IInv
  <2>. QED
    BY <2>1, OverType DEF UploadsOK
<1>3. ASSUME UploadFails(u) PROVE RowsOK'
  BY <1>3 DEF UploadFails, RowsOK
<1>. QED
  BY <1>1, <1>2, <1>3, CommitUploadKeepsRows
     DEF UploadEnds, SaveReceipt, SaveLines, Tables

LEMMA NextRows == IInv /\ RowsOK /\ UploadsOK /\ [Next]_vars => RowsOK' /\ UploadsOK'
<1>. SUFFICES ASSUME IInv, RowsOK, UploadsOK, [Next]_vars PROVE RowsOK' /\ UploadsOK'
  OBVIOUS
<1>1. ASSUME NEW c \in Containers,
             \/ HasTable(c) \/ CreateTable(c) \/ CreateTableFails(c) \/ Load(c)
             \/ Fail(c) \/ LoseDeadlock(c) \/ NothingPending(c) \/ Start(c) \/ Crash(c)
      PROVE  RowsOK' /\ UploadsOK'
  <2>1. /\ UNCHANGED <<schema, done, rows, upload>> /\ proc'[c].phase # "open"
        /\ \A d \in Containers \ {c} : proc'[d] = proc[d]
    BY <1>1 DEF HasTable, CreateTable, CreateTableFails, Load, Fail, LoseDeadlock,
           NothingPending, Start, Crash, Goto, Stopped, IInv, Record
  <2>. QED
    BY <2>1 DEF RowsOK, UploadsOK
<1>2. ASSUME NEW c \in Containers, Commit(c) PROVE RowsOK' /\ UploadsOK'
  <2>1. /\ schema' = SchemaAfter(8) /\ UNCHANGED <<rows, upload>>
        /\ proc'[c].phase # "open"
        /\ \A d \in Containers \ {c} : proc'[d] = proc[d]
    BY <1>2, Eight DEF Commit, Goto, IInv, ViewOK, Stopped
  <2>2. \A d \in Containers : proc'[d].phase # "open"
    BY <1>2, <2>1 DEF Commit, IInv
  <2>3. rows \subseteq SchemaAfter(8)
    BY TablesAt DEF RowsOK, IInv
  <2>4. \A u \in Uploads : upload[u].holds = {}
    BY <1>2, CommitAlone
  <2>. QED
    BY <2>1, <2>2, <2>3, <2>4 DEF RowsOK, UploadsOK
<1>3. CASE Revert
  BY <1>3 DEF Revert, RowsOK, UploadsOK
<1>4. CASE UNCHANGED vars
  BY <1>4 DEF vars, RowsOK, UploadsOK
<1>. QED
  BY <1>1, <1>2, <1>3, <1>4, MigrateKeepsRows, MigrateKeepsUploads, UploadKeeps
     DEF Next, ContainerStep

LEMMA RowsInductive == Spec => [](IInv /\ RowsOK /\ UploadsOK)
<1>1. Init => RowsOK /\ UploadsOK
  <2>. SUFFICES ASSUME Init PROVE RowsOK /\ UploadsOK
    OBVIOUS
  <2>1. \A u \in Uploads : upload[u].holds = {}
    BY OverType DEF Init, Over
  <2>. QED
    BY <2>1 DEF Init, RowsOK, UploadsOK, Stopped
<1>. QED
  BY <1>1, InitIInv, NextIInv, NextRows, PTL DEF Spec

(* What an upload inserts is committed with the schema it was inserted     *)
(* with (receipt.service.ts:125, 1770093126257).                           *)
THEOREM UploadsKeepSchema == Spec => SchemaStillUnderUpload
<1>1. ASSUME IInv, RowsOK, UploadsOK, Next, schema' # schema
      PROVE  \A u \in Uploads : upload[u].holds = {}
  <2>1. (\E c \in Containers : Commit(c)) \/ Revert
    BY <1>1 DEF Next, ContainerStep, HasTable, CreateTable, CreateTableFails, Load, Migrate,
           Fail, LoseDeadlock, NothingPending, Start, Crash, SaveReceipt, UploadEnds,
           SaveLines, Insert, CommitUpload, UploadFails
  <2>. QED
    BY <1>1, <2>1, CommitAlone DEF Revert
<1>2. IInv /\ RowsOK /\ UploadsOK /\ [Next]_vars =>
          [schema' # schema => \A u \in Uploads : upload[u].holds = {}]_vars
  BY <1>1
<1>. QED
  BY <1>2, RowsInductive, PTL DEF Spec, SchemaStillUnderUpload

(* Where a deadlock can be: an upload has its receipt in and not its       *)
(* lines, and the transaction began with a migration of receipt_item and   *)
(* has come to the first one of receipt.                                   *)
LEMMA DeadlockPlace ==
    ASSUME IInv, UploadsOK, NEW c \in Containers, LoseDeadlock(c)
    PROVE  done < 6 /\ proc[c].at = 6 /\ \E u \in Uploads : HalfStored(u)
<1> DEFINE n == proc[c].at
<1>1. PICK u \in Uploads : /\ upload[u].holds \cap Locks[n + 1] # {}
                           /\ upload[u].wants \cap LockedBy(c) # {}
  BY DEF LoseDeadlock
<1>2. proc[c].phase = "open" /\ n \in 1..7 /\ done \in 0..7 /\ done < n
  BY Eight DEF LoseDeadlock, IInv, ViewOK, Record
<1>3. /\ upload[u].holds \subseteq Tables /\ upload[u].wants \subseteq Tables
      /\ upload[u] = [holds |-> upload[u].holds, wants |-> upload[u].wants]
  BY DEF IInv, UploadRecord
<1>4. /\ "receipt" \in upload[u].holds
      /\ upload[u].holds \cap upload[u].wants = {}
      /\ \A i \in (done + 1)..n : Locks[i] \cap upload[u].holds = {}
  BY <1>1, <1>2 DEF UploadsOK
<1>5. PICK i \in (done + 1)..n : Locks[i] \cap upload[u].wants # {}
  BY <1>1, InLockedBy
<1>6. upload[u].wants = {"receipt_item"} /\ upload[u].holds = {"receipt"}
  BY <1>1, <1>3, <1>4 DEF Tables
<1>7. i \in 3..6
  BY <1>2, <1>5, <1>6, LocksValues
<1>8. n + 1 \in 7..8
  BY <1>1, <1>2, <1>6, LocksValues
<1>9. n # 7
  BY <1>2, <1>4, LocksValues
<1>. QED
  BY <1>2, <1>3, <1>5, <1>6, <1>7, <1>8, <1>9 DEF HalfStored

(* A migration is refused over rows or behind a faster container only.     *)
LEMMA RefusalHasCause ==
    ASSUME IInv, NEW c \in Containers, Fail(c) PROVE Blocking \/ done = N
<1> DEFINE n == proc[c].at
<1>1. AtMigration(c) /\ ~Accepted(n + 1, Seen(c))
  BY DEF Fail
<1>2. n \in 0..7 /\ (done = 8 \/ (done <= n /\ Seen(c) = SchemaAfter(n)))
  BY <1>1, AtMigrationView
<1>3. CASE done = 8
  BY <1>3, Eight
<1>4. CASE done <= n /\ Seen(c) = SchemaAfter(n)
  <2>1. NeedsEmpty[n + 1] \cap rows # {}
    BY <1>1, <1>2, <1>4, NextRefusedByRows
  <2>2. n + 1 \in (done + 1)..N
    BY <1>2, <1>4, Eight DEF IInv
  <2>. QED
    BY <2>1, <2>2 DEF Blocking
<1>. QED
  BY <1>2, <1>3, <1>4

(* migration:run fails over rows, behind a faster container, in the race   *)
(* for the table of migrations on a fresh database, or in a deadlock with  *)
(* an upload of a release older than 1769767651243; and for no other       *)
(* reason while the database can be reached (up of every migration,        *)
(* receipt.service.ts:139 and :153).                                       *)
THEOREM FailureHasCause == Spec => FailsOnlyForCause
<1> DEFINE Cause(c) == \/ Blocking
                       \/ done = N
                       \/ proc[c].phase = "creating" /\ ledger
                       \/ done < 6 /\ proc[c].at = 6 /\ \E u \in Uploads : HalfStored(u)
           GoesDown(c) == proc[c].phase # "down" /\ proc'[c].phase = "down" /\ faults' = faults
<1>1. ASSUME IInv, UploadsOK, Next, NEW c \in Containers, GoesDown(c)
      PROVE  Cause(c)
  <2>1. proc \in [Containers -> Record] /\ faults \in Nat
    BY <1>1 DEF IInv
  <2>2. CASE \E u \in Uploads : SaveReceipt(u) \/ UploadEnds(u)
    BY <1>1, <2>2 DEF SaveReceipt, UploadEnds, SaveLines, Insert, CommitUpload, UploadFails
  <2>3. CASE Revert
    BY <1>1, <2>3 DEF Revert
  <2>4. ASSUME NEW d \in Containers, ContainerStep(d) \/ Crash(d) PROVE Cause(c)
    <3>1. \A e \in Containers \ {d} : proc'[e] = proc[e]
      BY <2>1, <2>4 DEF ContainerStep, HasTable, CreateTable, CreateTableFails, Load, Migrate,
             Fail, LoseDeadlock, Commit, NothingPending, Start, Crash, Goto
    <3>2. c = d
      BY <1>1, <3>1
    <3>3. CreateTableFails(c) \/ Fail(c) \/ LoseDeadlock(c)
      BY <1>1, <2>1, <2>4, <3>2 DEF ContainerStep, HasTable, CreateTable, Load, Migrate,
             Commit, NothingPending, Start, Crash, Goto, Stopped
    <3>. QED
      BY <1>1, <3>3, RefusalHasCause, DeadlockPlace DEF CreateTableFails
  <2>. QED
    BY <1>1, <2>2, <2>3, <2>4 DEF Next
<1>2. IInv /\ UploadsOK /\ [Next]_vars => [\A c \in Containers : GoesDown(c) => Cause(c)]_vars
  BY <1>1
<1>. QED
  BY <1>2, RowsInductive, PTL DEF Spec, FailsOnlyForCause

-----------------------------------------------------------------------------
(* The refinement *)

Serving == {c \in Containers : proc[c].phase = "serving"}

(* The tables of the abstract database are those of the schema.            *)
LEMMA ExistingTables ==
    ASSUME IInv PROVE Service!Existing = schema \cap Tables
<1> DEFINE creates == [i \in Migration |-> Adds[i] \cap Tables]
<1>1. Service!Existing = UNION {creates[i] : i \in 1..done}
  BY DEF Service!Existing
<1>2. \A i \in 1..done : creates[i] = Adds[i] \cap Tables
  BY Eight DEF Migration, IInv
<1> HIDE DEF creates
<1>3. ASSUME NEW t
      PROVE  t \in Service!Existing <=> t \in Tables /\ \E i \in 1..done : t \in Adds[i]
  BY <1>1, <1>2
<1>. QED
  BY <1>3, TablesAt DEF IInv

LEMMA CommitDeploys ==
    ASSUME IInv, RowsOK, NEW c \in Containers, Commit(c)
    PROVE  Service!Deploy
<1>1. done \in 0..7 /\ done' = 8 /\ UNCHANGED rows
  BY Eight DEF Commit, IInv, ViewOK
<1>2. \A i \in (done + 1)..8 : NeedsEmpty[i] \cap rows = {}
  BY Eight DEF Commit, RowsOK
<1>3. UNCHANGED Serving
  BY DEF Commit, Goto, Serving, IInv, Stopped
<1>. QED
  BY <1>1, <1>2, <1>3, NeedsLocked DEF Service!Deploy, Service!Last, Serving

(* down() takes away what up() of the same migration made, and of the      *)
(* tables nothing else.                                                    *)
LEMMA RevertUndoes == ASSUME IInv, RowsOK, Revert PROVE Service!Undo
<1>1. done \in 1..8 /\ done' = done - 1 /\ UNCHANGED proc
  BY DEF Revert, IInv
<1>2. rows' = rows \ (Adds[done] \cap Tables)
  <2>1. schema' = (schema \ Adds[done]) \cup Drops[done] /\ rows' = rows \cap schema'
    BY DEF Revert, Down
  <2>2. Drops[done] \cap Tables = {}
    BY <1>1, DropsValues DEF Tables
  <2>3. rows \subseteq schema \cap Tables
    BY DEF RowsOK, IInv
  <2>4. \A t \in rows : t \in schema' <=> t \notin Adds[done]
    BY <2>1, <2>2, <2>3
  <2>. QED
    BY <2>1, <2>3, <2>4
<1>3. Serving = {} /\ UNCHANGED Serving
  BY <1>1 DEF Revert, Serving
<1>4. [i \in Migration |-> Adds[i] \cap Tables][done] = Adds[done] \cap Tables
  BY <1>1, Eight DEF Migration
<1>. QED
  BY <1>1, <1>2, <1>3, <1>4 DEF Service!Undo, Serving

LEMMA CommitUploadStores ==
    ASSUME IInv, UploadsOK, NEW u \in Uploads, CommitUpload(u)
    PROVE  \E T \in SUBSET Service!Existing : Service!Store(T)
<1>1. PICK T : T = upload[u].holds
  OBVIOUS
<1>2. T \subseteq Service!Existing
  BY <1>1, ExistingTables DEF UploadsOK, IInv, UploadRecord
<1>3. UNCHANGED Serving /\ rows' = rows \cup T /\ UNCHANGED done
  BY <1>1 DEF CommitUpload, Serving
<1>. QED
  BY <1>2, <1>3 DEF Service!Store, Serving

LEMMA StartServes ==
    ASSUME IInv, NEW c \in Containers, Start(c) PROVE Service!Serve(c)
<1>1. done = 8 /\ UNCHANGED <<done, rows>>
  BY DEF Start, IInv, ViewOK
<1>2. Serving' = Serving \cup {c}
  BY DEF Start, Goto, Serving, IInv, Stopped
<1>. QED
  BY <1>1, <1>2, NeedsLocked DEF Service!Serve, Service!Last, Serving

LEMMA CrashStops ==
    ASSUME IInv, NEW c \in Containers, Crash(c) PROVE Service!Stop(c)
<1>1. Serving' = Serving \ {c}
  BY DEF Crash, Goto, Serving, IInv, Stopped
<1>. QED
  BY <1>1 DEF Crash, Service!Stop, Serving

(* Every other step of a container is its own business.                    *)
LEMMA OthersStutter ==
    ASSUME IInv, NEW c \in Containers,
           \/ HasTable(c) \/ CreateTable(c) \/ CreateTableFails(c) \/ Load(c)
           \/ Migrate(c) \/ Fail(c) \/ LoseDeadlock(c) \/ NothingPending(c)
    PROVE  UNCHANGED <<done, rows, Serving>>
  BY DEF HasTable, CreateTable, CreateTableFails, Load, Migrate, Fail, LoseDeadlock,
         NothingPending, AtMigration, Goto, Serving, IInv, Stopped

(* Containers that race, wait for locks and are killed deploy at once, over *)
(* data that fit and keeping them all (migration:run:prod and              *)
(* migration:revert, package.json:24; Dockerfile:47).                      *)
THEOREM Refinement == Spec => ImplementsDeployment
<1>1. Init => Service!Init
  <2>. SUFFICES ASSUME Init PROVE Service!Init
    OBVIOUS
  <2>1. Serving = {}
    BY DEF Init, Serving, Stopped
  <2>2. rows \subseteq Service!Existing
    BY InitIInv, ExistingTables DEF Init
  <2>. QED
    BY <2>1, <2>2, Eight, NeedsLocked DEF Init, Service!Init, Service!Last, Serving
<1>2. IInv /\ RowsOK /\ UploadsOK /\ [Next]_vars => [Service!Next]_(Service!vars)
  <2>. SUFFICES ASSUME IInv, RowsOK, UploadsOK, [Next]_vars
                PROVE  Service!Next \/ UNCHANGED <<done, rows, Serving>>
    BY DEF Service!vars, Serving
  <2>1. ASSUME NEW c \in Containers, ContainerStep(c)
        PROVE  Service!Next \/ UNCHANGED <<done, rows, Serving>>
    BY <2>1, CommitDeploys, StartServes, OthersStutter DEF ContainerStep, Service!Next
  <2>2. ASSUME NEW c \in Containers, Crash(c) PROVE Service!Next
    BY <2>2, CrashStops DEF Service!Next
  <2>3. CASE Revert
    BY <2>3, RevertUndoes DEF Service!Next
  <2>4. ASSUME NEW u \in Uploads, SaveReceipt(u) \/ UploadEnds(u)
        PROVE  Service!Next \/ UNCHANGED <<done, rows, Serving>>
    <3>1. CASE CommitUpload(u)
      BY <3>1, CommitUploadStores DEF Service!Next
    <3>2. CASE ~CommitUpload(u)
      BY <2>4, <3>2 DEF SaveReceipt, UploadEnds, SaveLines, Insert, UploadFails, Serving
    <3>. QED
      BY <3>1, <3>2
  <2>5. CASE UNCHANGED vars
    BY <2>5 DEF vars, Serving
  <2>. QED
    BY <2>1, <2>2, <2>3, <2>4, <2>5 DEF Next
<1>. QED
  BY <1>1, <1>2, RowsInductive, PTL DEF Spec, ImplementsDeployment, Service!Spec

=============================================================================
