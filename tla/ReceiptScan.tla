----------------------------- MODULE ReceiptScan -----------------------------
(***************************************************************************)
(* ReceiptService.scanAndSave against the bucket, the recognition webhook  *)
(* and the database, interleaved at its awaits, with a process that may    *)
(* die between any two of them, and getReceiptItems reading meanwhile.     *)
(*                                                                         *)
(* A scan is one call of scanAndSave:                                      *)
(*   idle -> uploading -> uploaded -> scanned -> transaction -> receipt    *)
(*        -> lines -> answering -> done                                    *)
(* with "cleanup" between a failure the catch block sees and its answer.   *)
(* Writes of an open transaction are in no variable: until the commit no   *)
(* other connection sees them.                                             *)
(***************************************************************************)
CONSTANTS
    Scans,      \* calls of scanAndSave; a retry is another call
    Lines,      \* lines the webhook may recognise on a receipt
    Users,
    Readers,    \* calls of getReceiptItems in flight
    None        \* no owner yet

ASSUME NoneAssumption == None \notin Users

VARIABLES
    phase,      \* where a scan is
    outcome,    \* the status it answers; "none" until it is known
    owner,      \* the user it uploads for
    lines,      \* what the webhook recognised
    objects,    \* keys in the bucket
    receipts,   \* committed rows of receipt, named by their scan
    items,      \* committed rows of receipt_item
    s3Fault,    \* history: scans for which the bucket reported an error
    reader      \* calls of getReceiptItems

vars == <<phase, outcome, owner, lines, objects, receipts, items, s3Fault, reader>>

store == <<objects, receipts, items>>

Phases == {"idle", "uploading", "uploaded", "scanned", "transaction", "receipt",
           "lines", "cleanup", "answering", "done"}
Reported == {"badRequest", "internalError"}
Outcomes == {"none", "created", "unhandled", "lost"} \cup Reported

InFlight(r) == phase[r] \notin {"idle", "done"}

(* makeKey: the user's folder, and a fresh UUID per call.                  *)
MakeKey(r) == <<owner[r], r>>

ReaderIdle == [at |-> "idle", user |-> None, scan |-> None, seen |-> {}]

Init ==
    /\ phase = [r \in Scans |-> "idle"]
    /\ outcome = [r \in Scans |-> "none"]
    /\ owner = [r \in Scans |-> None]
    /\ lines = [r \in Scans |-> {}]
    /\ objects = {} /\ receipts = {} /\ items = {} /\ s3Fault = {}
    /\ reader = [q \in Readers |-> ReaderIdle]

-----------------------------------------------------------------------------
(* Control of one scan *)

Goto(r, to) ==
    /\ phase' = [phase EXCEPT ![r] = to]
    /\ UNCHANGED outcome

(* An answer is ready; the response still has to reach the caller.         *)
AnswerWith(r, o) ==
    /\ phase' = [phase EXCEPT ![r] = "answering"]
    /\ outcome' = [outcome EXCEPT ![r] = o]

(* The catch block with s3Key set, on its way to re-throwing o.            *)
CatchWith(r, o) ==
    /\ phase' = [phase EXCEPT ![r] = "cleanup"]
    /\ outcome' = [outcome EXCEPT ![r] = o]

Start(r, u) ==
    /\ phase[r] = "idle"
    /\ Goto(r, "uploading")
    /\ owner' = [owner EXCEPT ![r] = u]
    /\ UNCHANGED <<lines, store, s3Fault, reader>>

(* validateImage refuses the file, or there is no file to look at: s3Key   *)
(* is not set, nothing to clean.                                              *)
RejectImage(r) ==
    /\ phase[r] = "uploading"
    /\ \E o \in Reported : AnswerWith(r, o)
    /\ UNCHANGED <<owner, lines, store, s3Fault, reader>>

Upload(r) ==
    /\ phase[r] = "uploading"
    /\ objects' = objects \cup {MakeKey(r)}
    /\ Goto(r, "uploaded")
    /\ UNCHANGED <<owner, lines, receipts, items, s3Fault, reader>>

(* The PutObject throws, before or after the bucket stored the object; in  *)
(* both cases s3Key stays undefined and the catch block cleans nothing.    *)
UploadFails(r) ==
    /\ phase[r] = "uploading"
    /\ objects' \in {objects, objects \cup {MakeKey(r)}}
    /\ s3Fault' = s3Fault \cup {r}
    /\ AnswerWith(r, "internalError")
    /\ UNCHANGED <<owner, lines, receipts, items, reader>>

(* The webhook answers with some lines.                                    *)
Scan(r, L) ==
    /\ phase[r] = "uploaded"
    /\ lines' = [lines EXCEPT ![r] = L]
    /\ Goto(r, "scanned")
    /\ UNCHANGED <<owner, store, s3Fault, reader>>

(* A client of the webhook without the timeout of 30 seconds: an answer    *)
(* that never comes is waited for.                                         *)
ScanNeverFails(r) == FALSE /\ UNCHANGED vars

(* The webhook answers with an error, or not within 30 seconds.            *)
ScanFails(r) ==
    /\ phase[r] = "uploaded"
    /\ CatchWith(r, "internalError")
    /\ UNCHANGED <<owner, lines, store, s3Fault, reader>>

(* validateOrReject accepts; the transaction promise is returned at once.  *)
Validate(r) ==
    /\ phase[r] = "scanned"
    /\ Goto(r, "transaction")
    /\ UNCHANGED <<owner, lines, store, s3Fault, reader>>

(* Validation placed where its error leaves scanAndSave directly.          *)
ValidateFailsNoCleanup(r) ==
    /\ phase[r] = "scanned"
    /\ AnswerWith(r, "badRequest")
    /\ UNCHANGED <<owner, lines, store, s3Fault, reader>>

ValidateFails(r) ==
    /\ phase[r] = "scanned"
    /\ CatchWith(r, "badRequest")
    /\ UNCHANGED <<owner, lines, store, s3Fault, reader>>

(* cleanupS3: DeleteObject, whose error is logged and dropped.             *)
Cleanup(r) ==
    /\ phase[r] = "cleanup"
    /\ objects' = objects \ {MakeKey(r)}
    /\ Goto(r, "answering")
    /\ UNCHANGED <<owner, lines, receipts, items, s3Fault, reader>>

CleanupFails(r) ==
    /\ phase[r] = "cleanup"
    /\ s3Fault' = s3Fault \cup {r}
    /\ Goto(r, "answering")
    /\ UNCHANGED <<owner, lines, store, reader>>

(* The receipt saved through the repository of the service, not through    *)
(* the manager of the transaction.                                         *)
SaveReceiptOutside(r) ==
    /\ phase[r] = "transaction"
    /\ receipts' = receipts \cup {r}
    /\ Goto(r, "receipt")
    /\ UNCHANGED <<owner, lines, objects, items, s3Fault, reader>>

(* manager.save(receipt), inside the transaction.                          *)
SaveReceipt(r) ==
    /\ phase[r] = "transaction"
    /\ Goto(r, "receipt")
    /\ UNCHANGED <<owner, lines, store, s3Fault, reader>>

SaveLines(r) ==
    /\ phase[r] = "receipt"
    /\ Goto(r, "lines")
    /\ UNCHANGED <<owner, lines, store, s3Fault, reader>>

CommitRows(r) ==
    /\ receipts' = receipts \cup {r}
    /\ items' = items \cup {<<r, l>> : l \in lines[r]}

Commit(r) ==
    /\ phase[r] = "lines"
    /\ CommitRows(r)
    /\ AnswerWith(r, "created")
    /\ UNCHANGED <<owner, lines, objects, s3Fault, reader>>

(* A statement fails (a constraint, a value a column cannot hold, a lost   *)
(* connection) and the transaction rolls back.  The promise was returned,  *)
(* not awaited: the catch block of scanAndSave is not involved.            *)
TransactionFails(r) ==
    /\ phase[r] \in {"transaction", "receipt", "lines"}
    /\ AnswerWith(r, "unhandled")
    /\ UNCHANGED <<owner, lines, store, s3Fault, reader>>

(* return await: the catch block deletes the object of a transaction that  *)
(* was committed all the same.                                             *)
CommitUnknownAwaited(r) ==
    /\ phase[r] = "lines"
    /\ CommitRows(r)
    /\ CatchWith(r, "internalError")
    /\ UNCHANGED <<owner, lines, objects, s3Fault, reader>>

(* The database commits and the connection breaks before it says so.       *)
CommitUnknown(r) ==
    /\ phase[r] = "lines"
    /\ CommitRows(r)
    /\ AnswerWith(r, "unhandled")
    /\ UNCHANGED <<owner, lines, objects, s3Fault, reader>>

Reply(r) ==
    /\ phase[r] = "answering"
    /\ Goto(r, "done")
    /\ UNCHANGED <<owner, lines, store, s3Fault, reader>>

(* The caller is gone, or the connection to it breaks.                     *)
ReplyLost(r) ==
    /\ phase[r] = "answering"
    /\ phase' = [phase EXCEPT ![r] = "done"]
    /\ outcome' = [outcome EXCEPT ![r] = "lost"]
    /\ UNCHANGED <<owner, lines, store, s3Fault, reader>>

(* The process dies: every call in flight ends where it stands, the        *)
(* database rolls back what was not committed, the bucket keeps its keys.  *)
Crash ==
    /\ \E r \in Scans : InFlight(r)
    /\ phase' = [r \in Scans |-> IF InFlight(r) THEN "done" ELSE phase[r]]
    /\ outcome' = [r \in Scans |-> IF InFlight(r) THEN "lost" ELSE outcome[r]]
    /\ reader' = [q \in Readers |-> ReaderIdle]
    /\ UNCHANGED <<owner, lines, store, s3Fault>>

-----------------------------------------------------------------------------
(* getReceiptItems: two statements on the pool, in no transaction *)

FindReceipt(q, u, r) ==
    /\ reader[q].at # "found"
    /\ r \in receipts /\ owner[r] = u
    /\ reader' = [reader EXCEPT ![q] =
                     [at |-> "found", user |-> u, scan |-> r, seen |-> {}]]
    /\ UNCHANGED <<phase, outcome, owner, lines, store, s3Fault>>

(* 404, for a receipt that is not there and for one of another user.       *)
ReceiptNotFound(q, u, r) ==
    /\ reader[q].at # "found"
    /\ ~(r \in receipts /\ owner[r] = u)
    /\ reader' = [reader EXCEPT ![q] =
                     [at |-> "notFound", user |-> u, scan |-> r, seen |-> {}]]
    /\ UNCHANGED <<phase, outcome, owner, lines, store, s3Fault>>

FindByReceiptId(q) ==
    /\ reader[q].at = "found"
    /\ reader' = [reader EXCEPT ![q].at = "listed",
                                ![q].seen = {l \in Lines : <<reader[q].scan, l>> \in items}]
    /\ UNCHANGED <<phase, outcome, owner, lines, store, s3Fault>>

-----------------------------------------------------------------------------

(* Steps the service takes by itself, each on an await that settles: the   *)
(* webhook call settles because of its timeout, with an answer or without. *)
ServiceStep(r) ==
    \/ RejectImage(r) \/ Upload(r) \/ UploadFails(r)
    \/ ScanFails(r)
    \/ Validate(r) \/ ValidateFails(r) \/ Cleanup(r) \/ CleanupFails(r)
    \/ SaveReceipt(r) \/ SaveLines(r) \/ Commit(r)
    \/ TransactionFails(r) \/ CommitUnknown(r)
    \/ Reply(r) \/ ReplyLost(r)

ScanStep ==
    \E r \in Scans : \/ \E u \in Users : Start(r, u)
                     \/ \E L \in SUBSET Lines : Scan(r, L)
                     \/ ServiceStep(r)

ReaderStep ==
    \E q \in Readers :
        \/ \E u \in Users, r \in Scans : FindReceipt(q, u, r) \/ ReceiptNotFound(q, u, r)
        \/ FindByReceiptId(q)

Next == ScanStep \/ ReaderStep \/ Crash

Spec == Init /\ [][Next]_vars

FairSpec == Spec /\ \A r \in Scans : WF_vars(ServiceStep(r))

-----------------------------------------------------------------------------
(* Properties *)

Keys == Users \X Scans

ReaderRecord ==
    [at: {"idle", "found", "listed", "notFound"}, user: Users \cup {None},
     scan: Scans \cup {None}, seen: SUBSET Lines]

TypeOK ==
    /\ phase \in [Scans -> Phases]
    /\ outcome \in [Scans -> Outcomes]
    /\ owner \in [Scans -> Users \cup {None}]
    /\ lines \in [Scans -> SUBSET Lines]
    /\ objects \subseteq Keys
    /\ receipts \subseteq Scans
    /\ items \subseteq Scans \X Lines
    /\ s3Fault \subseteq Scans
    /\ reader \in [Readers -> ReaderRecord]

(* Every receipt in the database has its picture in the bucket, whatever   *)
(* fails, in whatever order, and wherever the process dies: no cleanup     *)
(* ever removes the object of a committed receipt                          *)
(* (receipt.service.ts:125 and :161).                                      *)
NoDanglingKey == \A r \in receipts : MakeKey(r) \in objects

(* A reader is given the lines of a receipt of its own user, and all of    *)
(* them: never a receipt half saved, though it reads in two statements     *)
(* (receipt.service.ts:57 against the transaction at :125).                *)
ReaderSeesWholeReceipt ==
    \A q \in Readers : reader[q].at = "listed" =>
        /\ owner[reader[q].scan] = reader[q].user
        /\ reader[q].seen = lines[reader[q].scan]

(* An error that scanAndSave reports itself leaves no receipt behind, and  *)
(* no object either unless the bucket failed too                           *)
(* (the catch block, receipt.service.ts:157).                              *)
ReportedErrorLeavesNothing ==
    \A r \in Scans : phase[r] = "done" /\ outcome[r] \in Reported =>
        /\ r \notin receipts
        /\ MakeKey(r) \in objects => r \in s3Fault

(* Every upload is answered, or its caller is gone: the webhook cannot     *)
(* hold a call for ever (timeout at receipt.service.ts:85).                *)
EveryScanEnds == \A r \in Scans : InFlight(r) ~> phase[r] = "done"

(* receipt.service.ts:160 "Rollback: Clean up S3 if we uploaded but failed *)
(* later": a call that failed after its upload, with the bucket working,   *)
(* leaves no object without a receipt.  The code does not do this: the     *)
(* transaction is returned without await, outside the try.                 *)
FailureLeavesNoObject ==
    \A r \in Scans :
        /\ phase[r] = "done" /\ outcome[r] \in Reported \cup {"unhandled"}
        /\ r \notin receipts /\ r \notin s3Fault
        => MakeKey(r) \notin objects

-----------------------------------------------------------------------------
(* Refinement: what was committed is recorded, what reached the caller is  *)
(* the answer.                                                             *)
Ledger == INSTANCE ReceiptLedger WITH
    recorded <- receipts,
    answer   <- [r \in Scans |-> IF phase[r] = "done" THEN outcome[r] ELSE "none"]

(* A receipt is recorded at most once and only while its caller waits, and *)
(* the status the caller gets tells the truth about it                     *)
(* (scanAndSave, receipt.service.ts:100).                                  *)
ImplementsReceiptLedger == Ledger!Spec

=============================================================================
