-------------------------- MODULE ReceiptScanProofs --------------------------
(***************************************************************************)
(* Proofs about ReceiptScan for any number of scans, lines, users and      *)
(* readers.                                                                *)
(***************************************************************************)
EXTENDS ReceiptScan, Naturals, TLAPS

HoldsObject == {"uploaded", "scanned", "transaction", "receipt", "lines"}

(* The rows of a scan and the key they name.                               *)
RowsOK(r) ==
    /\ phase[r] # "idle" => owner[r] \in Users
    /\ \A u \in Users : <<u, r>> \in objects =>
           owner[r] = u /\ phase[r] \notin {"idle", "uploading"}
    /\ phase[r] \in HoldsObject \/ r \in receipts => MakeKey(r) \in objects
    /\ r \in receipts => phase[r] \in {"answering", "done"}
    /\ \A l \in Lines : <<r, l>> \in items <=> r \in receipts /\ l \in lines[r]

(* What a scan is about to tell its caller, or has told it.                *)
AnswerOK(r) ==
    /\ phase[r] = "cleanup" => outcome[r] \in Reported
    /\ phase[r] = "answering" => outcome[r] \in {"created", "unhandled"} \cup Reported
    /\ phase[r] = "answering" /\ outcome[r] = "created" => r \in receipts
    /\ r \in receipts => outcome[r] \notin Reported
    /\ phase[r] \in {"answering", "done"} /\ outcome[r] \in Reported
       /\ MakeKey(r) \in objects => r \in s3Fault

ReaderOK(q) ==
    reader[q].at \in {"found", "listed"} =>
        /\ reader[q].scan \in receipts
        /\ owner[reader[q].scan] = reader[q].user
        /\ reader[q].at = "listed" => reader[q].seen = lines[reader[q].scan]

(* The inductive invariant: a scan owns its key and its rows alone, keeps  *)
(* the object from its upload until its receipt is committed, and commits  *)
(* receipt and lines together.                                             *)
IInv ==
    /\ TypeOK
    /\ \A r \in Scans : RowsOK(r) /\ AnswerOK(r)
    /\ \A q \in Readers : ReaderOK(q)

USE NoneAssumption

LEMMA InitIInv == Init => IInv
  BY DEF Init, IInv, TypeOK, RowsOK, AnswerOK, ReaderOK, ReaderIdle, ReaderRecord,
         Phases, Outcomes, Reported, HoldsObject

(* What a step of scan r leaves alone: everything of the other scans.      *)
OthersUntouched(r) ==
    \A q \in Scans \ {r} :
        /\ phase'[q] = phase[q] /\ outcome'[q] = outcome[q]
        /\ owner'[q] = owner[q] /\ lines'[q] = lines[q]
        /\ q \in receipts' <=> q \in receipts
        /\ q \in s3Fault' <=> q \in s3Fault
        /\ \A u \in Users : <<u, q>> \in objects' <=> <<u, q>> \in objects
        /\ \A l \in Lines : <<q, l>> \in items' <=> <<q, l>> \in items

(* A step of one scan that leaves the others alone and keeps its own rows  *)
(* and answer in order keeps the invariant: readers look at committed      *)
(* receipts only, which no step of a scan alters.                          *)
LEMMA OneScanPreserves ==
    ASSUME IInv, NEW r \in Scans, TypeOK', OthersUntouched(r), reader' = reader,
           RowsOK(r)', AnswerOK(r)',
           r \in receipts => r \in receipts' /\ owner'[r] = owner[r] /\ lines'[r] = lines[r]
    PROVE  IInv'
<1>1. ASSUME NEW q \in Scans \ {r} PROVE RowsOK(q)' /\ AnswerOK(q)'
  <2>1. RowsOK(q) /\ AnswerOK(q) /\ q \in Scans
    BY DEF IInv
  <2>2. \A k \in Users \X Scans : k[2] = q => (k \in objects' <=> k \in objects)
    BY DEF OthersUntouched
  <2>3. MakeKey(q)' = MakeKey(q)
    BY DEF MakeKey, OthersUntouched
  <2>4. owner[q] \in Users => (MakeKey(q)' \in objects' <=> MakeKey(q) \in objects)
    BY <2>3 DEF MakeKey, OthersUntouched
  <2>5. MakeKey(q) \in objects => owner[q] \in Users
    BY DEF MakeKey, IInv, TypeOK, Keys
  <2>6. MakeKey(q)' \in objects' => owner[q] \in Users
    BY <2>3 DEF MakeKey, TypeOK, Keys
  <2>7. MakeKey(q)' \in objects' <=> MakeKey(q) \in objects
    BY <2>4, <2>5, <2>6
  <2>8. RowsOK(q)'
    BY <2>1, <2>7 DEF RowsOK, OthersUntouched
  <2>9. AnswerOK(q)'
    BY <2>1, <2>7 DEF AnswerOK, OthersUntouched
  <2>. QED
    BY <2>8, <2>9
<1>2. ASSUME NEW q \in Readers PROVE ReaderOK(q)'
  <2>1. ReaderOK(q)
    BY DEF IInv
  <2>2. \A s \in receipts : s \in receipts' /\ owner'[s] = owner[s] /\ lines'[s] = lines[s]
    BY DEF OthersUntouched, IInv, TypeOK
  <2>. QED
    BY <2>1, <2>2 DEF ReaderOK
<1>. QED
  BY <1>1, <1>2 DEF IInv

(* Steps of a scan that touch neither the bucket nor the database.         *)
LEMMA ControlPreserves ==
    ASSUME IInv, NEW r \in Scans,
           \/ RejectImage(r) \/ ScanFails(r) \/ Validate(r) \/ ValidateFails(r)
           \/ SaveReceipt(r) \/ SaveLines(r) \/ TransactionFails(r)
           \/ Reply(r) \/ ReplyLost(r)
    PROVE  IInv'
<1>1. TypeOK'
  BY DEF IInv, TypeOK, RejectImage, ScanFails, Validate, ValidateFails, SaveReceipt,
         SaveLines, TransactionFails, Reply, ReplyLost, Goto, AnswerWith, CatchWith,
         store, Phases, Outcomes, Reported
<1>2. /\ UNCHANGED <<owner, lines, objects, receipts, items, s3Fault, reader>>
      /\ OthersUntouched(r)
  BY DEF IInv, TypeOK, RejectImage, ScanFails, Validate, ValidateFails, SaveReceipt,
         SaveLines, TransactionFails, Reply, ReplyLost, Goto, AnswerWith, CatchWith,
         store, OthersUntouched
<1>3. RowsOK(r) /\ AnswerOK(r) /\ phase \in [Scans -> Phases] /\ outcome \in [Scans -> Outcomes]
  BY DEF IInv, TypeOK
<1>4. RowsOK(r)'
  BY <1>2, <1>3 DEF RowsOK, MakeKey, RejectImage, ScanFails, Validate, ValidateFails,
         SaveReceipt, SaveLines, TransactionFails, Reply, ReplyLost, Goto, AnswerWith,
         CatchWith, HoldsObject
<1>5. AnswerOK(r)'
  <2>1. phase[r] = "uploading" => MakeKey(r) \notin objects
    BY <1>3 DEF RowsOK, MakeKey
  <2>. QED
    BY <1>2, <1>3, <2>1 DEF RowsOK, AnswerOK, MakeKey, RejectImage, ScanFails, Validate,
         ValidateFails, SaveReceipt, SaveLines, TransactionFails, Reply, ReplyLost,
         Goto, AnswerWith, CatchWith, Reported
<1>. QED
  BY <1>1, <1>2, <1>4, <1>5, OneScanPreserves

LEMMA StartPreserves ==
    ASSUME IInv, NEW r \in Scans, NEW u \in Users, Start(r, u)
    PROVE  IInv'
<1>1. TypeOK' /\ OthersUntouched(r) /\ reader' = reader
  BY DEF IInv, TypeOK, Start, Goto, store, Phases, OthersUntouched
<1>2. RowsOK(r) /\ AnswerOK(r)
  BY DEF IInv
<1>3. r \notin receipts /\ \A v \in Users : <<v, r>> \notin objects
  BY <1>2 DEF RowsOK, Start
<1>4. RowsOK(r)' /\ AnswerOK(r)'
  BY <1>2, <1>3 DEF IInv, TypeOK, RowsOK, AnswerOK, Start, Goto, store, HoldsObject
<1>. QED
  BY <1>1, <1>3, <1>4, OneScanPreserves

LEMMA ScanPreserves ==
    ASSUME IInv, NEW r \in Scans, NEW L \in SUBSET Lines, Scan(r, L)
    PROVE  IInv'
<1>1. TypeOK' /\ OthersUntouched(r) /\ reader' = reader
  BY DEF IInv, TypeOK, Scan, Goto, store, Phases, OthersUntouched
<1>2. RowsOK(r) /\ AnswerOK(r)
  BY DEF IInv
<1>3. r \notin receipts
  BY <1>2 DEF RowsOK, Scan
<1>4. RowsOK(r)' /\ AnswerOK(r)'
  BY <1>2, <1>3 DEF IInv, TypeOK, RowsOK, AnswerOK, MakeKey, Scan, Goto, store, HoldsObject
<1>. QED
  BY <1>1, <1>3, <1>4, OneScanPreserves

(* Steps that add or remove the object of r: the key names r, so no other  *)
(* scan's object is meant.                                                 *)
LEMMA BucketPreserves ==
    ASSUME IInv, NEW r \in Scans,
           Upload(r) \/ UploadFails(r) \/ Cleanup(r) \/ CleanupFails(r)
    PROVE  IInv'
<1>1. RowsOK(r) /\ AnswerOK(r) /\ owner[r] \in Users
  BY DEF IInv, RowsOK, Upload, UploadFails, Cleanup, CleanupFails
<1>2. MakeKey(r) \in Keys
  BY <1>1 DEF MakeKey, Keys
<1>3. TypeOK'
  BY <1>2 DEF IInv, TypeOK, Upload, UploadFails, Cleanup, CleanupFails, Goto, AnswerWith,
         store, Phases, Outcomes, Reported
<1>4. /\ UNCHANGED <<owner, lines, receipts, items, reader>>
      /\ objects' \in {objects, objects \cup {MakeKey(r)}, objects \ {MakeKey(r)}}
      /\ s3Fault' \in {s3Fault, s3Fault \cup {r}}
      /\ \A q \in Scans \ {r} : phase'[q] = phase[q] /\ outcome'[q] = outcome[q]
  BY DEF IInv, TypeOK, Upload, UploadFails, Cleanup, CleanupFails, Goto, AnswerWith, store
<1>5. \A q \in Scans \ {r}, u \in Users : <<u, q>> \in objects' <=> <<u, q>> \in objects
  BY <1>4 DEF MakeKey
<1>6. OthersUntouched(r)
  BY <1>4, <1>5 DEF OthersUntouched
<1>7. RowsOK(r)'
  BY <1>1, <1>4 DEF IInv, TypeOK, RowsOK, MakeKey, Upload, UploadFails, Cleanup,
         CleanupFails, Goto, AnswerWith, store, HoldsObject
<1>8. AnswerOK(r)'
  BY <1>1, <1>4 DEF IInv, TypeOK, RowsOK, AnswerOK, MakeKey, Upload, UploadFails, Cleanup,
         CleanupFails, Goto, AnswerWith, store, Reported
<1>. QED
  BY <1>3, <1>4, <1>6, <1>7, <1>8, OneScanPreserves

(* The commit makes the receipt and its lines visible in one step.         *)
LEMMA CommitPreserves ==
    ASSUME IInv, NEW r \in Scans, Commit(r) \/ CommitUnknown(r)
    PROVE  IInv'
<1>1. RowsOK(r) /\ AnswerOK(r) /\ lines[r] \subseteq Lines
  BY DEF IInv, TypeOK
<1>2. /\ UNCHANGED <<owner, lines, objects, s3Fault, reader>>
      /\ phase[r] = "lines" /\ phase' = [phase EXCEPT ![r] = "answering"]
      /\ outcome' \in {[outcome EXCEPT ![r] = "created"], [outcome EXCEPT ![r] = "unhandled"]}
      /\ receipts' = receipts \cup {r}
      /\ items' = items \cup {<<r, l>> : l \in lines[r]}
  BY DEF Commit, CommitUnknown, CommitRows, AnswerWith
<1>3. TypeOK'
  BY <1>1, <1>2 DEF IInv, TypeOK, Phases, Outcomes, Reported
<1>4. OthersUntouched(r)
  BY <1>2 DEF IInv, TypeOK, OthersUntouched
<1>5. RowsOK(r)'
  BY <1>1, <1>2 DEF IInv, TypeOK, RowsOK, MakeKey, HoldsObject
<1>6. AnswerOK(r)'
  BY <1>1, <1>2 DEF IInv, TypeOK, AnswerOK, Reported
<1>. QED
  BY <1>2, <1>3, <1>4, <1>5, <1>6, OneScanPreserves

LEMMA CrashPreserves ==
    ASSUME IInv, Crash
    PROVE  IInv'
<1>1. TypeOK'
  BY DEF IInv, TypeOK, Crash, store, ReaderIdle, ReaderRecord, Phases, Outcomes, Reported
<1>2. ASSUME NEW r \in Scans PROVE RowsOK(r)' /\ AnswerOK(r)'
  <2>1. RowsOK(r) /\ AnswerOK(r)
    BY DEF IInv
  <2>2. /\ phase'[r] = IF InFlight(r) THEN "done" ELSE phase[r]
        /\ outcome'[r] = IF InFlight(r) THEN "lost" ELSE outcome[r]
        /\ UNCHANGED <<owner, lines, objects, receipts, items, s3Fault>>
    BY DEF Crash, store
  <2>. QED
    BY <2>1, <2>2 DEF RowsOK, AnswerOK, MakeKey, InFlight, HoldsObject, Reported
<1>3. \A q \in Readers : ReaderOK(q)'
  BY DEF Crash, ReaderOK, ReaderIdle
<1>. QED
  BY <1>1, <1>2, <1>3 DEF IInv

(* A reader keeps what it found because receipts are never removed, and    *)
(* lists all lines because they were committed with the receipt.           *)
LEMMA ReaderPreserves ==
    ASSUME IInv, NEW q \in Readers,
           \/ \E u \in Users, r \in Scans : FindReceipt(q, u, r) \/ ReceiptNotFound(q, u, r)
           \/ FindByReceiptId(q)
    PROVE  IInv'
<1>1. UNCHANGED <<phase, outcome, owner, lines, objects, receipts, items, s3Fault>>
  BY DEF FindReceipt, ReceiptNotFound, FindByReceiptId, store
<1>2. \A r \in Scans : RowsOK(r)' /\ AnswerOK(r)'
  BY <1>1 DEF IInv, RowsOK, AnswerOK, MakeKey
<1>3. ASSUME NEW u \in Users, NEW r \in Scans,
             FindReceipt(q, u, r) \/ ReceiptNotFound(q, u, r)
      PROVE  reader' \in [Readers -> ReaderRecord] /\ \A p \in Readers : ReaderOK(p)'
  <2> DEFINE rec(a) == [at |-> a, user |-> u, scan |-> r, seen |-> {}]
  <2>1. rec("found") \in ReaderRecord /\ rec("notFound") \in ReaderRecord
    BY DEF ReaderRecord
  <2>2. CASE FindReceipt(q, u, r)
    BY <1>1, <2>1, <2>2 DEF FindReceipt, IInv, TypeOK, ReaderOK
  <2>3. CASE ReceiptNotFound(q, u, r)
    BY <1>1, <2>1, <2>3 DEF ReceiptNotFound, IInv, TypeOK, ReaderOK
  <2>. QED
    BY <1>3, <2>2, <2>3
<1>4. CASE FindByReceiptId(q)
  <2> DEFINE lst == {l \in Lines : <<reader[q].scan, l>> \in items}
             rec == [reader[q] EXCEPT !.at = "listed", !.seen = lst]
  <2>1. reader[q] \in ReaderRecord /\ reader[q].at = "found" /\ ReaderOK(q)
    BY <1>4 DEF IInv, TypeOK, FindByReceiptId
  <2>2. lst = lines[reader[q].scan]
    BY <2>1 DEF IInv, TypeOK, ReaderOK, RowsOK
  <2>3. reader' = [reader EXCEPT ![q] = rec]
    BY <1>4, <2>1 DEF FindByReceiptId, IInv, TypeOK, ReaderRecord
  <2>4. /\ rec \in ReaderRecord /\ rec.at = "listed" /\ rec.seen = lst
        /\ rec.scan = reader[q].scan /\ rec.user = reader[q].user
    BY <2>1 DEF ReaderRecord
  <2> HIDE DEF rec, lst
  <2>5. reader' \in [Readers -> ReaderRecord]
    BY <2>3, <2>4 DEF IInv, TypeOK
  <2>6. \A p \in Readers : ReaderOK(p)'
    BY <1>1, <2>1, <2>2, <2>3, <2>4 DEF IInv, TypeOK, ReaderOK
  <2>. QED
    BY <1>1, <1>2, <2>5, <2>6 DEF IInv, TypeOK
<1>. QED
  BY <1>1, <1>2, <1>3, <1>4 DEF IInv, TypeOK

LEMMA NextIInv == IInv /\ [Next]_vars => IInv'
<1>. SUFFICES ASSUME IInv, [Next]_vars PROVE IInv'
  OBVIOUS
<1>1. ASSUME NEW r \in Scans, ServiceStep(r) PROVE IInv'
  BY <1>1, ControlPreserves, BucketPreserves, CommitPreserves DEF ServiceStep
<1>2. ASSUME NEW r \in Scans, NEW u \in Users, Start(r, u) PROVE IInv'
  BY <1>2, StartPreserves
<1>3. ASSUME NEW r \in Scans, NEW L \in SUBSET Lines, Scan(r, L) PROVE IInv'
  BY <1>3, ScanPreserves
<1>4. CASE \E q \in Readers :
              \/ \E u \in Users, r \in Scans : FindReceipt(q, u, r) \/ ReceiptNotFound(q, u, r)
              \/ FindByReceiptId(q)
  BY <1>4, ReaderPreserves
<1>5. CASE Crash
  BY <1>5, CrashPreserves
<1>6. CASE UNCHANGED vars
  BY <1>6 DEF IInv, TypeOK, RowsOK, AnswerOK, ReaderOK, MakeKey, vars
<1>. QED
  BY <1>1, <1>2, <1>3, <1>4, <1>5, <1>6 DEF Next, ScanStep, ReaderStep

LEMMA Inductive == Spec => []IInv
  BY InitIInv, NextIInv, PTL DEF Spec

(* Type correctness, for every instance.                                   *)
THEOREM TypeCorrect == Spec => []TypeOK
<1>1. IInv => TypeOK
  BY DEF IInv
<1>. QED
  BY <1>1, Inductive, PTL

(* For any number of uploads: no receipt ever loses its picture.           *)
THEOREM PictureKept == Spec => []NoDanglingKey
<1>1. IInv => NoDanglingKey
  BY DEF IInv, TypeOK, RowsOK, NoDanglingKey
<1>. QED
  BY <1>1, Inductive, PTL

(* For any number of uploads and readers: no reader sees part of a         *)
(* receipt, or a receipt of another user.                                  *)
THEOREM ReadersSeeWhole == Spec => []ReaderSeesWholeReceipt
<1>1. IInv => ReaderSeesWholeReceipt
  BY DEF IInv, ReaderOK, ReaderSeesWholeReceipt
<1>. QED
  BY <1>1, Inductive, PTL

(* For any number of uploads: an error that scanAndSave reports means no   *)
(* receipt, and no object unless the bucket failed.                        *)
THEOREM ReportedErrorsClean == Spec => []ReportedErrorLeavesNothing
<1>1. IInv => ReportedErrorLeavesNothing
  BY DEF IInv, AnswerOK, ReportedErrorLeavesNothing
<1>. QED
  BY <1>1, Inductive, PTL

(* How many steps an upload has before it at most.                         *)
StepsLeft == [idle |-> 9, uploading |-> 8, uploaded |-> 7, scanned |-> 6, transaction |-> 5,
              receipt |-> 4, lines |-> 3, cleanup |-> 2, answering |-> 1, done |-> 0]

Advances(r) ==
    phase'[r] = phase[r] \/ StepsLeft[phase'[r]] < StepsLeft[phase[r]]

(* It is enough to look at the scan that moves.                            *)
LEMMA MoveAdvances ==
    ASSUME TypeOK, NEW r \in Scans, NEW to, phase' = [phase EXCEPT ![r] = to],
           StepsLeft[to] < StepsLeft[phase[r]]
    PROVE  \A s \in Scans : Advances(s)
  BY DEF TypeOK, Advances

(* An upload never goes back: whatever fails, it is over after nine steps  *)
(* of its own, and no step of another caller moves it; nothing in          *)
(* scanAndSave is tried twice (receipt.service.ts:100).  EveryScanEnds     *)
(* adds that the steps are taken.                                          *)
THEOREM ScansOnlyAdvance == Spec => [][\A r \in Scans : Advances(r)]_vars
<1>1. IInv /\ [Next]_vars => [\A r \in Scans : Advances(r)]_vars
  <2>. SUFFICES ASSUME IInv, Next PROVE \A r \in Scans : Advances(r)
    OBVIOUS
  <2>0. TypeOK
    BY DEF IInv
  <2>1. ASSUME NEW r \in Scans,
               \/ \E u \in Users : Start(r, u)
               \/ \E L \in SUBSET Lines : Scan(r, L)
               \/ ServiceStep(r)
        PROVE  \E to \in Phases : /\ phase' = [phase EXCEPT ![r] = to]
                                  /\ StepsLeft[to] < StepsLeft[phase[r]]
    BY <2>1 DEF ServiceStep, Start, Scan, RejectImage, Upload, UploadFails, ScanFails,
       Validate, ValidateFails, Cleanup, CleanupFails, SaveReceipt, SaveLines, Commit,
       TransactionFails, CommitUnknown, Reply, ReplyLost, Goto, AnswerWith, CatchWith,
       Phases, StepsLeft
  <2>2. CASE ScanStep
    BY <2>0, <2>1, <2>2, MoveAdvances DEF ScanStep
  <2>3. CASE ReaderStep
    BY <2>3 DEF ReaderStep, FindReceipt, ReceiptNotFound, FindByReceiptId, Advances
  <2>4. CASE Crash
    <3>. SUFFICES ASSUME NEW r \in Scans, InFlight(r)
                  PROVE  StepsLeft["done"] < StepsLeft[phase[r]]
      BY <2>0, <2>4 DEF Crash, Advances, TypeOK
    <3>. QED
      BY <2>0 DEF InFlight, TypeOK, Phases, StepsLeft
  <2>. QED
    BY <2>2, <2>3, <2>4 DEF Next
<1>. QED
  BY <1>1, Inductive, PTL DEF Spec

-----------------------------------------------------------------------------
(* Refinement of ReceiptLedger.                                            *)

answerBar == [r \in Scans |-> IF phase[r] = "done" THEN outcome[r] ELSE "none"]

(* The status a caller gets is the truth about its receipt, and a receipt  *)
(* is recorded once, while its caller waits, for every instance.           *)
THEOREM Refinement == Spec => ImplementsReceiptLedger
<1>1. Init => Ledger!Init
  BY DEF Init, Ledger!Init
<1>2. IInv /\ [Next]_vars => [Ledger!Next]_<<receipts, answerBar>>
  <2>. SUFFICES ASSUME IInv, [Next]_vars
                PROVE  Ledger!Next \/ UNCHANGED <<receipts, answerBar>>
    OBVIOUS
  <2>1. ASSUME NEW r \in Scans, Reply(r)
        PROVE  Ledger!Answer(r, outcome[r]) /\ outcome[r] \in Ledger!Answers
    <3>1. /\ phase[r] = "answering" /\ phase' = [phase EXCEPT ![r] = "done"]
          /\ outcome' = outcome /\ receipts' = receipts
      BY <2>1 DEF Reply, Goto, store
    <3>2. AnswerOK(r) /\ phase \in [Scans -> Phases]
      BY DEF IInv, TypeOK
    <3>3. answerBar[r] = "none" /\ answerBar' = [answerBar EXCEPT ![r] = outcome[r]]
      BY <3>1, <3>2 DEF answerBar
    <3>. QED
      BY <3>1, <3>2, <3>3
         DEF AnswerOK, Ledger!Answer, Ledger!Answers, Ledger!Reported, Reported, answerBar
  <2>2. ASSUME NEW r \in Scans, ReplyLost(r)
        PROVE  Ledger!Answer(r, "lost")
    <3>1. /\ phase[r] = "answering" /\ phase' = [phase EXCEPT ![r] = "done"]
          /\ outcome' = [outcome EXCEPT ![r] = "lost"] /\ receipts' = receipts
      BY <2>2 DEF ReplyLost, store
    <3>2. answerBar[r] = "none" /\ answerBar' = [answerBar EXCEPT ![r] = "lost"]
      BY <3>1 DEF answerBar, IInv, TypeOK
    <3>. QED
      BY <3>1, <3>2 DEF Ledger!Answer, Ledger!Reported, answerBar
  <2>3. ASSUME NEW r \in Scans, Commit(r) \/ CommitUnknown(r)
        PROVE  Ledger!Record(r)
    <3>1. /\ phase[r] = "lines" /\ phase' = [phase EXCEPT ![r] = "answering"]
          /\ \A q \in Scans \ {r} : outcome'[q] = outcome[q]
          /\ receipts' = receipts \cup {r}
      BY <2>3 DEF Commit, CommitUnknown, CommitRows, AnswerWith, IInv, TypeOK
    <3>2. r \notin receipts
      BY <3>1 DEF IInv, RowsOK
    <3>3. answerBar' = answerBar /\ answerBar[r] = "none"
      BY <3>1 DEF answerBar, IInv, TypeOK
    <3>. QED
      BY <3>1, <3>2, <3>3 DEF Ledger!Record, answerBar
  <2>4. ASSUME NEW r \in Scans,
               \/ \E u \in Users : Start(r, u)
               \/ \E L \in SUBSET Lines : Scan(r, L)
               \/ RejectImage(r) \/ Upload(r) \/ UploadFails(r) \/ ScanFails(r)
               \/ Validate(r) \/ ValidateFails(r) \/ Cleanup(r) \/ CleanupFails(r)
               \/ SaveReceipt(r) \/ SaveLines(r) \/ TransactionFails(r)
        PROVE  UNCHANGED <<receipts, answerBar>>
    <3>1. /\ receipts' = receipts /\ phase[r] # "done"
          /\ \E p \in Phases \ {"done"} : phase' = [phase EXCEPT ![r] = p]
          /\ \A q \in Scans \ {r} : outcome'[q] = outcome[q]
      BY <2>4 DEF Start, Scan, RejectImage, Upload, UploadFails, ScanFails, Validate,
             ValidateFails, Cleanup, CleanupFails, SaveReceipt, SaveLines,
             TransactionFails, Goto, AnswerWith, CatchWith, store, Phases, IInv, TypeOK
    <3>. QED
      BY <3>1 DEF answerBar, IInv, TypeOK
  <2>5. CASE Crash
    <3> DEFINE S == {r \in Scans : InFlight(r)}
    <3>1. \A r \in S : answerBar[r] = "none"
      BY DEF answerBar, InFlight
    <3>2. answerBar' = [r \in Scans |-> IF r \in S THEN "lost" ELSE answerBar[r]]
      BY <2>5 DEF answerBar, Crash, InFlight
    <3>3. Ledger!Disconnect(S)
      BY <2>5, <3>1, <3>2 DEF Ledger!Disconnect, Crash, store, answerBar
    <3>4. S \in SUBSET Scans
      OBVIOUS
    <3>. QED
      BY <3>3, <3>4 DEF Ledger!Next, Ledger!Disconnect
  <2>6. CASE \E q \in Readers :
                \/ \E u \in Users, r \in Scans :
                       FindReceipt(q, u, r) \/ ReceiptNotFound(q, u, r)
                \/ FindByReceiptId(q)
    BY <2>6 DEF FindReceipt, ReceiptNotFound, FindByReceiptId, store, answerBar
  <2>7. CASE UNCHANGED vars
    BY <2>7 DEF vars, answerBar
  <2>8. ASSUME NEW r \in Scans, Reply(r) \/ ReplyLost(r) \/ Commit(r) \/ CommitUnknown(r)
        PROVE  Ledger!Next
    <3>1. "lost" \in Ledger!Answers
      BY DEF Ledger!Answers
    <3>. QED
      BY <2>1, <2>2, <2>3, <2>8, <3>1 DEF Ledger!Next, Ledger!Answer, Ledger!Record
  <2>. QED
    BY <2>4, <2>5, <2>6, <2>7, <2>8 DEF Next, ScanStep, ReaderStep, ServiceStep
<1>. QED
  BY <1>1, <1>2, Inductive, PTL
     DEF Spec, ImplementsReceiptLedger, Ledger!Spec, Ledger!vars, answerBar

=============================================================================
