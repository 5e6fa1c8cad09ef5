-------------------------- MODULE ReceiptPagesProofs --------------------------
(***************************************************************************)
(* Reading by pages leaves uploads and readers as they are, and misses a   *)
(* receipt only over a tie in created_at: for any number of uploads,       *)
(* readers and receipts on a page, and whatever the clock shows.           *)
(***************************************************************************)
EXTENDS ReceiptPages, ReceiptScanProofs, FiniteSetTheorems

USE PagesAssumption

(* A step next to the pages is a step of ReceiptScan, or none.             *)
LEMMA PagesStep == [PagesNext]_pagesVars => [Next]_vars
  BY DEF PagesNext, pagesVars, Next

(* The uploads and readers of PagesSpec are those of Spec (findPageForUser *)
(* writes nothing, receipt.repository.ts:30).                              *)
THEOREM PagesImplementScan == PagesSpec => Spec
<1>1. PagesInit => Init
  BY DEF PagesInit
<1>. QED
  BY <1>1, PagesStep, PTL DEF PagesSpec, Spec

WalkTypeOK ==
    /\ createdAt \in [Scans -> Nat]
    /\ walk \in [at: {"idle", "asked", "found", "ended"}, user: Users \cup {None},
                 page: Nat \ {0}, limit: 1..MaxLimit,
                 rows: SUBSET Scans, seen: SUBSET Scans, due: SUBSET Scans]

LEMMA WalkType ==
    ASSUME TypeOK, WalkTypeOK, [PagesNext]_pagesVars
    PROVE  WalkTypeOK'
<1> DEFINE W == [at: {"idle", "asked", "found", "ended"}, user: Users \cup {None},
                 page: Nat \ {0}, limit: 1..MaxLimit,
                 rows: SUBSET Scans, seen: SUBSET Scans, due: SUBSET Scans]
<1>1. walk \in W /\ createdAt \in [Scans -> Nat]
  BY DEF WalkTypeOK
<1>2. ASSUME Stamp PROVE createdAt' \in [Scans -> Nat]
  BY <1>1, <1>2 DEF Stamp
<1>3. ASSUME NEW u \in Users, NEW limit \in Limits, BeginWalk(u, limit)
      PROVE  walk' \in W
  <2>1. SafeLimit(limit) \in 1..MaxLimit
    BY DEF SafeLimit
  <2>2. OfUser(u) \subseteq Scans
    BY DEF OfUser, TypeOK
  <2>3. walk' = [at |-> "asked", user |-> u, page |-> 1, limit |-> SafeLimit(limit),
                 rows |-> {}, seen |-> {}, due |-> OfUser(u)]
    BY <1>3 DEF BeginWalk, WalkIdle
  <2>4. 1 \in Nat \ {0}
    OBVIOUS
  <2>. QED
    BY <2>1, <2>2, <2>3, <2>4
<1>4. ASSUME FindPage PROVE walk' \in W
  <2>1. PICK place \in Orders(walk.user) :
            walk' = [walk EXCEPT !.at = "found",
                                 !.rows = PageRows(place, walk.page, walk.limit)]
    BY <1>4 DEF FindPage
  <2>2. PageRows(place, walk.page, walk.limit) \subseteq Scans
    BY DEF PageRows, Orders, Places, Bijection, Injection, OfUser, TypeOK
  <2>. QED
    BY <1>1, <2>1, <2>2
<1>5. ASSUME NEW total, Answered(total) PROVE walk' \in W
  <2> DEFINE more == walk.page * walk.limit < total
  <2>1. walk.page + 1 \in Nat \ {0}
    BY <1>1
  <2>2. walk.seen \cup walk.rows \subseteq Scans
    BY <1>1
  <2>3. CASE more
    <3>1. walk' = [walk EXCEPT !.at = "asked", !.page = walk.page + 1,
                               !.seen = walk.seen \cup walk.rows, !.rows = {}]
      BY <1>1, <1>5, <2>3 DEF Answered
    <3>. QED
      BY <1>1, <2>1, <2>2, <3>1
  <2>4. CASE ~more
    <3>1. walk' = [walk EXCEPT !.at = "ended",
                               !.seen = walk.seen \cup walk.rows, !.rows = {}]
      BY <1>1, <1>5, <2>4 DEF Answered
    <3>. QED
      BY <1>1, <2>2, <3>1
  <2>. QED
    BY <2>3, <2>4
<1>6. ASSUME Interrupt PROVE walk' \in W
  BY <1>1, <1>6 DEF Interrupt
<1>7. CASE ScanStep /\ Stamp /\ UNCHANGED walk
  BY <1>1, <1>2, <1>7 DEF WalkTypeOK
<1>8. CASE UNCHANGED <<createdAt, walk>>
  BY <1>1, <1>8 DEF WalkTypeOK
<1>9. CASE Interrupt /\ UNCHANGED createdAt
  BY <1>1, <1>6, <1>9 DEF WalkTypeOK
<1>10. CASE WalkStep /\ UNCHANGED createdAt
  BY <1>1, <1>3, <1>4, <1>5, <1>10 DEF WalkStep, CountReceipts, InferCount, WalkTypeOK
<1>. QED
  BY <1>7, <1>8, <1>9, <1>10 DEF PagesNext, pagesVars

(* Type correctness of uploads, readers and pages.                         *)
THEOREM PagesTypeCorrect == PagesSpec => []PagesTypeOK
<1>1. PagesInit => WalkTypeOK
  BY DEF PagesInit, WalkTypeOK, WalkIdle
<1>2. TypeOK /\ WalkTypeOK /\ [PagesNext]_pagesVars => WalkTypeOK'
  BY WalkType
<1>3. TypeOK /\ WalkTypeOK => PagesTypeOK
  BY DEF PagesTypeOK, WalkTypeOK
<1>. QED
  BY <1>1, <1>2, <1>3, PagesImplementScan, TypeCorrect, PTL DEF PagesSpec

-----------------------------------------------------------------------------
(* The walk of the pages.                                                  *)

(* The receipts of the same user with a later instant, and their number:   *)
(* the first place the order may give r.                                   *)
Newer(r) == {s \in OfUser(owner[r]) : createdAt[s] > createdAt[r]}

Rank(r) == Cardinality(Newer(r))

(* The caller has been given r, or one it cannot tell the order of.        *)
Given(r, S) == \E s \in S : createdAt[s] = createdAt[r]

(* What the caller was not given yet lies on this page or a later one, and *)
(* once the rows of this page are read, on a later one; there is a later   *)
(* one only if this one is full.                                           *)
WalkOK ==
    /\ walk.due \subseteq OfUser(walk.user)
    /\ walk.seen \subseteq OfUser(walk.user) /\ walk.rows \subseteq OfUser(walk.user)
    /\ walk.at \in {"asked", "found"} =>
           \A r \in walk.due :
               Given(r, walk.seen) \/ Rank(r) >= Skip(walk.page, walk.limit)
    /\ walk.at = "found" =>
           \A r \in walk.due :
               \/ Given(r, walk.seen \cup walk.rows)
               \/ /\ Rank(r) >= Skip(walk.page, walk.limit) + walk.limit
                  /\ Cardinality(walk.rows) >= walk.limit
    /\ walk.at = "ended" => \A r \in walk.due : Given(r, walk.seen)

(* The inductive invariant of the walk, next to that of the uploads.       *)
PagesIInv == IInv /\ WalkTypeOK /\ WalkOK

(* Only a scan that is no receipt yet begins its transaction.              *)
LEMMA ScanStepMoves ==
    ASSUME IInv, ScanStep
    PROVE  /\ receipts \subseteq receipts'
           /\ \A r \in receipts : owner'[r] = owner[r] /\ phase'[r] # "transaction"
<1>1. PICK r \in Scans : \/ \E u \in Users : Start(r, u)
                         \/ \E L \in SUBSET Lines : Scan(r, L)
                         \/ ServiceStep(r)
  BY DEF ScanStep
<1>2. /\ phase \in [Scans -> Phases] /\ owner \in [Scans -> Users \cup {None}]
      /\ receipts \subseteq Scans
      /\ \A q \in receipts : phase[q] = "answering" \/ phase[q] = "done"
  BY DEF IInv, TypeOK, RowsOK
<1>3. receipts \subseteq receipts'
  BY <1>1 DEF ServiceStep, Start, Scan, RejectImage, Upload, UploadFails, ScanFails, Validate,
         ValidateFails, Cleanup, CleanupFails, SaveReceipt, SaveLines, TransactionFails,
         Commit, CommitUnknown, CommitRows, Reply, ReplyLost, store
<1>4. \/ UNCHANGED owner
      \/ phase[r] = "idle" /\ \E u \in Users : owner' = [owner EXCEPT ![r] = u]
  BY <1>1 DEF ServiceStep, Start, Scan, RejectImage, Upload, UploadFails, ScanFails, Validate,
         ValidateFails, Cleanup, CleanupFails, SaveReceipt, SaveLines, TransactionFails,
         Commit, CommitUnknown, Reply, ReplyLost
<1>5. PICK p \in Phases : /\ phase' = [phase EXCEPT ![r] = p]
                          /\ p = "transaction" => phase[r] = "scanned"
  BY <1>1 DEF ServiceStep, Start, Scan, RejectImage, Upload, UploadFails, ScanFails, Validate,
         ValidateFails, Cleanup, CleanupFails, SaveReceipt, SaveLines, TransactionFails,
         Commit, CommitUnknown, Reply, ReplyLost, Goto, AnswerWith, CatchWith, Phases
<1>6. ASSUME NEW q \in receipts PROVE phase'[q] # "transaction"
  <2>1. q \in Scans /\ phase[q] # "transaction" /\ phase[q] # "scanned"
    BY <1>2
  <2>2. CASE q = r
    BY <1>2, <1>5, <2>1, <2>2
  <2>3. CASE q # r
    BY <1>2, <1>5, <2>1, <2>3
  <2>. QED
    BY <2>2, <2>3
<1>7. \A q \in receipts : owner'[q] = owner[q]
  BY <1>2, <1>4
<1>. QED
  BY <1>3, <1>6, <1>7

(* Receipts stay, with their owner and their instant, in every step.       *)
LEMMA ReceiptsStay ==
    ASSUME IInv, WalkTypeOK, [PagesNext]_pagesVars
    PROVE  \A r \in receipts :
               r \in receipts' /\ owner'[r] = owner[r] /\ createdAt'[r] = createdAt[r]
<1>1. CASE ScanStep /\ Stamp
  <2>1. receipts \subseteq Scans
    BY DEF IInv, TypeOK
  <2>2. \A r \in receipts : createdAt'[r] = createdAt[r]
    BY <1>1, <2>1, ScanStepMoves DEF Stamp
  <2>. QED
    BY <1>1, <2>2, ScanStepMoves
<1>2. CASE UNCHANGED <<owner, receipts, createdAt>>
  BY <1>2
<1>. QED
  BY <1>1, <1>2 DEF PagesNext, pagesVars, vars, Crash, ReaderStep, FindReceipt,
         ReceiptNotFound, FindByReceiptId, store

-----------------------------------------------------------------------------
(* Places in the order of the pages.                                       *)

(* The next page starts where this one ends.                               *)
LEMMA SkipOfPage ==
    ASSUME NEW page \in Nat \ {0}, NEW limit \in Nat
    PROVE  /\ Skip(page, limit) \in Nat
           /\ Skip(page, limit) + limit = page * limit
           /\ Skip(page + 1, limit) = page * limit
<1>1. PICK n \in Nat : page = n + 1
  <2>1. page - 1 \in Nat /\ page = (page - 1) + 1
    OBVIOUS
  <2>. QED
    BY <2>1
<1>2. Skip(page, limit) = n * limit /\ Skip(page + 1, limit) = (n + 1) * limit
  BY <1>1 DEF Skip
<1>3. n * limit \in Nat /\ (n + 1) * limit = n * limit + limit
  OBVIOUS
<1>. QED
  BY <1>1, <1>2, <1>3

LEMMA Ranks ==
    ASSUME IInv, WalkTypeOK, NEW u
    PROVE  /\ IsFiniteSet(OfUser(u)) /\ Cardinality(OfUser(u)) \in Nat
           /\ \A r \in OfUser(u) :
                  /\ Newer(r) = {s \in OfUser(u) : createdAt[s] > createdAt[r]}
                  /\ IsFiniteSet(Newer(r)) /\ Rank(r) \in Nat
                  /\ Rank(r) < Cardinality(OfUser(u))
<1>1. OfUser(u) \subseteq Scans /\ \A r \in OfUser(u) : createdAt[r] \in Nat
  BY DEF IInv, TypeOK, OfUser, WalkTypeOK
<1>2. IsFiniteSet(OfUser(u)) /\ Cardinality(OfUser(u)) \in Nat
  BY <1>1, FS_Subset, FS_CardinalityType
<1>3. \A r \in OfUser(u) : Newer(r) = {s \in OfUser(u) : createdAt[s] > createdAt[r]}
  BY DEF Newer, OfUser
<1>4. ASSUME NEW r \in OfUser(u)
      PROVE  IsFiniteSet(Newer(r)) /\ Rank(r) \in Nat /\ Rank(r) < Cardinality(OfUser(u))
  <2>1. Newer(r) \subseteq OfUser(u) /\ r \notin Newer(r)
    BY <1>1, <1>3, <1>4
  <2>2. /\ IsFiniteSet(Newer(r)) /\ Rank(r) <= Cardinality(OfUser(u))
        /\ Cardinality(OfUser(u)) = Rank(r) => OfUser(u) = Newer(r)
    BY <1>2, <2>1, FS_Subset DEF Rank
  <2>3. Rank(r) \in Nat
    BY <2>2, FS_CardinalityType DEF Rank
  <2>. QED
    BY <1>2, <1>4, <2>1, <2>2, <2>3
<1>. QED
  BY <1>2, <1>3, <1>4

(* However a query orders those that tie, the place after all that are     *)
(* newer than r goes to one of r's instant.                                *)
LEMMA PlaceOfInstant ==
    ASSUME IInv, WalkTypeOK, NEW u, NEW place \in Orders(u), NEW r \in OfUser(u)
    PROVE  \E s \in OfUser(u) : place[s] = Rank(r) /\ createdAt[s] = createdAt[r]
<1> DEFINE V == OfUser(u)
           n == Cardinality(V)
           k == Rank(r)
           W == Newer(r)
<1>1. /\ n \in Nat /\ k \in Nat /\ IsFiniteSet(V) /\ IsFiniteSet(W) /\ k = Cardinality(W)
      /\ k < n /\ W = {s \in V : createdAt[s] > createdAt[r]}
  BY Ranks DEF Rank
<1>2. \A s \in V : createdAt[s] \in Nat
  BY DEF OfUser, IInv, TypeOK, WalkTypeOK
<1>3. /\ place \in [V -> 0..(n - 1)]
      /\ \A s, t \in V : place[s] = place[t] => s = t
      /\ \A i \in 0..(n - 1) : \E s \in V : place[s] = i
      /\ \A s, t \in V : createdAt[s] > createdAt[t] => place[s] < place[t]
  BY DEF Orders, Places, Bijection, Injection, Surjection, IsInjective
<1>r. r \in V
  OBVIOUS
<1> HIDE DEF V, n, k, W
<1>4. k \in 0..(n - 1)
  BY <1>1
<1>5. PICK s \in V : place[s] = k
  BY <1>3, <1>4
<1>k. k \in Nat /\ 0 \in Int /\ k \in Int /\ k - 1 \in Int
  BY <1>1
<1>6. ASSUME createdAt[s] > createdAt[r] PROVE FALSE
  <2> DEFINE f == [t \in W |-> IF place[t] <= k THEN place[t] ELSE 0]
  <2>1. ASSUME NEW i \in 0..k PROVE \E t \in W : f[t] = i
    <3>1. i \in 0..(n - 1)
      BY <1>1, <1>4
    <3>2. PICK t \in V : place[t] = i
      BY <1>3, <3>1
    <3>3. t \in W
      <4>1. ~(createdAt[s] > createdAt[t])
        BY <1>1, <1>3, <1>5, <3>2
      <4>. QED
        BY <1>1, <1>2, <1>6, <1>r, <4>1
    <3>. QED
      BY <1>1, <3>2, <3>3
  <2>2. f \in [W -> 0..k]
    BY <1>1, <1>3
  <2>3. f \in Surjection(W, 0..k)
    BY <2>1, <2>2 DEF Surjection
  <2> HIDE DEF f
  <2>4. Cardinality(0..k) <= k
    BY <1>1, <2>3, FS_Surjection
  <2>5. Cardinality(0..k) = IF 0 > k THEN 0 ELSE k - 0 + 1
    BY <1>k, FS_Interval
  <2>. QED
    BY <1>k, <2>4, <2>5
<1>7. ASSUME createdAt[s] < createdAt[r] PROVE FALSE
  <2> DEFINE X == W \cup {r}
             f == [t \in X |-> place[t]]
  <2>1. X \subseteq V /\ r \notin W
    BY <1>1, <1>2, <1>r
  <2>2. ASSUME NEW t \in X PROVE place[t] \in 0..(k - 1)
    <3>1. createdAt[t] > createdAt[s]
      BY <1>1, <1>2, <1>7, <1>r, <2>1
    <3>2. place[t] < k
      BY <1>3, <1>5, <2>1, <3>1
    <3>3. place[t] \in 0..(n - 1)
      BY <1>3, <2>1
    <3>. QED
      BY <1>1, <3>2, <3>3
  <2>3. f \in Injection(X, 0..(k - 1))
    BY <1>3, <2>1, <2>2 DEF Injection, IsInjective
  <2>4. Cardinality(X) = k + 1
    BY <1>1, <2>1, FS_AddElement
  <2>5. /\ IsFiniteSet(0..(k - 1))
        /\ Cardinality(0..(k - 1)) = IF 0 > k - 1 THEN 0 ELSE (k - 1) - 0 + 1
    BY <1>k, FS_Interval
  <2> HIDE DEF f, X
  <2>6. Cardinality(X) <= Cardinality(0..(k - 1))
    BY <2>3, <2>5, FS_Injection
  <2>. QED
    BY <1>k, <2>4, <2>5, <2>6
<1>8. createdAt[s] = createdAt[r]
  BY <1>2, <1>6, <1>7, <1>r
<1>. QED
  BY <1>5, <1>8 DEF V, k

(* Where a receipt may be behind a page, the page is full: every place is  *)
(* taken.                                                                  *)
LEMMA FullPage ==
    ASSUME IInv, WalkTypeOK, NEW u, NEW page \in Nat \ {0}, NEW limit \in Nat \ {0},
           NEW place \in Orders(u),
           NEW r \in OfUser(u), Rank(r) >= Skip(page, limit) + limit
    PROVE  Cardinality(PageRows(place, page, limit)) >= limit
<1> DEFINE V == OfUser(u)
           n == Cardinality(V)
           k == Skip(page, limit)
           R == PageRows(place, page, limit)
           g == [s \in R |-> place[s]]
<1>1. n \in Nat /\ k \in Nat /\ IsFiniteSet(V) /\ k + limit <= n - 1
  <2>1. n \in Nat /\ k \in Nat /\ IsFiniteSet(V)
    BY Ranks, SkipOfPage
  <2>2. Rank(r) \in Nat /\ Rank(r) < n /\ Rank(r) >= k + limit
    BY Ranks
  <2> HIDE DEF V, n, k
  <2>. QED
    BY <2>1, <2>2
<1>2. /\ place \in [V -> 0..(n - 1)]
      /\ \A i \in 0..(n - 1) : \E s \in V : place[s] = i
  BY DEF Orders, Places, Bijection, Injection, Surjection
<1>3. R = {s \in V : k <= place[s] /\ place[s] < k + limit}
  BY <1>2 DEF PageRows
<1> HIDE DEF V, n, k, R
<1>4. g \in Surjection(R, k..(k + limit - 1))
  <2>1. g \in [R -> k..(k + limit - 1)]
    BY <1>1, <1>2, <1>3
  <2>2. ASSUME NEW i \in k..(k + limit - 1) PROVE \E s \in R : g[s] = i
    <3>1. i \in 0..(n - 1) /\ k <= i /\ i < k + limit
      BY <1>1
    <3>. QED
      BY <1>2, <1>3, <3>1
  <2>. QED
    BY <2>1, <2>2 DEF Surjection
<1>5. IsFiniteSet(R)
  BY <1>1, <1>3, FS_Subset
<1>6. Cardinality(k..(k + limit - 1)) = limit
  BY <1>1, FS_Interval
<1>7. Cardinality(k..(k + limit - 1)) <= Cardinality(R)
  <2> HIDE DEF g
  <2>. QED
    BY <1>4, <1>5, FS_Surjection
<1>8. Cardinality(R) \in Nat
  BY <1>5, FS_CardinalityType
<1>. QED
  BY <1>6, <1>7, <1>8 DEF R

-----------------------------------------------------------------------------
(* Steps of the walk, and of everything around it.                         *)

(* Uploads push a receipt back, never forward: what is on a later page     *)
(* stays there.                                                            *)
LEMMA RanksGrow ==
    ASSUME PagesIInv, [PagesNext]_pagesVars, PagesTypeOK', IInv'
    PROVE  /\ \A u : OfUser(u) \subseteq OfUser(u)'
           /\ \A r \in receipts : Rank(r) \in Nat /\ Rank(r)' \in Nat /\ Rank(r) <= Rank(r)'
<1>1. \A r \in receipts :
          r \in receipts' /\ owner'[r] = owner[r] /\ createdAt'[r] = createdAt[r]
  BY ReceiptsStay DEF PagesIInv
<1>2. receipts \subseteq Scans /\ receipts' \subseteq Scans
  BY DEF PagesIInv, IInv, TypeOK
<1>3. \A u : OfUser(u) \subseteq OfUser(u)'
  BY <1>1 DEF OfUser
<1>4. ASSUME NEW r \in receipts
      PROVE  Rank(r) \in Nat /\ Rank(r)' \in Nat /\ Rank(r) <= Rank(r)'
  <2>1. Newer(r) \subseteq Newer(r)'
    BY <1>1, <1>4 DEF Newer, OfUser
  <2>2. Newer(r)' \subseteq Scans
    BY <1>2 DEF Newer, OfUser
  <2>3. IsFiniteSet(Newer(r)')
    BY <2>2, FS_Subset
  <2>4. IsFiniteSet(Newer(r)) /\ Cardinality(Newer(r)) <= Cardinality(Newer(r)')
    BY <2>1, <2>3, FS_Subset
  <2>. QED
    BY <2>3, <2>4, FS_CardinalityType DEF Rank
<1>. QED
  BY <1>3, <1>4

(* The rows of the page and the total are two statements, in between which *)
(* receipts may appear: neither makes the caller stop too early.           *)
LEMMA AnswerPreserves ==
    ASSUME PagesIInv, walk.at = "found", UNCHANGED <<vars, createdAt>>,
           NEW total, Answered(total),
           \/ total = Cardinality(OfUser(walk.user))
           \/ Cardinality(walk.rows) < walk.limit
    PROVE  WalkOK'
<1> DEFINE rest == {r \in walk.due : ~Given(r, walk.seen \cup walk.rows)}
           more == walk.page * walk.limit < total
<1>1. /\ walk.page \in Nat \ {0} /\ walk.limit \in Nat \ {0}
      /\ walk.rows \subseteq Scans /\ walk.due \subseteq OfUser(walk.user)
      /\ walk.seen \cup walk.rows \subseteq OfUser(walk.user)
  BY DEF PagesIInv, WalkTypeOK, WalkOK
<1>2. /\ Skip(walk.page, walk.limit) + walk.limit = walk.page * walk.limit
      /\ Skip(walk.page + 1, walk.limit) = walk.page * walk.limit
      /\ walk.page * walk.limit \in Nat
  <2>1. walk.limit \in Nat /\ walk.page \in Nat
    BY <1>1
  <2>2. walk.page * walk.limit \in Nat
    BY <2>1
  <2>. QED
    BY <1>1, <2>1, <2>2, SkipOfPage
<1>3. \A r \in rest : /\ Rank(r) >= walk.page * walk.limit
                      /\ Cardinality(walk.rows) >= walk.limit
  BY <1>2 DEF PagesIInv, WalkOK
<1>4. IsFiniteSet(walk.rows) /\ Cardinality(walk.rows) \in Nat
  BY <1>1, FS_Subset, FS_CardinalityType
<1>5. ASSUME ~more PROVE rest = {}
  <2>1. /\ Cardinality(OfUser(walk.user)) \in Nat
        /\ \A r \in OfUser(walk.user) : /\ Rank(r) \in Nat
                                        /\ Rank(r) < Cardinality(OfUser(walk.user))
    BY Ranks DEF PagesIInv
  <2> SUFFICES ASSUME NEW r \in rest PROVE FALSE
    OBVIOUS
  <2>2. /\ r \in OfUser(walk.user) /\ Rank(r) >= walk.page * walk.limit
        /\ Cardinality(walk.rows) >= walk.limit
    BY <1>1, <1>3
  <2>3. total = Cardinality(OfUser(walk.user))
    BY <1>1, <1>4, <2>2
  <2>. QED
    BY <1>2, <1>5, <2>1, <2>2, <2>3
<1>6. walk' = [walk EXCEPT !.at = walk'.at, !.page = walk'.page, !.seen = walk'.seen,
                           !.rows = {}]
  BY DEF Answered
<1>7. /\ walk'.at = IF more THEN "asked" ELSE "ended"
      /\ walk'.page = IF more THEN walk.page + 1 ELSE walk.page
      /\ walk'.seen = walk.seen \cup walk.rows /\ walk'.rows = {}
      /\ walk'.due = walk.due /\ walk'.limit = walk.limit /\ walk'.user = walk.user
  BY DEF Answered, PagesIInv, WalkTypeOK
<1>8. \A r : Rank(r)' = Rank(r)
  BY DEF vars, Rank, Newer, OfUser
<1>9. \A u : OfUser(u)' = OfUser(u)
  BY DEF vars, OfUser
<1>10. \A r \in walk.due : r \notin rest => Given(r, walk.seen)'
  BY <1>7 DEF Given
<1>. QED
  BY <1>1, <1>2, <1>3, <1>5, <1>7, <1>8, <1>9, <1>10 DEF WalkOK

LEMMA WalkStepPreserves ==
    ASSUME PagesIInv, WalkTypeOK', WalkStep, UNCHANGED <<vars, createdAt>>
    PROVE  WalkOK'
<1>1. /\ \A r : Rank(r)' = Rank(r)
      /\ \A u : OfUser(u)' = OfUser(u)
  BY DEF vars, Rank, Newer, OfUser
<1>2. ASSUME NEW u \in Users, NEW limit \in Limits, BeginWalk(u, limit)
      PROVE  WalkOK'
  <2>1. /\ walk'.at = "asked" /\ walk'.page = 1 /\ walk'.seen = {} /\ walk'.rows = {}
        /\ walk'.user = u /\ walk'.due = OfUser(u)
    BY <1>2 DEF BeginWalk, WalkIdle
  <2>2. walk'.limit \in Nat
    BY DEF WalkTypeOK
  <2>3. Skip(1, walk'.limit) = 0
    BY <2>2 DEF Skip
  <2>4. \A r \in OfUser(u) : Rank(r) \in Nat
    BY Ranks DEF PagesIInv
  <2>. QED
    BY <1>1, <2>1, <2>3, <2>4 DEF WalkOK
<1>3. CASE FindPage
  <2>1. PICK place \in Orders(walk.user) :
            walk' = [walk EXCEPT !.at = "found",
                                 !.rows = PageRows(place, walk.page, walk.limit)]
    BY <1>3 DEF FindPage
  <2> DEFINE R == PageRows(place, walk.page, walk.limit)
  <2>2. /\ walk.at = "asked" /\ walk'.at = "found" /\ walk'.rows = R
        /\ walk'.page = walk.page /\ walk'.seen = walk.seen /\ walk'.limit = walk.limit
        /\ walk'.user = walk.user /\ walk'.due = walk.due
    BY <1>3, <2>1 DEF FindPage, PagesIInv, WalkTypeOK
  <2>3. /\ walk.page \in Nat \ {0} /\ walk.limit \in Nat \ {0}
        /\ walk.due \subseteq OfUser(walk.user)
    BY DEF PagesIInv, WalkTypeOK, WalkOK
  <2>4. R \subseteq OfUser(walk.user)
    BY DEF PageRows, Orders, Places, Bijection, Injection
  <2>5. ASSUME NEW r \in walk.due, ~Given(r, walk.seen \cup R)
        PROVE  /\ Rank(r) >= Skip(walk.page, walk.limit) + walk.limit
               /\ Cardinality(R) >= walk.limit
    <3>1. r \in OfUser(walk.user) /\ Rank(r) \in Nat /\ Skip(walk.page, walk.limit) \in Nat
      BY <2>3, Ranks, SkipOfPage DEF PagesIInv
    <3>2. Rank(r) >= Skip(walk.page, walk.limit)
      BY <2>2, <2>5 DEF PagesIInv, WalkOK, Given
    <3>3. PICK s \in OfUser(walk.user) : place[s] = Rank(r) /\ createdAt[s] = createdAt[r]
      BY <3>1, PlaceOfInstant DEF PagesIInv
    <3>4. s \notin R /\ s \in DOMAIN place
      BY <2>5, <3>3 DEF Given, Orders, Places, Bijection, Injection
    <3>5. Rank(r) >= Skip(walk.page, walk.limit) + walk.limit
      BY <2>3, <3>1, <3>2, <3>3, <3>4 DEF PageRows
    <3>. QED
      BY <2>3, <3>1, <3>5, FullPage DEF PagesIInv
  <2> HIDE DEF R
  <2>6. \A r \in walk.due : Given(r, walk.seen)' <=> Given(r, walk.seen)
    BY <2>2 DEF Given
  <2>7. \A r \in walk.due : Given(r, walk.seen \cup walk.rows)' <=> Given(r, walk.seen \cup R)
    BY <2>2 DEF Given
  <2>. QED
    BY <1>1, <2>2, <2>3, <2>4, <2>5, <2>6, <2>7 DEF PagesIInv, WalkOK
<1>4. CASE CountReceipts
  BY <1>4, AnswerPreserves DEF CountReceipts
<1>5. CASE InferCount
  BY <1>5, AnswerPreserves DEF InferCount
<1>. QED
  BY <1>2, <1>3, <1>4, <1>5 DEF WalkStep

LEMMA WalkPreserves ==
    ASSUME PagesIInv, [PagesNext]_pagesVars, IInv', WalkTypeOK'
    PROVE  WalkOK'
<1>1. PagesTypeOK'
  BY DEF IInv, WalkTypeOK, PagesTypeOK
<1>2. /\ walk.due \subseteq OfUser(walk.user) /\ walk.seen \subseteq OfUser(walk.user)
      /\ walk.rows \subseteq OfUser(walk.user) /\ OfUser(walk.user) \subseteq receipts
  BY DEF PagesIInv, WalkOK, OfUser
<1>3. /\ \A u : u = walk.user => /\ walk.due \subseteq OfUser(u)'
                                 /\ walk.seen \subseteq OfUser(u)'
                                 /\ walk.rows \subseteq OfUser(u)'
      /\ \A r \in walk.due : Rank(r) \in Nat /\ Rank(r)' \in Nat /\ Rank(r) <= Rank(r)'
  <2>1. \A u : OfUser(u) \subseteq OfUser(u)'
    BY <1>1, RanksGrow
  <2>. QED
    BY <1>1, <1>2, <2>1, RanksGrow
<1>4. walk.page \in Nat \ {0} /\ walk.limit \in Nat \ {0}
  BY DEF PagesIInv, WalkTypeOK
<1>5. Skip(walk.page, walk.limit) \in Nat
  BY <1>4, SkipOfPage
<1>g. ASSUME NEW r \in walk.due, NEW s \in walk.seen \cup walk.rows, createdAt[s] = createdAt[r]
      PROVE  createdAt'[s] = createdAt'[r]
  BY <1>2, <1>g, ReceiptsStay DEF PagesIInv
<1>6. CASE UNCHANGED walk
  <2>1. \A r \in walk.due : /\ Given(r, walk.seen) => Given(r, walk.seen)'
                            /\ Given(r, walk.seen \cup walk.rows)
                                  => Given(r, walk.seen \cup walk.rows)'
    BY <1>6, <1>g DEF Given
  <2>. QED
    BY <1>3, <1>4, <1>5, <1>6, <2>1 DEF PagesIInv, WalkOK, OfUser
<1>7. CASE Interrupt
  <2>1. /\ walk'.at = IF walk.at = "found" THEN "asked" ELSE walk.at
        /\ walk'.page = walk.page /\ walk'.seen = walk.seen /\ walk'.limit = walk.limit
        /\ walk'.user = walk.user /\ walk'.due = walk.due /\ walk'.rows = {}
    BY <1>7 DEF Interrupt, PagesIInv, WalkTypeOK
  <2>2. \A r \in walk.due : Given(r, walk.seen) => Given(r, walk.seen)'
    BY <1>g, <2>1 DEF Given
  <2>. QED
    BY <1>3, <1>4, <1>5, <2>1, <2>2 DEF PagesIInv, WalkOK, OfUser
<1>8. CASE WalkStep /\ UNCHANGED <<vars, createdAt>>
  BY <1>8, WalkStepPreserves
<1>. QED
  BY <1>6, <1>7, <1>8 DEF PagesNext, pagesVars

LEMMA PagesInductive == PagesSpec => []PagesIInv
<1>1. PagesInit => PagesIInv
  <2>. SUFFICES ASSUME PagesInit PROVE PagesIInv
    OBVIOUS
  <2>1. IInv
    BY InitIInv DEF PagesInit
  <2>2. WalkTypeOK
    BY DEF PagesInit, WalkTypeOK, WalkIdle
  <2>3. WalkOK
    BY DEF PagesInit, WalkOK, WalkIdle
  <2>. QED
    BY <2>1, <2>2, <2>3 DEF PagesIInv
<1>2. PagesIInv /\ [PagesNext]_pagesVars => PagesIInv'
  <2>. SUFFICES ASSUME PagesIInv, [PagesNext]_pagesVars PROVE PagesIInv'
    OBVIOUS
  <2>1. IInv'
    BY NextIInv, PagesStep DEF PagesIInv
  <2>2. WalkTypeOK'
    BY WalkType DEF PagesIInv, IInv
  <2>3. WalkOK'
    BY <2>1, <2>2, WalkPreserves
  <2>. QED
    BY <2>1, <2>2, <2>3 DEF PagesIInv
<1>. QED
  BY <1>1, <1>2, PTL DEF PagesSpec

(* For any number of uploads and users, any limit and any clock: a caller  *)
(* that follows the pages to the end misses a receipt that was there when  *)
(* it began only over one of the same instant (receipt.repository.ts:38).  *)
THEOREM PagesMissOnlyTies == PagesSpec => []WalkMissesOnlyTies
<1>1. PagesIInv => WalkMissesOnlyTies
  BY DEF PagesIInv, WalkOK, WalkMissesOnlyTies, Given
<1>. QED
  BY <1>1, PagesInductive, PTL

(* Next to a caller that pages, uploads keep their promises: pictures,     *)
(* whole receipts, honest errors, and the ledger (scanAndSave,             *)
(* receipt.service.ts:100).                                                *)
THEOREM PagesKeepUploads ==
    PagesSpec => /\ [](NoDanglingKey /\ ReaderSeesWholeReceipt)
                 /\ []ReportedErrorLeavesNothing
                 /\ ImplementsReceiptLedger
  BY PagesImplementScan, PictureKept, ReadersSeeWhole, ReportedErrorsClean,
     Refinement, PTL

=============================================================================
