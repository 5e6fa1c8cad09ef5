----------------------------- MODULE ReceiptPages -----------------------------
(***************************************************************************)
(* A caller that reads a user's receipts page by page with                 *)
(* getReceiptPageForUser, while uploads commit around it.  Pages are cut   *)
(* from the rows in the order of created_at alone, the newest first.       *)
(* created_at is the moment the transaction of a receipt began, on a clock *)
(* that all transactions share: receipts may appear in another order than  *)
(* theirs, and several may have the same instant.  Among those the         *)
(* database chooses an order for every query anew.                         *)
(*                                                                         *)
(* The caller starts with page 1 and goes on as long as page * limit, of   *)
(* the answer, is less than total.                                         *)
(***************************************************************************)
EXTENDS ReceiptScan, Naturals, FiniteSets, Functions

CONSTANTS
    Limits,     \* limits the caller may ask for
    MaxLimit,   \* 100 in the code
    Instants    \* bound: what the clock of the database may show

ASSUME PagesAssumption ==
    /\ IsFiniteSet(Scans)
    /\ Limits \subseteq Nat /\ MaxLimit \in Nat \ {0}
    /\ Instants \subseteq Nat \ {0}

VARIABLES
    createdAt,  \* per scan: when its transaction began; 0 before
    walk        \* the caller: the pages it has seen, the one it asks for

pagesVars == <<vars, createdAt, walk>>

(* due: the receipts that were there when it asked for page 1.             *)
WalkIdle == [at |-> "idle", user |-> None, page |-> 1, limit |-> 1,
             rows |-> {}, seen |-> {}, due |-> {}]

PagesInit ==
    /\ Init
    /\ createdAt = [r \in Scans |-> 0]
    /\ walk = WalkIdle

-----------------------------------------------------------------------------
(* BEGIN reads the clock, which promises no two of them different instants *)
(* (nor a later one: it may be set back).                                  *)
Stamp ==
    \E now \in Instants :
        createdAt' = [r \in Scans |->
            IF phase[r] # "transaction" /\ phase'[r] = "transaction"
            THEN now ELSE createdAt[r]]

OfUser(u) == {r \in receipts : owner[r] = u}

(* The places a query may give the receipts of a user.                     *)
Places(u) == Bijection(OfUser(u), 0..(Cardinality(OfUser(u)) - 1))

(* Variant: the order is left out, as the comment in the code suggests.    *)
OrdersUnsorted(u) == Places(u)

(* order: { createdAt: 'DESC' }                                            *)
Orders(u) ==
    {place \in Places(u) :
        \A r, s \in OfUser(u) : createdAt[r] > createdAt[s] => place[r] < place[s]}

(* Variant: a limit below 1 is let through.                                *)
SafeLimitUnbounded(limit) == IF limit > MaxLimit THEN MaxLimit ELSE limit

SafeLimit(limit) == IF limit < 1 THEN 1 ELSE IF limit > MaxLimit THEN MaxLimit ELSE limit

Skip(page, limit) == (page - 1) * limit

PageRows(place, page, limit) ==
    {r \in DOMAIN place : /\ Skip(page, limit) <= place[r]
                          /\ place[r] < Skip(page, limit) + limit}

(* The caller asks for page 1.  One caller reads, in one way or the other. *)
BeginWalk(u, limit) ==
    /\ walk.at \in {"idle", "ended"}
    /\ \A q \in Readers : reader[q].at = "idle"     \* bound
    /\ walk' = [WalkIdle EXCEPT !.at = "asked", !.user = u,
                                !.limit = SafeLimit(limit), !.due = OfUser(u)]

(* findAndCount, its first statement: the rows of the page.                *)
FindPage ==
    /\ walk.at = "asked"
    /\ \E place \in Orders(walk.user) :
          walk' = [walk EXCEPT !.at = "found",
                               !.rows = PageRows(place, walk.page, walk.limit)]

(* The answer arrives with its total.                                      *)
Answered(total) ==
    walk' = [walk EXCEPT !.at = IF walk.page * walk.limit < total THEN "asked" ELSE "ended",
                         !.page = IF walk.page * walk.limit < total THEN @ + 1 ELSE @,
                         !.seen = @ \cup walk.rows, !.rows = {}]

(* Its second statement, at a later moment: how many rows there are.       *)
CountReceipts ==
    /\ walk.at = "found"
    /\ Answered(Cardinality(OfUser(walk.user)))

(* A page that is not full is the last one: TypeORM need not count.        *)
InferCount ==
    /\ walk.at = "found" /\ Cardinality(walk.rows) < walk.limit
    /\ Answered(Skip(walk.page, walk.limit) + Cardinality(walk.rows))

(* The call fails, or the process dies under it: the page is asked again.  *)
Interrupt ==
    walk' = [walk EXCEPT !.at = IF @ = "found" THEN "asked" ELSE @, !.rows = {}]

WalkStep ==
    \/ \E u \in Users, limit \in Limits : BeginWalk(u, limit)
    \/ FindPage \/ CountReceipts \/ InferCount

PagesNext ==
    \/ ScanStep /\ Stamp /\ UNCHANGED walk
    \/ ReaderStep /\ walk.at = "idle" /\ UNCHANGED <<createdAt, walk>>   \* bound
    \/ Crash /\ Interrupt /\ UNCHANGED createdAt
    \/ WalkStep /\ UNCHANGED <<vars, createdAt>>

PagesSpec == PagesInit /\ [][PagesNext]_pagesVars

FairPagesSpec ==
    PagesSpec /\ \A r \in Scans : WF_pagesVars(ServiceStep(r) /\ Stamp /\ UNCHANGED walk)

-----------------------------------------------------------------------------
PagesTypeOK ==
    /\ TypeOK
    /\ createdAt \in [Scans -> Nat]
    /\ walk \in [at: {"idle", "asked", "found", "ended"}, user: Users \cup {None},
                 page: Nat \ {0}, limit: 1..MaxLimit,
                 rows: SUBSET Scans, seen: SUBSET Scans, due: SUBSET Scans]

(* A caller that pages through the receipts of a user to the end may miss  *)
(* one that was there when it began only if it was given, perhaps twice,   *)
(* another of the same instant: nothing but a tie in created_at moves a    *)
(* receipt to an earlier page, however many are committed meanwhile, in    *)
(* whatever order, and between the two statements of a call.  (The order   *)
(* has no second key, so that two that tie may change places from page to  *)
(* page: receipt.repository.ts:40.)                                        *)
WalkMissesOnlyTies ==
    walk.at = "ended" =>
        /\ walk.seen \subseteq OfUser(walk.user)
        /\ \A r \in walk.due : \E s \in walk.seen : createdAt[s] = createdAt[r]

=============================================================================
