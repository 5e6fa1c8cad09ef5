---------------------------- MODULE ErpRequests -----------------------------
(***************************************************************************)
(* The four GET routes of /erp: the tenant of the caller's token, the      *)
(* adapter built for it, what the tenant's ERP is asked and what is made   *)
(* of its answers, or the status an error ends up with.  The dashboard     *)
(* reads the ERP twice, the lists once.  Requests of several tenants are   *)
(* in flight together, and the books change meanwhile.                     *)
(*                                                                         *)
(* A step runs from one await to the next.  What follows an answer of the  *)
(* ERP touches this request only, so it belongs to the step in which the   *)
(* ERP answers.  None of these calls has a timeout: a request may wait for *)
(* ever, and no liveness is claimed.                                       *)
(***************************************************************************)
EXTENDS SequencesExt, Integers

CONSTANTS
    Requests,
    Tenants,
    Missing,        \* a tenant that a token names and the database no longer holds
    Erp,            \* per tenant: "wme", "softone", or "unreadable" configuration
    Answers,        \* per read: the sequences of rows an ERP may answer with
    FirstBooks,     \* per tenant and read: the answer at the start
    MaxPosts,       \* bound: changes of the books
    NaN,
    None

Sides == {"receivable", "payable"}      \* GetSolduriClienti, GetSolduriFurnizori
Lists == {"partners", "items", "invoices"}
Reads == Sides \cup Lists
ReadsOf(o) == IF o = "dashboard" THEN Sides ELSE {o}
Documents == {"Avans", "Factura"}       \* those a total is made of

ASSUME ErpAssumption ==
    /\ Missing \notin Tenants /\ None \notin Tenants /\ None # 200
    /\ Erp \in [Tenants -> {"wme", "softone", "unreadable"}]

ASSUME BooksAssumption ==
    /\ DOMAIN FirstBooks = Tenants
    /\ \A t \in Tenants, s \in Reads : FirstBooks[t][s] \in Answers[s]
    /\ MaxPosts \in Nat

(* A line of GetSolduri: a text of cents with so many marks in it.         *)
BalanceLine ==
    [TipDocument: STRING, Moneda: STRING, Rest: [cents: Int, marks: Nat]]

ASSUME LinesAssumption ==
    /\ NaN \notin Int
    /\ \A s \in Sides : Answers[s] \subseteq Seq(BalanceLine)

WmeTenants == {t \in Tenants : Erp[t] = "wme"}

VARIABLES
    history,    \* per tenant and read: every version of the answer, oldest first
    phase, op, claim, adapter, status,      \* per request
    result,     \* per request and read: what is made of the answer
    opened,     \* per request and read: the version current when it arrived
    cause       \* per request: what failed

vars == <<history, phase, op, claim, adapter, status, result, opened, cause>>

-----------------------------------------------------------------------------
(* A line is [TipDocument, Moneda, Rest], its Rest a text of so many cents *)
(* with so many commas and points in it.                                   *)

(* Number(text.replace(',', '.')): one comma becomes the point, a second   *)
(* mark makes the text no number.                                          *)
ToNumber(rest) == IF rest.marks <= 1 THEN rest.cents ELSE NaN

Plus(a, b) == IF NaN \in {a, b} THEN NaN ELSE a + b

(* Math.round of an amount in cents: to the nearest unit, halves upwards.  *)
MathRound(amount) == IF amount = NaN THEN NaN ELSE (amount + 50) \div 100

(* Variant: every amount is rounded before it is added.                    *)
AccumulateRounded(dict, line) ==
    LET number == ToNumber(line.Rest)
        amount == IF number = NaN THEN NaN ELSE 100 * MathRound(number)
    IN  [m \in DOMAIN dict \cup {line.Moneda} |->
            IF m # line.Moneda THEN dict[m]
            ELSE IF m \in DOMAIN dict THEN Plus(dict[m], amount) ELSE amount]

(* One line into the dictionary of its document.                           *)
Accumulate(dict, line) ==
    LET amount == ToNumber(line.Rest)
    IN  [m \in DOMAIN dict \cup {line.Moneda} |->
            IF m # line.Moneda THEN dict[m]
            ELSE IF m \in DOMAIN dict THEN Plus(dict[m], amount) ELSE amount]

NoCurrency == [m \in {} |-> 0]

(* The loop over one answer: the dictionary of doc after each of its lines. *)
DictionaryAfter(answer, doc) ==
    LET after[i \in 0 .. Len(answer)] ==
            IF i = 0 THEN NoCurrency
            ELSE IF answer[i].TipDocument = doc THEN Accumulate(after[i - 1], answer[i])
            ELSE after[i - 1]
    IN  after

(* The dictionaries after the last line, rounded.                          *)
SideTotals(answer) ==
    [doc \in Documents |->
        LET dict == DictionaryAfter(answer, doc)[Len(answer)]
        IN  [m \in DOMAIN dict |-> MathRound(dict[m])]]

(* toFixed(2) of an amount in tenths of a cent, in cents: halves outwards. *)
ToFixed(amount) ==
    CASE amount = NaN -> NaN
      [] amount # NaN /\ amount >= 0 -> (amount + 5) \div 10
      [] OTHER -> -((5 - amount) \div 10)

(* WmeMapper on a purchase invoice; its amounts are texts of tenths of a   *)
(* cent.  Names, notes and dates are copied and left out.                  *)
ToPurchaseInvoiceItem(raw) ==
    [price |-> ToNumber(raw.Pret), quantity |-> ToNumber(raw.Cant),
     taxable |-> raw.Impozabil = "DA"]

ToPurchaseInvoice(raw) ==
    [documentKind |-> IF raw.TipDocument = "BON FISCAL" THEN "Receipt"
                      ELSE "PurchaseInvoice",
     total |-> ToFixed(ToNumber(raw.Valoare)),
     purchaseInvoiceItems |->
         IF raw.Items = None THEN None
         ELSE [i \in DOMAIN raw.Items |-> ToPurchaseInvoiceItem(raw.Items[i])]]

(* What the reply holds of one answer.  The rows of the other two lists    *)
(* are the ERP's under the names of the domain.                            *)
Result(s, answer) ==
    CASE s \in Sides -> SideTotals(answer)
      [] s = "invoices" -> [i \in DOMAIN answer |-> ToPurchaseInvoice(answer[i])]
      [] s \in {"partners", "items"} -> answer

-----------------------------------------------------------------------------
NetworkErrors == {"ECONNREFUSED", "ENETUNREACH", "ETIMEDOUT"}
Codes == NetworkErrors \cup {"other"}

(* An unreachable peer becomes an HttpException of status 503.             *)
NetworkErrorInterceptor(err) ==
    IF err.code \in NetworkErrors THEN [err EXCEPT !.http = 503] ELSE err

(* An HttpException keeps its status, everything else is 500.              *)
AllExceptionsFilter(err) == IF err.http = None THEN 500 ELSE err.http

Throw(r, source, code) ==
    /\ phase' = [phase EXCEPT ![r] = "answered"]
    /\ status' = [status EXCEPT ![r] = AllExceptionsFilter(
                     NetworkErrorInterceptor([http |-> None, code |-> code]))]
    /\ cause' = [cause EXCEPT ![r] = source]
    /\ UNCHANGED <<history, op, claim, adapter, result, opened>>

Init ==
    /\ history = [t \in Tenants |-> [s \in Reads |-> <<FirstBooks[t][s]>>]]
    /\ phase = [r \in Requests |-> "idle"]
    /\ op = [r \in Requests |-> None]
    /\ claim = [r \in Requests |-> None]
    /\ adapter = [r \in Requests |-> None]
    /\ status = [r \in Requests |-> None]
    /\ result = [r \in Requests |-> [s \in Reads |-> None]]
    /\ opened = [r \in Requests |-> [s \in Reads |-> 0]]
    /\ cause = [r \in Requests |-> None]

(* JwtGuard has accepted a token that names tenant c.  Every signed token  *)
(* names one (tenant_id is NOT NULL), so the test of tenantId passes.      *)
Arrive(r, o, c) ==
    /\ phase[r] = "idle"
    /\ phase' = [phase EXCEPT ![r] = "lookup"]
    /\ op' = [op EXCEPT ![r] = o]
    /\ claim' = [claim EXCEPT ![r] = c]
    /\ opened' = [opened EXCEPT ![r] =
                     [s \in Reads |-> IF c = Missing THEN 0 ELSE Len(history[c][s])]]
    /\ UNCHANGED <<history, adapter, status, result, cause>>

(* The database fails to answer findOneById.                               *)
FindTenantFails(r) ==
    /\ phase[r] = "lookup"
    /\ \E code \in Codes : Throw(r, "database", code)

(* No such tenant, a configuration that decrypt cannot read, or SoftOne,   *)
(* whose operations are not implemented.                                   *)
NoAdapter(r) ==
    /\ phase[r] = "lookup"
    /\ claim[r] \notin WmeTenants
    /\ Throw(r, "program", "other")

(* The first call of the ERP is sent.                                      *)
FirstRead(r) ==
    phase' = [phase EXCEPT ![r] = IF op[r] = "dashboard" THEN "receivable" ELSE op[r]]

(* Variant: the adapter of whoever asked before is used again.             *)
GetAdapterCached(r) ==
    /\ phase[r] = "lookup"
    /\ claim[r] \in WmeTenants
    /\ FirstRead(r)
    /\ \E t \in {adapter[q] : q \in Requests} \cup {claim[r]} :
          /\ t # None
          /\ adapter' = [adapter EXCEPT ![r] = t]
    /\ UNCHANGED <<history, op, claim, status, result, opened, cause>>

(* Variant: the row is not looked at before the adapter is built.          *)
GetAdapterUnchecked(r) ==
    /\ phase[r] = "lookup"
    /\ FirstRead(r)
    /\ adapter' = [adapter EXCEPT ![r] = claim[r]]
    /\ UNCHANGED <<history, op, claim, status, result, opened, cause>>

(* The tenant's configuration in a new WmeAdapter, for this request only.  *)
GetAdapterForTenant(r) ==
    /\ phase[r] = "lookup"
    /\ claim[r] \in WmeTenants
    /\ FirstRead(r)
    /\ adapter' = [adapter EXCEPT ![r] = claim[r]]
    /\ UNCHANGED <<history, op, claim, status, result, opened, cause>>

(* The ERP of the adapter answers call s with its present rows.            *)
Read(r, s, next) ==
    /\ phase[r] = s
    /\ phase' = [phase EXCEPT ![r] = next]
    /\ result' = [result EXCEPT ![r][s] = Result(s, Last(history[adapter[r]][s]))]
    /\ status' = [status EXCEPT ![r] = IF next = "answered" THEN 200 ELSE @]
    /\ UNCHANGED <<history, op, claim, adapter, opened, cause>>

GetAccountsReceivable(r) == Read(r, "receivable", "payable")
GetAccountPayable(r) == Read(r, "payable", "answered")
GetPartners(r) == Read(r, "partners", "answered")
GetItems(r) == Read(r, "items", "answered")
GetPurchaseInvoices(r) == Read(r, "invoices", "answered")

(* A call fails, or is answered with something that holds no such rows.    *)
ReadFails(r) ==
    /\ phase[r] \in Reads
    /\ \E code \in Codes : Throw(r, "erp", code)

Posts == MapThenSumSet(LAMBDA k : Len(history[k[1]][k[2]]) - 1, WmeTenants \X Reads)

(* The tenant's books change, by documents and payments nobody here sees.  *)
Post(t, s) ==
    /\ Posts < MaxPosts
    /\ \E a \in Answers[s] : history' = [history EXCEPT ![t][s] = Append(@, a)]
    /\ UNCHANGED <<phase, op, claim, adapter, status, result, opened, cause>>

Next ==
    \/ \E r \in Requests :
          \/ \E o \in Lists \cup {"dashboard"}, c \in Tenants \cup {Missing} : Arrive(r, o, c)
          \/ FindTenantFails(r) \/ NoAdapter(r) \/ GetAdapterForTenant(r)
          \/ GetAccountsReceivable(r) \/ GetAccountPayable(r)
          \/ GetPartners(r) \/ GetItems(r) \/ GetPurchaseInvoices(r) \/ ReadFails(r)
    \/ \E t \in WmeTenants, s \in Reads : Post(t, s)

Spec == Init /\ [][Next]_vars

-----------------------------------------------------------------------------
TypeOK ==
    /\ DOMAIN history = Tenants
    /\ \A t \in Tenants :
          /\ DOMAIN history[t] = Reads
          /\ \A s \in Reads : history[t][s] \in Seq(Answers[s])
    /\ phase \in [Requests -> {"idle", "lookup", "answered"} \cup Reads]
    /\ op \in [Requests -> Lists \cup {"dashboard", None}]
    /\ claim \in [Requests -> Tenants \cup {Missing, None}]
    /\ adapter \in [Requests -> Tenants \cup {None}]
    /\ status \in [Requests -> {200, 500, 503, None}]
    /\ DOMAIN result = Requests
    /\ \A r \in Requests : DOMAIN result[r] = Reads
    /\ opened \in [Requests -> [Reads -> Nat]]
    /\ cause \in [Requests -> {"database", "erp", "program", None}]

(* A reply shows what the ERP of the caller's own tenant held at some      *)
(* moment between the request and the reply, each side of a dashboard at   *)
(* its own, whoever else asks meanwhile (erp.service.ts:19,                *)
(* wme.adapter.ts:118, 167).                                               *)
OwnBooks ==
    \A r \in Requests : status[r] = 200 =>
        \A s \in ReadsOf(op[r]) :
            \E n \in opened[r][s] .. Len(history[claim[r]][s]) :
                result[r][s] = Result(s, history[claim[r]][s][n])

(* The cents of a set of an answer's lines, summed up to each line.        *)
CentsUpTo(answer, lines) ==
    LET sum[i \in 0 .. Len(answer)] ==
            IF i = 0 THEN 0
            ELSE sum[i - 1] + (IF i \in lines THEN answer[i].Rest.cents ELSE 0)
    IN  sum

(* The totals of one side, against the exact sums of an answer's lines:    *)
(* one total per currency, within half a unit of the sum, and no number    *)
(* where a line cannot be read.                                            *)
Exact(answer, total, doc) ==
    LET lines == {i \in DOMAIN answer : answer[i].TipDocument = doc}
        In(m) == {i \in lines : answer[i].Moneda = m}
    IN  /\ DOMAIN total = {answer[i].Moneda : i \in lines}
        /\ \A m \in DOMAIN total :
              IF \E i \in In(m) : answer[i].Rest.marks > 1
              THEN total[m] = NaN
              ELSE /\ total[m] # NaN
                   /\ 100 * total[m] - CentsUpTo(answer, In(m))[Len(answer)] \in -50 .. 50

(* Whatever the books hold, a dashboard's totals are exact for a version   *)
(* of the books of the caller's tenant since the request; documents of     *)
(* other kinds count nowhere (wme.adapter.ts:126-165, 173-213).            *)
TotalsExact ==
    \A r \in Requests : status[r] = 200 /\ op[r] = "dashboard" =>
        \A s \in Sides :
            \E n \in opened[r][s] .. Len(history[claim[r]][s]) :
                \A doc \in Documents :
                    Exact(history[claim[r]][s][n], result[r][s][doc], doc)

(* What the filter's comment says of an outage of the database: it is an   *)
(* unexpected error, reported as 500 (all-exceptions.filter.ts:47).        *)
OutageIsInternalError ==
    \A r \in Requests : cause[r] = "database" => status[r] = 500

=============================================================================
