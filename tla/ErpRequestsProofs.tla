------------------------- MODULE ErpRequestsProofs --------------------------
(***************************************************************************)
(* Whose books a reply shows, for any number of requests, tenants and      *)
(* changes of the books, and that the totals made of an answer of any      *)
(* length are exact.                                                       *)
(***************************************************************************)
EXTENDS ErpRequests, FiniteSetTheorems, TLAPS

-----------------------------------------------------------------------------
(* The totals of an answer.  The prover does not instantiate the induction *)
(* theorems of the library, which take an operator; this one takes a set.  *)

(* A set that holds 0 and the successor of each of its numbers holds all.  *)
LEMMA NatSetInduction ==
    ASSUME NEW S, 0 \in S, \A n \in Nat : n \in S => n + 1 \in S
    PROVE  Nat \subseteq S
<1>. SUFFICES ASSUME NEW k \in Nat, k \notin S PROVE FALSE
  OBVIOUS
<1> DEFINE F == {0 .. i : i \in Nat \ S}
           R == StrictSubsetOrdering(Nat)
<1>1. F \subseteq FiniteSubsetsOf(Nat)
  <2>1. \A i \in Nat : 0 .. i \subseteq Nat /\ IsFiniteSet(0 .. i)
    BY FS_Interval
  <2>. QED
    BY <2>1 DEF FiniteSubsetsOf
<1>2. F # {}
  OBVIOUS
<1>3. IsWellFoundedOn(R, FiniteSubsetsOf(Nat))
  BY FS_StrictSubsetOrderingWellFounded
<1> HIDE DEF F, R
<1>4. PICK T \in F : \A U \in F : ~(<<U, T>> \in R)
  BY <1>1, <1>2, <1>3, WFMin
<1>5. PICK i \in Nat \ S : T = 0 .. i
  BY DEF F
<1>6. i # 0 /\ i - 1 \in Nat
  BY <1>5
<1>7. i - 1 \in Nat \ S
  BY <1>6
<1>8. 0 .. (i - 1) \in F
  BY <1>7 DEF F
<1>9. 0 .. (i - 1) \subseteq 0 .. i /\ i \in 0 .. i /\ i \notin 0 .. (i - 1)
  BY <1>5
<1>10. 0 .. (i - 1) \subseteq Nat /\ 0 .. i \subseteq Nat
  BY <1>5
<1>11. <<0 .. (i - 1), T>> \in R
  BY <1>5, <1>9, <1>10 DEF R, StrictSubsetOrdering
<1>. QED
  BY <1>4, <1>8, <1>11

(* The recursive functions of the module satisfy their equations: there is *)
(* a function that does, for every length.                                 *)
LEMMA DictionaryUnfolds ==
    ASSUME NEW answer, NEW doc, Len(answer) \in Nat
    PROVE  DictionaryAfter(answer, doc) =
               [i \in 0 .. Len(answer) |->
                   IF i = 0 THEN NoCurrency
                   ELSE IF answer[i].TipDocument = doc
                        THEN Accumulate(DictionaryAfter(answer, doc)[i - 1], answer[i])
                   ELSE DictionaryAfter(answer, doc)[i - 1]]
<1> DEFINE Step(d, i) == IF answer[i].TipDocument = doc THEN Accumulate(d, answer[i]) ELSE d
           Eq(g, n) == g = [i \in 0 .. n |-> IF i = 0 THEN NoCurrency ELSE Step(g[i - 1], i)]
           S == {n \in Nat : \E g : Eq(g, n)}
<1>4. DictionaryAfter(answer, doc) = CHOOSE g : Eq(g, Len(answer))
  BY DEF DictionaryAfter
<1> HIDE DEF Step
<1>1. 0 \in S
  <2>1. Eq([i \in 0 .. 0 |-> NoCurrency], 0)
    OBVIOUS
  <2>. QED
    BY <2>1
<1>2. ASSUME NEW n \in Nat, n \in S PROVE n + 1 \in S
  <2>1. PICK g : Eq(g, n)
    BY <1>2
  <2> DEFINE h == [i \in 0 .. n + 1 |-> IF i <= n THEN g[i] ELSE Step(g[n], n + 1)]
  <2>2. \A i \in 0 .. n + 1 : h[i] = IF i = 0 THEN NoCurrency ELSE Step(h[i - 1], i)
    <3>. SUFFICES ASSUME NEW i \in 0 .. n + 1
                  PROVE  h[i] = IF i = 0 THEN NoCurrency ELSE Step(h[i - 1], i)
      OBVIOUS
    <3>1. CASE i <= n
      BY <2>1, <3>1
    <3>2. CASE i = n + 1
      BY <3>2
    <3>. QED
      BY <3>1, <3>2
  <2>3. Eq(h, n + 1)
    BY <2>2
  <2> HIDE DEF h
  <2>4. \E f : Eq(f, n + 1)
    BY <2>3
  <2>. QED
    BY <2>4
<1>3. Len(answer) \in S
  BY <1>1, <1>2, NatSetInduction
<1>5. Eq(DictionaryAfter(answer, doc), Len(answer))
  BY <1>3, <1>4
<1>. QED
  BY <1>5 DEF Step

(* The same for the sums of the reference.                                 *)
LEMMA CentsUnfold ==
    ASSUME NEW answer, NEW lines, Len(answer) \in Nat
    PROVE  CentsUpTo(answer, lines) =
               [i \in 0 .. Len(answer) |->
                   IF i = 0 THEN 0
                   ELSE CentsUpTo(answer, lines)[i - 1]
                           + (IF i \in lines THEN answer[i].Rest.cents ELSE 0)]
<1> DEFINE Step(d, i) == d + (IF i \in lines THEN answer[i].Rest.cents ELSE 0)
           Eq(g, n) == g = [i \in 0 .. n |-> IF i = 0 THEN 0 ELSE Step(g[i - 1], i)]
           S == {n \in Nat : \E g : Eq(g, n)}
<1>1. CentsUpTo(answer, lines) = CHOOSE g : Eq(g, Len(answer))
  BY DEF CentsUpTo
<1> HIDE DEF Step
<1>2. 0 \in S
  <2>1. Eq([i \in 0 .. 0 |-> 0], 0)
    OBVIOUS
  <2>. QED
    BY <2>1
<1>3. ASSUME NEW n \in Nat, n \in S PROVE n + 1 \in S
  <2>1. PICK g : Eq(g, n)
    BY <1>3
  <2> DEFINE h == [i \in 0 .. n + 1 |-> IF i <= n THEN g[i] ELSE Step(g[n], n + 1)]
  <2>2. \A i \in 0 .. n + 1 : h[i] = IF i = 0 THEN 0 ELSE Step(h[i - 1], i)
    <3>. SUFFICES ASSUME NEW i \in 0 .. n + 1
                  PROVE  h[i] = IF i = 0 THEN 0 ELSE Step(h[i - 1], i)
      OBVIOUS
    <3>1. CASE i <= n
      BY <2>1, <3>1
    <3>2. CASE i = n + 1
      BY <3>2
    <3>. QED
      BY <3>1, <3>2
  <2>3. Eq(h, n + 1)
    BY <2>2
  <2> HIDE DEF h
  <2>4. \E f : Eq(f, n + 1)
    BY <2>3
  <2>. QED
    BY <2>4
<1>4. Len(answer) \in S
  BY <1>2, <1>3, NatSetInduction
<1>5. Eq(CentsUpTo(answer, lines), Len(answer))
  BY <1>1, <1>4
<1>. QED
  BY <1>5 DEF Step

(* The lines of an answer that count for a document, and for a currency.   *)
LinesTo(answer, doc, i) == {j \in 1 .. i : answer[j].TipDocument = doc}
LinesOf(answer, doc, m) ==
    {j \in DOMAIN answer : answer[j].TipDocument = doc /\ answer[j].Moneda = m}

(* What an answer is made of.                                              *)
LEMMA ShapeOfAnswer ==
    ASSUME NEW answer \in Seq(BalanceLine)
    PROVE  /\ Len(answer) \in Nat /\ DOMAIN answer = 1 .. Len(answer)
           /\ \A i \in 1 .. Len(answer) :
                  answer[i].Rest.cents \in Int /\ answer[i].Rest.marks \in Nat
<1>1. /\ Len(answer) \in Nat /\ DOMAIN answer = 1 .. Len(answer)
      /\ \A i \in 1 .. Len(answer) : answer[i] \in BalanceLine
  OBVIOUS
<1>2. \A line \in BalanceLine : line.Rest.cents \in Int /\ line.Rest.marks \in Nat
  BY DEF BalanceLine
<1>. QED
  BY <1>1, <1>2

(* Sums of cents are integers, and 0 before the first line that counts.    *)
LEMMA CentsAreIntegers ==
    ASSUME NEW answer \in Seq(BalanceLine), NEW lines
    PROVE  \A i \in 0 .. Len(answer) :
               /\ CentsUpTo(answer, lines)[i] \in Int
               /\ (\A j \in 1 .. i : j \notin lines) => CentsUpTo(answer, lines)[i] = 0
<1> DEFINE C == CentsUpTo(answer, lines)
           n == Len(answer)
           S == {i \in Nat : i <= n => /\ C[i] \in Int
                                       /\ (\A j \in 1 .. i : j \notin lines) => C[i] = 0}
<1>1. n \in Nat /\ \A i \in 1 .. n : answer[i].Rest.cents \in Int
  BY ShapeOfAnswer
<1>2. C = [i \in 0 .. n |->
              IF i = 0 THEN 0
              ELSE C[i - 1] + (IF i \in lines THEN answer[i].Rest.cents ELSE 0)]
  BY <1>1, CentsUnfold
<1> HIDE DEF C, n
<1>3. 0 \in S
  BY <1>1, <1>2
<1>4. ASSUME NEW i \in Nat, i \in S PROVE i + 1 \in S
  <2>. SUFFICES ASSUME i + 1 <= n
                PROVE  /\ C[i + 1] \in Int
                       /\ (\A j \in 1 .. i + 1 : j \notin lines) => C[i + 1] = 0
    OBVIOUS
  <2>1. C[i + 1] = C[i] + (IF i + 1 \in lines THEN answer[i + 1].Rest.cents ELSE 0)
    BY <1>1, <1>2
  <2>2. C[i] \in Int /\ ((\A j \in 1 .. i : j \notin lines) => C[i] = 0)
    BY <1>1, <1>4
  <2>3. i + 1 \in 1 .. n
    BY <1>1
  <2>. QED
    BY <1>1, <2>1, <2>2, <2>3
<1>5. Nat \subseteq S
  BY <1>3, <1>4, NatSetInduction
<1>. QED
  BY <1>1, <1>5 DEF C, n

(* What the dictionary of a document holds after each line: the currencies *)
(* met so far, and for each the sum of its cents, or NaN once one of its   *)
(* texts was no number.                                                    *)
SumsOK(answer, doc, i) ==
    LET dict == DictionaryAfter(answer, doc)[i]
    IN  /\ DOMAIN dict = {answer[j].Moneda : j \in LinesTo(answer, doc, i)}
        /\ \A m \in DOMAIN dict :
              IF \E j \in LinesTo(answer, doc, i) :
                     answer[j].Moneda = m /\ answer[j].Rest.marks > 1
              THEN dict[m] = NaN
              ELSE /\ dict[m] \in Int
                   /\ dict[m] = CentsUpTo(answer, LinesOf(answer, doc, m))[i]

(* One line more: its currency is new, or met before, or the line is of    *)
(* another kind of document.                                               *)
LEMMA LineKeepsSums ==
    ASSUME LinesAssumption, NEW answer \in Seq(BalanceLine), NEW doc,
           NEW i \in Nat, i + 1 <= Len(answer), SumsOK(answer, doc, i)
    PROVE  SumsOK(answer, doc, i + 1)
<1> DEFINE n == Len(answer)
           D == DictionaryAfter(answer, doc)
           C(m) == CentsUpTo(answer, LinesOf(answer, doc, m))
           L == LinesTo(answer, doc, i)
           line == answer[i + 1]
<1>1. /\ n \in Nat /\ DOMAIN answer = 1 .. n /\ i + 1 \in 1 .. n /\ i \in 0 .. n
      /\ line.Rest.cents \in Int /\ line.Rest.marks \in Nat
  BY ShapeOfAnswer
<1>2. D[i + 1] = IF line.TipDocument = doc THEN Accumulate(D[i], line) ELSE D[i]
  BY <1>1, DictionaryUnfolds
<1>3. \A m : C(m)[i + 1] = C(m)[i] + (IF i + 1 \in LinesOf(answer, doc, m)
                                         THEN line.Rest.cents ELSE 0)
  BY <1>1, CentsUnfold
<1>4. \A m : i + 1 \in LinesOf(answer, doc, m) <=> line.TipDocument = doc /\ line.Moneda = m
  BY <1>1 DEF LinesOf
<1>5. \A m : C(m)[i] \in Int
  BY <1>1, CentsAreIntegers
<1>6. \A m : (\A j \in L : answer[j].Moneda # m) => C(m)[i] = 0
  <2>. SUFFICES ASSUME NEW m, \A j \in L : answer[j].Moneda # m PROVE C(m)[i] = 0
    OBVIOUS
  <2>1. \A j \in 1 .. i : j \notin LinesOf(answer, doc, m)
    BY DEF LinesOf, LinesTo
  <2>. QED
    BY <1>1, <2>1, CentsAreIntegers
<1>7. LinesTo(answer, doc, i + 1) = IF line.TipDocument = doc THEN L \cup {i + 1} ELSE L
  BY <1>1 DEF LinesTo
<1>8. /\ DOMAIN D[i] = {answer[j].Moneda : j \in L}
      /\ \A m \in DOMAIN D[i] :
            IF \E j \in L : answer[j].Moneda = m /\ answer[j].Rest.marks > 1
            THEN D[i][m] = NaN
            ELSE D[i][m] \in Int /\ D[i][m] = C(m)[i]
  BY DEF SumsOK
<1> HIDE DEF D, C, L, n
<1>9. CASE line.TipDocument # doc
  <2>1. D[i + 1] = D[i] /\ LinesTo(answer, doc, i + 1) = L /\ \A m : C(m)[i + 1] = C(m)[i]
    BY <1>2, <1>3, <1>4, <1>5, <1>7, <1>9
  <2>. QED
    BY <1>8, <2>1 DEF SumsOK, D, C
<1>10. CASE line.TipDocument = doc
  <2> DEFINE amount == ToNumber(line.Rest)
             dict == D[i + 1]
             K == L \cup {i + 1}
  <2>1. dict = [m \in DOMAIN D[i] \cup {line.Moneda} |->
                   IF m # line.Moneda THEN D[i][m]
                   ELSE IF m \in DOMAIN D[i] THEN Plus(D[i][m], amount) ELSE amount]
    BY <1>2, <1>10 DEF Accumulate
  <2>2. DOMAIN dict = {answer[j].Moneda : j \in K}
    BY <1>8, <2>1
  <2>3. IF line.Rest.marks > 1 THEN amount = NaN ELSE amount = line.Rest.cents
    BY <1>1 DEF ToNumber
  <2>4. ASSUME NEW m \in DOMAIN dict
        PROVE  IF \E j \in K : answer[j].Moneda = m /\ answer[j].Rest.marks > 1
               THEN dict[m] = NaN
               ELSE dict[m] \in Int /\ dict[m] = C(m)[i + 1]
    <3>1. CASE m # line.Moneda
      <4>1. m \in DOMAIN D[i] /\ dict[m] = D[i][m]
        BY <2>1, <2>4, <3>1
      <4>2. C(m)[i + 1] = C(m)[i]
        BY <1>3, <1>4, <1>5, <3>1
      <4>3. (\E j \in K : answer[j].Moneda = m /\ answer[j].Rest.marks > 1)
               <=> (\E j \in L : answer[j].Moneda = m /\ answer[j].Rest.marks > 1)
        BY <3>1
      <4>. QED
        BY <1>8, <4>1, <4>2, <4>3
    <3>2. CASE m = line.Moneda /\ m \in DOMAIN D[i]
      <4>1. dict[m] = Plus(D[i][m], amount)
        BY <2>1, <3>2
      <4>2. C(m)[i + 1] = C(m)[i] + line.Rest.cents
        BY <1>3, <1>4, <1>10, <3>2
      <4>3. (\E j \in K : answer[j].Moneda = m /\ answer[j].Rest.marks > 1)
               <=> \/ \E j \in L : answer[j].Moneda = m /\ answer[j].Rest.marks > 1
                   \/ line.Rest.marks > 1
        BY <3>2
      <4>4. IF \E j \in L : answer[j].Moneda = m /\ answer[j].Rest.marks > 1
            THEN D[i][m] = NaN
            ELSE D[i][m] \in Int /\ D[i][m] = C(m)[i]
        BY <1>8, <3>2
      <4>5. D[i][m] \in Int /\ amount \in Int => NaN \notin {D[i][m], amount}
        BY LinesAssumption
      <4> HIDE DEF amount, dict, K
      <4>. QED
        BY <1>1, <2>3, <4>1, <4>2, <4>3, <4>4, <4>5 DEF Plus
    <3>3. CASE m = line.Moneda /\ m \notin DOMAIN D[i]
      <4>1. dict[m] = amount
        BY <2>1, <3>3
      <4>2. \A j \in L : answer[j].Moneda # m
        BY <1>8, <3>3
      <4>3. C(m)[i + 1] = C(m)[i] + line.Rest.cents /\ C(m)[i] = 0
        BY <1>3, <1>4, <1>6, <1>10, <3>3, <4>2
      <4>4. (\E j \in K : answer[j].Moneda = m /\ answer[j].Rest.marks > 1)
               <=> line.Rest.marks > 1
        BY <3>3, <4>2
      <4> HIDE DEF amount, dict, K
      <4>. QED
        BY <1>1, <2>3, <4>1, <4>3, <4>4
    <3>. QED
      BY <2>1, <2>4, <3>1, <3>2, <3>3
  <2>5. K = LinesTo(answer, doc, i + 1)
    BY <1>7, <1>10
  <2> HIDE DEF dict, K
  <2>. QED
    BY <2>2, <2>4, <2>5 DEF SumsOK, dict, D, C
<1>. QED
  BY <1>9, <1>10

(* So after the last line, for any number of lines.                        *)
LEMMA DictionarySums ==
    ASSUME LinesAssumption, NEW answer \in Seq(BalanceLine), NEW doc
    PROVE  SumsOK(answer, doc, Len(answer))
<1> DEFINE S == {i \in Nat : i <= Len(answer) => SumsOK(answer, doc, i)}
<1>1. Len(answer) \in Nat
  BY ShapeOfAnswer
<1>2. 0 \in S
  <2>1. DictionaryAfter(answer, doc)[0] = NoCurrency
    BY <1>1, DictionaryUnfolds
  <2>2. DOMAIN NoCurrency = {} /\ LinesTo(answer, doc, 0) = {}
    BY DEF NoCurrency, LinesTo
  <2>3. SumsOK(answer, doc, 0)
    BY <2>1, <2>2 DEF SumsOK
  <2>. QED
    BY <2>3
<1>3. ASSUME NEW i \in Nat, i \in S PROVE i + 1 \in S
  BY <1>1, <1>3, LineKeepsSums
<1>4. Nat \subseteq S
  BY <1>2, <1>3, NatSetInduction
<1>. QED
  BY <1>1, <1>4

(* Rounding moves a sum by half a unit at most.                            *)
LEMMA RoundedByHalf ==
    ASSUME LinesAssumption, NEW amount \in Int
    PROVE  /\ MathRound(amount) \in Int
           /\ 100 * MathRound(amount) - amount \in -50 .. 50
  BY LinesAssumption DEF MathRound

(* The totals made of any answer are exact.                                *)
LEMMA SideTotalsExact ==
    ASSUME LinesAssumption, NEW answer \in Seq(BalanceLine), NEW doc \in Documents
    PROVE  Exact(answer, SideTotals(answer)[doc], doc)
<1> DEFINE n == Len(answer)
           dict == DictionaryAfter(answer, doc)[n]
           total == SideTotals(answer)[doc]
           lines == {i \in DOMAIN answer : answer[i].TipDocument = doc}
<1>1. n \in Nat /\ DOMAIN answer = 1 .. n
  BY ShapeOfAnswer
<1>2. total = [m \in DOMAIN dict |-> MathRound(dict[m])]
  BY DEF SideTotals
<1>3. lines = LinesTo(answer, doc, n)
  BY <1>1 DEF LinesTo
<1>4. /\ DOMAIN dict = {answer[j].Moneda : j \in lines}
      /\ \A m \in DOMAIN dict :
            IF \E j \in lines : answer[j].Moneda = m /\ answer[j].Rest.marks > 1
            THEN dict[m] = NaN
            ELSE dict[m] \in Int /\ dict[m] = CentsUpTo(answer, LinesOf(answer, doc, m))[n]
  BY <1>3, DictionarySums DEF SumsOK
<1>5. \A m : LinesOf(answer, doc, m) = {i \in lines : answer[i].Moneda = m}
  BY DEF LinesOf
<1> HIDE DEF dict, total, lines
<1>6. DOMAIN total = {answer[i].Moneda : i \in lines}
  BY <1>2, <1>4
<1>7. ASSUME NEW m \in DOMAIN total
      PROVE  LET In == {i \in lines : answer[i].Moneda = m}
             IN  IF \E i \in In : answer[i].Rest.marks > 1
                 THEN total[m] = NaN
                 ELSE /\ total[m] # NaN
                      /\ 100 * total[m] - CentsUpTo(answer, In)[n] \in -50 .. 50
  <2>1. m \in DOMAIN dict /\ total[m] = MathRound(dict[m])
    BY <1>2
  <2>2. CASE \E j \in lines : answer[j].Moneda = m /\ answer[j].Rest.marks > 1
    <3>1. total[m] = NaN
      BY <1>4, <2>1, <2>2 DEF MathRound
    <3>. QED
      BY <2>2, <3>1
  <2>3. CASE ~ \E j \in lines : answer[j].Moneda = m /\ answer[j].Rest.marks > 1
    <3>1. dict[m] \in Int /\ dict[m] = CentsUpTo(answer, LinesOf(answer, doc, m))[n]
      BY <1>4, <2>1, <2>3
    <3>2. total[m] \in Int /\ 100 * total[m] - dict[m] \in -50 .. 50
      BY <2>1, <3>1, RoundedByHalf
    <3>3. total[m] # NaN
      BY <3>2, LinesAssumption
    <3>. QED
      BY <1>5, <2>3, <3>1, <3>2, <3>3
  <2>. QED
    BY <2>2, <2>3
<1>. QED
  BY <1>6, <1>7 DEF Exact, lines, total, n

-----------------------------------------------------------------------------
(* Whose books a reply shows.                                              *)

(* What r replies of read s is a version of the books of r's own tenant    *)
(* that was current after r arrived.                                       *)
FromOwnBooks(r, s) ==
    \E n \in opened[r][s] .. Len(history[claim[r]][s]) :
        result[r][s] = Result(s, history[claim[r]][s][n])

(* Versions are only added, and there is always one.                       *)
HistoryOK == \A t \in Tenants, s \in Reads : Len(history[t][s]) >= 1

(* Once built, an adapter is the one of the tenant in the caller's token.  *)
AdapterOK(r) ==
    phase[r] \in Reads \/ status[r] = 200 =>
        /\ adapter[r] = claim[r] /\ claim[r] \in Tenants
        /\ \A s \in Reads : opened[r][s] \in 1 .. Len(history[claim[r]][s])

ReadOK(r) ==
    /\ phase[r] = "payable" => FromOwnBooks(r, "receivable")
    /\ phase[r] \in Sides => op[r] = "dashboard"
    /\ phase[r] \in Lists => phase[r] = op[r]
    /\ phase[r] # "idle" => op[r] \in Lists \cup {"dashboard"}
    /\ status[r] = 200 =>
           phase[r] = "answered" /\ \A s \in ReadsOf(op[r]) : FromOwnBooks(r, s)
    /\ phase[r] = "lookup" /\ claim[r] \in Tenants =>
           \A s \in Reads : opened[r][s] \in 1 .. Len(history[claim[r]][s])

IInv == TypeOK /\ HistoryOK /\ \A r \in Requests : AdapterOK(r) /\ ReadOK(r)

USE ErpAssumption, BooksAssumption

LEMMA WmeAreTenants == WmeTenants \subseteq Tenants
  BY DEF WmeTenants

(* What a sequence of one row, and one row more, look like.                *)
LEMMA OneRow == ASSUME NEW S, NEW a \in S PROVE <<a>> \in Seq(S) /\ Len(<<a>>) = 1
  OBVIOUS

LEMMA OneRowMore ==
    ASSUME NEW S, NEW h \in Seq(S), NEW a \in S
    PROVE  /\ Append(h, a) \in Seq(S)
           /\ Len(h) \in Nat /\ Len(Append(h, a)) = Len(h) + 1
           /\ \A n \in 1 .. Len(h) : Append(h, a)[n] = h[n]
  OBVIOUS

LEMMA InitIInv == Init => IInv
<1>1. SUFFICES ASSUME Init PROVE IInv
  OBVIOUS
<1>2. \A t \in Tenants, s \in Reads :
          history[t][s] \in Seq(Answers[s]) /\ Len(history[t][s]) = 1
  <2>1. SUFFICES ASSUME NEW t \in Tenants, NEW s \in Reads
                 PROVE  history[t][s] \in Seq(Answers[s]) /\ Len(history[t][s]) = 1
    OBVIOUS
  <2>2. FirstBooks[t][s] \in Answers[s] /\ history[t][s] = <<FirstBooks[t][s]>>
    BY <1>1 DEF Init
  <2>3. <<FirstBooks[t][s]>> \in Seq(Answers[s]) /\ Len(<<FirstBooks[t][s]>>) = 1
    BY <2>2, OneRow, Zenon
  <2> QED BY <2>2, <2>3, Zenon
<1>3. TypeOK
  BY <1>1, <1>2 DEF Init, TypeOK
<1>4. HistoryOK
  <2>1. SUFFICES ASSUME NEW t \in Tenants, NEW s \in Reads
                 PROVE  Len(history[t][s]) >= 1
    BY DEF HistoryOK
  <2>2. Len(history[t][s]) = 1
    BY <1>2
  <2> QED BY <2>2
<1>5. \A r \in Requests : AdapterOK(r) /\ ReadOK(r)
  BY <1>1 DEF Init, AdapterOK, ReadOK, Reads, Sides, Lists
<1> QED BY <1>3, <1>4, <1>5 DEF IInv

(* The last version of the books is one of the versions since any moment.  *)
LEMMA LastVersion ==
    ASSUME IInv, NEW r \in Requests, NEW s \in Reads, phase[r] = s
    PROVE  \E n \in opened[r][s] .. Len(history[claim[r]][s]) :
               Last(history[adapter[r]][s]) = history[claim[r]][s][n]
<1> DEFINE h == history[claim[r]][s]
<1>1. adapter[r] = claim[r] /\ claim[r] \in Tenants /\ opened[r][s] \in 1 .. Len(h)
  BY DEF IInv, AdapterOK
<1>2. h \in Seq(Answers[s]) /\ Len(h) \in Nat
  BY <1>1 DEF IInv, TypeOK
<1>3. Last(h) = h[Len(h)]
  BY DEF Last
<1> HIDE DEF h
<1>4. Len(h) \in opened[r][s] .. Len(h) 
  BY <1>1, <1>2
<1> QED BY <1>1, <1>3, <1>4 DEF h

(* A step of one request that leaves the books alone disturbs no other.    *)
LEMMA OneRequestPreserves ==
    ASSUME IInv, TypeOK', NEW r \in Requests, history' = history,
           \A q \in Requests \ {r} :
               /\ phase'[q] = phase[q] /\ claim'[q] = claim[q]
               /\ adapter'[q] = adapter[q] /\ result'[q] = result[q] /\ op'[q] = op[q]
               /\ status'[q] = status[q] /\ opened'[q] = opened[q],
           AdapterOK(r)', ReadOK(r)'
    PROVE  IInv'
<1>1. HistoryOK'
  BY DEF IInv, HistoryOK
<1>2. ASSUME NEW q \in Requests \ {r} PROVE AdapterOK(q)' /\ ReadOK(q)'
  <2>1. AdapterOK(q) /\ ReadOK(q)
    BY DEF IInv
  <2>2. \A s : FromOwnBooks(q, s)' <=> FromOwnBooks(q, s)
    BY DEF FromOwnBooks
  <2>3. AdapterOK(q)'
    BY <2>1 DEF AdapterOK
  <2>4. ReadOK(q)'
    <3>1. /\ phase'[q] = phase[q] /\ op'[q] = op[q] /\ claim'[q] = claim[q]
          /\ status'[q] = status[q] /\ opened'[q] = opened[q] /\ history' = history
      OBVIOUS
    <3>2. ReadsOf(op[q])' = ReadsOf(op[q])
      BY <3>1 DEF ReadsOf
    <3> QED BY <2>1, <2>2, <3>1, <3>2 DEF ReadOK
  <2> QED BY <2>3, <2>4
<1> QED BY <1>1, <1>2 DEF IInv

(* An error ends the request with a status that is not 200.                *)
LEMMA ThrowPreserves ==
    ASSUME IInv, NEW r \in Requests, NEW source \in {"database", "erp", "program"},
           NEW code \in Codes, phase[r] \notin {"idle", "answered"}, Throw(r, source, code)
    PROVE  IInv'
<1>1. status' \in [Requests -> {200, 500, 503, None}] /\ status'[r] \in {500, 503}
  BY DEF IInv, TypeOK, Throw, AllExceptionsFilter, NetworkErrorInterceptor
<1>2. TypeOK'
  BY <1>1 DEF IInv, TypeOK, Throw
<1>3. AdapterOK(r)' /\ ReadOK(r)'
  <2>1. phase'[r] = "answered" /\ status'[r] # 200 /\ op'[r] = op[r]
    BY <1>1 DEF IInv, TypeOK, Throw
  <2>2. op[r] \in Lists \cup {"dashboard"}
    BY DEF IInv, ReadOK
  <2> QED BY <2>1, <2>2 DEF AdapterOK, ReadOK, Reads, Sides, Lists
<1> QED BY <1>2, <1>3, OneRequestPreserves DEF IInv, TypeOK, Throw

(* An answer of the ERP of r's own tenant.                                 *)
LEMMA ReadPreserves ==
    ASSUME IInv, NEW r \in Requests, NEW s \in Reads,
           NEW next \in {"payable", "answered"}, Read(r, s, next),
           next = "payable" <=> s = "receivable"
    PROVE  IInv'
<1>1. TypeOK'
  <2>1. phase' \in [Requests -> {"idle", "lookup", "answered"} \cup Reads]
    BY DEF IInv, TypeOK, Read, Reads, Sides
  <2>2. status' \in [Requests -> {200, 500, 503, None}]
    BY DEF IInv, TypeOK, Read
  <2>3. DOMAIN result' = Requests /\ \A q \in Requests : DOMAIN result'[q] = Reads
    BY DEF IInv, TypeOK, Read
  <2> QED BY <2>1, <2>2, <2>3 DEF IInv, TypeOK, Read
<1>2. FromOwnBooks(r, s)'
  <2>1. result'[r][s] = Result(s, Last(history[adapter[r]][s]))
    BY DEF IInv, TypeOK, Read
  <2> QED BY <2>1, LastVersion DEF Read, FromOwnBooks
<1>3. s = "payable" => FromOwnBooks(r, "receivable")'
  BY DEF IInv, TypeOK, Read, ReadOK, FromOwnBooks, Reads, Sides
<1>4. AdapterOK(r)'
  BY DEF IInv, TypeOK, Read, AdapterOK
<1>5. status[r] # 200
  BY DEF IInv, Read, ReadOK, Reads, Sides, Lists
<1>6. ReadOK(r)'
  BY <1>2, <1>3, <1>5
  DEF IInv, TypeOK, Read, ReadOK, ReadsOf, Reads, Sides, Lists
<1> QED BY <1>1, <1>4, <1>6, OneRequestPreserves DEF IInv, TypeOK, Read

(* New versions only lengthen the history.                                 *)
LEMMA PostPreserves ==
    ASSUME IInv, NEW t \in WmeTenants, NEW s \in Reads, Post(t, s)
    PROVE  IInv'
<1>1. PICK a \in Answers[s] : history' = [history EXCEPT ![t][s] = Append(@, a)]
  BY DEF Post
<1>2. t \in Tenants
  BY WmeAreTenants
<1>3. \A u \in Tenants, z \in Reads :
          /\ history'[u][z] \in Seq(Answers[z])
          /\ Len(history[u][z]) \in Nat
          /\ Len(history'[u][z]) \in Nat
          /\ Len(history'[u][z]) >= Len(history[u][z])
          /\ \A n \in 1 .. Len(history[u][z]) : history'[u][z][n] = history[u][z][n]
  <2>1. SUFFICES ASSUME NEW u \in Tenants, NEW z \in Reads
                 PROVE  /\ history'[u][z] \in Seq(Answers[z])
                        /\ Len(history[u][z]) \in Nat
                        /\ Len(history'[u][z]) \in Nat
                        /\ Len(history'[u][z]) >= Len(history[u][z])
                        /\ \A n \in 1 .. Len(history[u][z]) :
                               history'[u][z][n] = history[u][z][n]
    OBVIOUS
  <2>2. history[u][z] \in Seq(Answers[z])
    BY DEF IInv, TypeOK
  <2>3. history'[u][z] = IF u = t /\ z = s THEN Append(history[u][z], a) ELSE history[u][z]
    BY <1>1, <1>2 DEF IInv, TypeOK
  <2>4. CASE u = t /\ z = s
    <3> DEFINE h == history[u][z]
    <3>1. history'[u][z] = Append(h, a)
      BY <2>3, <2>4
    <3>2. h \in Seq(Answers[z]) /\ a \in Answers[z]
      BY <2>2, <2>4
    <3> HIDE DEF h
    <3>3. /\ Append(h, a) \in Seq(Answers[z])
          /\ Len(h) \in Nat /\ Len(Append(h, a)) = Len(h) + 1
          /\ \A n \in 1 .. Len(h) : Append(h, a)[n] = h[n]
      BY <3>2, OneRowMore
    <3>4. history'[u][z] \in Seq(Answers[z])
      BY <3>1, <3>3, Zenon
    <3>5. Len(history'[u][z]) = Len(h) + 1
      BY <3>1, <3>3, Zenon
    <3>6. Len(history'[u][z]) \in Nat /\ Len(history'[u][z]) >= Len(h)
      BY <3>3, <3>5
    <3>7. \A n \in 1 .. Len(h) : history'[u][z][n] = h[n]
      BY <3>1, <3>3, Zenon
    <3> QED BY <3>3, <3>4, <3>6, <3>7, Zenon DEF h
  <2>5. CASE ~(u = t /\ z = s)
    <3>1. Len(history[u][z]) \in Nat
      BY <2>2
    <3> QED BY <2>2, <2>3, <2>5, <3>1
  <2> QED BY <2>4, <2>5
<1>4. TypeOK'
  BY <1>1, <1>2, <1>3 DEF IInv, TypeOK, Post
<1>5. HistoryOK'
  BY <1>3 DEF IInv, HistoryOK
<1>6. ASSUME NEW r \in Requests PROVE AdapterOK(r)' /\ ReadOK(r)'
  <2>1. ASSUME NEW z \in Reads, claim[r] \in Tenants,
               opened[r][z] \in 1 .. Len(history[claim[r]][z])
        PROVE  /\ opened[r][z] \in 1 .. Len(history'[claim[r]][z])
               /\ FromOwnBooks(r, z) => FromOwnBooks(r, z)'
    BY <1>3, <2>1 DEF FromOwnBooks, Post
  <2>2. AdapterOK(r) /\ ReadOK(r)
    BY DEF IInv
  <2>3. AdapterOK(r)'
    BY <2>1, <2>2 DEF AdapterOK, Post
  <2>4. ReadOK(r)'
    BY <2>1, <2>2 DEF AdapterOK, ReadOK, ReadsOf, Post, Reads, Sides, Lists
  <2> QED BY <2>3, <2>4
<1> QED BY <1>4, <1>5, <1>6 DEF IInv

LEMMA StepIInv == IInv /\ [Next]_vars => IInv'
<1>1. SUFFICES ASSUME IInv, [Next]_vars PROVE IInv'
  OBVIOUS
<1> USE <1>1
<1>2. ASSUME NEW r \in Requests, NEW o \in Lists \cup {"dashboard"},
             NEW c \in Tenants \cup {Missing}, Arrive(r, o, c)
      PROVE  IInv'
  <2>1. c \in Tenants => \A s \in Reads : Len(history[c][s]) \in Nat /\ Len(history[c][s]) >= 1
    BY DEF IInv, TypeOK, HistoryOK
  <2>2. TypeOK'
    BY <1>2, <2>1 DEF IInv, TypeOK, Arrive
  <2>3. AdapterOK(r)' /\ ReadOK(r)'
    BY <1>2, <2>1 DEF IInv, TypeOK, Arrive, AdapterOK, ReadOK, Reads, Sides, Lists
  <2> QED BY <1>2, <2>2, <2>3, OneRequestPreserves DEF IInv, TypeOK, Arrive
<1>3. ASSUME NEW r \in Requests, FindTenantFails(r) PROVE IInv'
  BY <1>3, ThrowPreserves DEF FindTenantFails
<1>4. ASSUME NEW r \in Requests, NoAdapter(r) PROVE IInv'
  BY <1>4, ThrowPreserves DEF NoAdapter, Codes
<1>5. ASSUME NEW r \in Requests, GetAdapterForTenant(r) PROVE IInv'
  <2>1. TypeOK'
    BY <1>5, WmeAreTenants
    DEF IInv, TypeOK, ReadOK, GetAdapterForTenant, FirstRead, Reads, Sides, Lists
  <2>2. AdapterOK(r)' /\ ReadOK(r)'
    BY <1>5, WmeAreTenants
    DEF IInv, TypeOK, GetAdapterForTenant, FirstRead, AdapterOK, ReadOK, Reads, Sides, Lists
  <2> QED BY <1>5, <2>1, <2>2, OneRequestPreserves
          DEF IInv, TypeOK, GetAdapterForTenant, FirstRead
<1>6. ASSUME NEW r \in Requests, GetAccountsReceivable(r) PROVE IInv'
  BY <1>6, ReadPreserves DEF GetAccountsReceivable, Reads, Sides
<1>7. ASSUME NEW r \in Requests, GetAccountPayable(r) PROVE IInv'
  BY <1>7, ReadPreserves DEF GetAccountPayable, Reads, Sides
<1>8. ASSUME NEW r \in Requests, GetPartners(r) \/ GetItems(r) \/ GetPurchaseInvoices(r)
      PROVE  IInv'
  BY <1>8, ReadPreserves DEF GetPartners, GetItems, GetPurchaseInvoices, Reads, Lists
<1>9. ASSUME NEW r \in Requests, ReadFails(r) PROVE IInv'
  BY <1>9, ThrowPreserves DEF ReadFails, Reads, Sides, Lists
<1>10. ASSUME NEW t \in WmeTenants, NEW s \in Reads, Post(t, s) PROVE IInv'
  BY <1>10, PostPreserves
<1>11. CASE UNCHANGED vars
  BY <1>11 DEF vars, IInv, TypeOK, HistoryOK, AdapterOK, ReadOK, FromOwnBooks
<1> QED BY <1>1, <1>2, <1>3, <1>4, <1>5, <1>6, <1>7, <1>8, <1>9, <1>10, <1>11 DEF Next

LEMMA Inductive == Spec => []IInv
  BY InitIInv, StepIInv, PTL DEF Spec

(* Every reachable state is well typed.                                    *)
THEOREM TypeCorrect == Spec => []TypeOK
<1>1. IInv => TypeOK
  BY DEF IInv
<1> QED BY Inductive, <1>1, PTL

(* No reply shows another tenant's books, nor books older than the request *)
(* (erp.service.ts:19).                                                    *)
THEOREM OwnReplies == Spec => []OwnBooks
<1>1. IInv => OwnBooks
  BY DEF IInv, ReadOK, FromOwnBooks, OwnBooks
<1> QED BY Inductive, <1>1, PTL

(* For any number of requests and tenants, any books and any number of     *)
(* lines: the totals of a dashboard are exact for a version of the books   *)
(* since the request (wme.adapter.ts:126-165, 173-213).                    *)
THEOREM DashboardsExact == Spec => []TotalsExact
<1>1. IInv => TotalsExact
  <2>. SUFFICES ASSUME IInv, NEW r \in Requests, status[r] = 200, op[r] = "dashboard",
                       NEW s \in Sides
                PROVE  \E n \in opened[r][s] .. Len(history[claim[r]][s]) :
                           \A doc \in Documents :
                               Exact(history[claim[r]][s][n], result[r][s][doc], doc)
    BY DEF TotalsExact
  <2>1. s \in Reads /\ ReadsOf(op[r]) = Sides
    BY DEF Reads, ReadsOf
  <2>2. /\ claim[r] \in Tenants /\ FromOwnBooks(r, s)
        /\ opened[r][s] \in 1 .. Len(history[claim[r]][s])
    BY <2>1 DEF IInv, AdapterOK, ReadOK
  <2> DEFINE h == history[claim[r]][s]
  <2>3. PICK n \in opened[r][s] .. Len(h) : result[r][s] = Result(s, h[n])
    BY <2>2 DEF FromOwnBooks
  <2>4. h \in Seq(Answers[s])
    BY <2>1, <2>2 DEF IInv, TypeOK
  <2>5. n \in 1 .. Len(h)
    BY <2>2, <2>3, <2>4
  <2>6. h[n] \in Answers[s]
    BY <2>4, <2>5
  <2>7. h[n] \in Seq(BalanceLine)
    BY <2>6, LinesAssumption
  <2>8. result[r][s] = SideTotals(h[n])
    BY <2>3 DEF Result, Sides
  <2> HIDE DEF h
  <2>9. \A doc \in Documents : Exact(h[n], result[r][s][doc], doc)
    BY <2>7, <2>8, SideTotalsExact, LinesAssumption
  <2>. QED
    BY <2>3, <2>9 DEF h
<1> QED BY Inductive, <1>1, PTL

=============================================================================
