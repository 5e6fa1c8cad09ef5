--------------------------- MODULE MCErpRequests ----------------------------
(* Two requests; two tenants with an ERP that answers, one on SoftOne, and *)
(* one that is gone.  The balances hold ties, negative amounts, a second   *)
(* currency, both documents, one that does not count, and amounts that     *)
(* cannot be read.                                                         *)
EXTENDS ErpRequests

CONSTANTS r1, r2, t1, t2, t3, row

Line(tip, moneda, cents, marks) ==
    [TipDocument |-> tip, Moneda |-> moneda, Rest |-> [cents |-> cents, marks |-> marks]]

Tie == Line("Factura", "RON", 50, 1)
Negative == Line("Factura", "RON", -150, 1)
Unreadable == Line("Factura", "RON", 123456, 2)

Mixed == << Line("Factura", "RON", -150, 1), Line("Avans", "EUR", 149, 1),
            Line("Storno", "RON", 500, 0), Line("Factura", "EUR", 700, 0),
            Line("Avans", "EUR", 123456, 2), Line("Factura", "RON", 101, 1) >>

Balances == {<<>>, Mixed, << Tie, Tie >>, << Tie, Negative >>,
             << Negative, Negative >>, << Unreadable, Tie >>}

MCRequests == {r1, r2}
MCTenants == {t1, t2, t3}
MCErp == [t \in MCTenants |-> IF t = t3 THEN "softone" ELSE "wme"]

Text(n, m) == [cents |-> n, marks |-> m]
Invoice == [TipDocument |-> "FACTURA", Valoare |-> Text(12345, 1), Items |-> None]
Slip == [TipDocument |-> "BON FISCAL", Valoare |-> Text(-12344, 2),
         Items |-> << [Pret |-> Text(500, 1), Cant |-> Text(2000, 0), Impozabil |-> "DA"] >>]

MCAnswers ==
    [s \in Reads |->
        CASE s \in Sides -> Balances
          [] s = "invoices" -> {<<>>, << Slip, Invoice >>}
          [] OTHER -> {<<>>, << row >>}]
MCFirstBooks ==
    [t \in MCTenants |-> [s \in Reads |->
        CASE s = "receivable" -> IF t = t1 THEN Mixed ELSE << Tie, Tie >>
          [] s = "invoices"   -> IF t = t1 THEN << Slip, Invoice >> ELSE <<>>
          [] s = "items"      -> IF t = t1 THEN << row >> ELSE <<>>
          [] OTHER            -> <<>>]]

Symmetry == Permutations(MCRequests)
=============================================================================
