---------------------------- MODULE ReceiptLedger ----------------------------
(***************************************************************************)
(* What a receipt upload promises its caller, with storage, recognition    *)
(* and transactions left out: an upload is recorded at most once, never    *)
(* after it was answered; "created" is answered only for a recorded        *)
(* upload; an error the service itself reports means it is not recorded.   *)
(* A caller that is left without a reply, or gets an unforeseen error,     *)
(* knows nothing.                                                          *)
(***************************************************************************)
CONSTANTS Scans

VARIABLES
    recorded,   \* uploads that have a receipt
    answer      \* per upload: what its caller was told, "none" before

vars == <<recorded, answer>>

Reported == {"badRequest", "internalError"}
Answers == {"created", "unhandled", "lost"} \cup Reported

Init ==
    /\ recorded = {}
    /\ answer = [r \in Scans |-> "none"]

Record(r) ==
    /\ answer[r] = "none"
    /\ r \notin recorded
    /\ recorded' = recorded \cup {r}
    /\ UNCHANGED answer

Answer(r, a) ==
    /\ answer[r] = "none"
    /\ a = "created" => r \in recorded
    /\ a \in Reported => r \notin recorded
    /\ answer' = [answer EXCEPT ![r] = a]
    /\ UNCHANGED recorded

(* The process dies: every caller still waiting hears nothing.             *)
Disconnect(S) ==
    /\ \A r \in S : answer[r] = "none"
    /\ answer' = [r \in Scans |-> IF r \in S THEN "lost" ELSE answer[r]]
    /\ UNCHANGED recorded

Next ==
    \/ \E r \in Scans : Record(r) \/ \E a \in Answers : Answer(r, a)
    \/ \E S \in SUBSET Scans : Disconnect(S)

Spec == Init /\ [][Next]_vars

=============================================================================
