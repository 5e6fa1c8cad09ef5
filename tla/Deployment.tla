------------------------------ MODULE Deployment ------------------------------
(***************************************************************************)
(* What a deployment promises whoever operates the API, with processes,    *)
(* transactions and locks left out: the database goes from the version it  *)
(* has to the last one in one step, which is taken only over data that fit *)
(* every migration on the way and which loses none of them; undoing a      *)
(* migration loses the rows of the tables it had created, and no others;   *)
(* the API serves at the last version only.                                *)
(***************************************************************************)
EXTENDS Integers, Sequences

CONSTANTS
    Containers,
    Creates,        \* per migration: the tables it creates
    NeedsEmpty      \* per migration: the tables that must have no rows

VARIABLES
    version,        \* how many migrations have been run
    rows,           \* the tables that have rows
    serving         \* the containers that serve

vars == <<version, rows, serving>>

Last == Len(NeedsEmpty)

Existing == UNION {Creates[i] : i \in 1..version}

Init ==
    /\ version \in 0..Last
    /\ rows \in SUBSET Existing
    /\ serving = {}

Deploy ==
    /\ version < Last
    /\ \A i \in (version + 1)..Last : NeedsEmpty[i] \cap rows = {}
    /\ version' = Last
    /\ UNCHANGED <<rows, serving>>

Undo ==
    /\ version > 0 /\ serving = {}
    /\ version' = version - 1
    /\ rows' = rows \ Creates[version]
    /\ UNCHANGED serving

(* An upload stores rows in some tables at once.                           *)
Store(T) ==
    /\ T \subseteq Existing
    /\ rows' = rows \cup T
    /\ UNCHANGED <<version, serving>>

Serve(c) ==
    /\ version = Last
    /\ serving' = serving \cup {c}
    /\ UNCHANGED <<version, rows>>

Stop(c) ==
    /\ serving' = serving \ {c}
    /\ UNCHANGED <<version, rows>>

Next ==
    \/ Deploy \/ Undo
    \/ \E T \in SUBSET Existing : Store(T)
    \/ \E c \in Containers : Serve(c) \/ Stop(c)

Spec == Init /\ [][Next]_vars

=============================================================================
