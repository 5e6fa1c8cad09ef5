--------------------------- MODULE SessionRegister ---------------------------
(***************************************************************************)
(* What the session endpoints promise, with tokens, cookies, clocks and    *)
(* hashes left out: each user has a session that is open or closed, a      *)
(* request is admitted once and then either takes effect or is abandoned,  *)
(* and a request that needs a session is admitted only while it is open.   *)
(*                                                                         *)
(* The effect of an admitted request is unconditional: admission and       *)
(* effect are two steps, and other requests may take effect in between.    *)
(***************************************************************************)
CONSTANTS
    Users,
    Requests,
    None        \* no ticket; not a Ticket

VARIABLES
    open,       \* the user has a session that refresh and logout may use
    ticket      \* what an admitted request will do, or None

vars == <<open, ticket>>

Ticket == [op: {"login", "refresh", "logout"}, user: Users]

TypeOK ==
    /\ open \in [Users -> BOOLEAN]
    /\ ticket \in [Requests -> Ticket \cup {None}]

Init ==
    /\ open = [u \in Users |-> FALSE]
    /\ ticket = [r \in Requests |-> None]

Admit(r, op, u) ==
    /\ ticket[r] = None
    /\ op \in {"refresh", "logout"} => open[u]
    /\ ticket' = [ticket EXCEPT ![r] = [op |-> op, user |-> u]]
    /\ UNCHANGED open

TakeEffect(r) ==
    /\ ticket[r] # None
    /\ open' = [open EXCEPT ![ticket[r].user] = (ticket[r].op # "logout")]
    /\ ticket' = [ticket EXCEPT ![r] = None]

Abandon(r) ==
    /\ ticket[r] # None
    /\ ticket' = [ticket EXCEPT ![r] = None]
    /\ UNCHANGED open

Next ==
    \E r \in Requests :
        \/ \E op \in {"login", "refresh", "logout"}, u \in Users : Admit(r, op, u)
        \/ TakeEffect(r)
        \/ Abandon(r)

Spec == Init /\ [][Next]_vars

=============================================================================
