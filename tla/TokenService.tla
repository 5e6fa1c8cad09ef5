----------------------------- MODULE TokenService -----------------------------
(***************************************************************************)
(* What SoftoneAdapter.getToken promises its callers, with the flag, the   *)
(* kept promise, the cache and the callbacks left out: a login is running, *)
(* or has succeeded, or failed.  A caller takes the token there is; else   *)
(* it waits for the login that runs; else it begins one.  Nobody logs in   *)
(* twice at once or again after a success, and everybody is told how the   *)
(* login it waited for ended.                                              *)
(***************************************************************************)
CONSTANTS
    Callers,
    Logins,         \* bound: logins that may be begun
    None            \* the login of a caller that has not called

VARIABLES
    login,          \* per login: unused, running, succeeded or failed
    caller          \* per caller: idle, the login it awaits, or its result

vars == <<login, caller>>

Idle == [kind |-> "idle", of |-> None]

Init ==
    /\ login = [l \in Logins |-> "unused"]
    /\ caller = [c \in Callers |-> Idle]

(* There is a token.                                                       *)
Reuse(c, l) ==
    /\ caller[c] = Idle
    /\ login[l] = "succeeded"
    /\ caller' = [caller EXCEPT ![c] = [kind |-> "token", of |-> l]]
    /\ UNCHANGED login

(* There will be one, or an error.                                         *)
Join(c, l) ==
    /\ caller[c] = Idle
    /\ login[l] = "running"
    /\ caller' = [caller EXCEPT ![c] = [kind |-> "await", of |-> l]]
    /\ UNCHANGED login

(* Nobody is logged in or logging in.                                      *)
Begin(c, l) ==
    /\ caller[c] = Idle
    /\ login[l] = "unused"
    /\ \A m \in Logins : login[m] \in {"unused", "failed"}
    /\ login' = [login EXCEPT ![l] = "running"]
    /\ caller' = [caller EXCEPT ![c] = [kind |-> "await", of |-> l]]

End(l, outcome) ==
    /\ login[l] = "running"
    /\ login' = [login EXCEPT ![l] = outcome]
    /\ UNCHANGED caller

(* A caller is told how its login ended.                                   *)
Answer(c) ==
    /\ caller[c].kind = "await"
    /\ login[caller[c].of] \in {"succeeded", "failed"}
    /\ caller' = [caller EXCEPT ![c].kind =
                     IF login[caller[c].of] = "succeeded" THEN "token" ELSE "error"]
    /\ UNCHANGED login

Next ==
    \/ \E c \in Callers, l \in Logins : Reuse(c, l) \/ Join(c, l) \/ Begin(c, l)
    \/ \E l \in Logins, outcome \in {"succeeded", "failed"} : End(l, outcome)
    \/ \E c \in Callers : Answer(c)

Spec == Init /\ [][Next]_vars

=============================================================================
