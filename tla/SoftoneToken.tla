---------------------------- MODULE SoftoneToken ----------------------------
(***************************************************************************)
(* SoftoneAdapter.getToken: one login for all callers of one adapter.      *)
(*                                                                         *)
(* A flow is one authenticateFlow with the then and finally chained to it: *)
(*   login -> authenticate -> fulfilled -> stored -> kept                  *)
(*        \-> rejected ----------------------------> failed                *)
(* The fields of the adapter change only in getToken itself and in the two *)
(* callbacks, each a turn of its own, between which any caller may run.    *)
(***************************************************************************)
EXTENDS Naturals

CONSTANTS
    Callers,        \* calls of getToken, each made once
    Flows,          \* bound: flows that may be started
    None

ASSUME NoneAssumption == None \notin Flows

VARIABLES
    clientId,           \* the cached token, named by the flow that got it
    isAuthenticating,
    authPromise,        \* the flow whose promise is kept, or None
    flow,               \* state of each flow
    caller              \* per call: idle, the flow it awaits, or its result

vars == <<clientId, isAuthenticating, authPromise, flow, caller>>

FlowStates == {"unused", "login", "authenticate", "fulfilled", "stored",
               "kept", "rejected", "failed"}

InFlight(f) == flow[f] \in {"login", "authenticate"}
Settled(f)  == flow[f] \in {"kept", "failed"}

Results == [kind: {"token"}, of: Flows] \cup [kind: {"error"}, of: Flows]
Awaits  == [kind: {"await"}, of: Flows]
Idle    == [kind |-> "idle", of |-> None]

Init ==
    /\ clientId = None
    /\ isAuthenticating = FALSE
    /\ authPromise = None
    /\ flow = [f \in Flows |-> "unused"]
    /\ caller = [c \in Callers |-> Idle]

(* The token is there.                                                     *)
ReturnCached(c) ==
    /\ caller[c] = Idle
    /\ clientId # None
    /\ caller' = [caller EXCEPT ![c] = [kind |-> "token", of |-> clientId]]
    /\ UNCHANGED <<clientId, isAuthenticating, authPromise, flow>>

(* A flow is under way: share its promise.                                 *)
JoinFlow(c) ==
    /\ caller[c] = Idle
    /\ clientId = None
    /\ isAuthenticating /\ authPromise # None
    /\ caller' = [caller EXCEPT ![c] = [kind |-> "await", of |-> authPromise]]
    /\ UNCHANGED <<clientId, isAuthenticating, authPromise, flow>>

(* Nobody is at it: start a flow, up to its first await in the same turn.  *)
StartFlowFlagged(c, f, flag) ==
    /\ caller[c] = Idle
    /\ clientId = None
    /\ ~(isAuthenticating /\ authPromise # None)
    /\ flow[f] = "unused"
    /\ isAuthenticating' = flag
    /\ authPromise' = f
    /\ flow' = [flow EXCEPT ![f] = "login"]
    /\ caller' = [caller EXCEPT ![c] = [kind |-> "await", of |-> f]]
    /\ UNCHANGED clientId

(* Variant: the flag is never raised.                                      *)
StartFlowNoFlag(c, f) == StartFlowFlagged(c, f, isAuthenticating)

StartFlow(c, f) == StartFlowFlagged(c, f, TRUE)

Step(f, from, to) ==
    /\ flow[f] = from
    /\ flow' = [flow EXCEPT ![f] = to]

(* login answers with success: authenticate is called with its clientID.   *)
LoginSucceeds(f) ==
    /\ Step(f, "login", "authenticate")
    /\ UNCHANGED <<clientId, isAuthenticating, authPromise, caller>>

AuthenticateSucceeds(f) ==
    /\ Step(f, "authenticate", "fulfilled")
    /\ UNCHANGED <<clientId, isAuthenticating, authPromise, caller>>

(* Either call throws, or answers success: false, or login names no        *)
(* company: authenticateFlow rejects.                                      *)
FlowFails(f) ==
    /\ Step(f, "login", "rejected") \/ Step(f, "authenticate", "rejected")
    /\ UNCHANGED <<clientId, isAuthenticating, authPromise, caller>>

(* The then callback.                                                      *)
Then(f) ==
    /\ Step(f, "fulfilled", "stored")
    /\ clientId' = f
    /\ UNCHANGED <<isAuthenticating, authPromise, caller>>

(* Variant: the flag is lowered in the then callback only.                 *)
FinallyOnSuccess(f) ==
    /\ Step(f, "stored", "kept") \/ Step(f, "rejected", "failed")
    /\ isAuthenticating' = (isAuthenticating /\ flow[f] = "rejected")
    /\ UNCHANGED <<clientId, authPromise, caller>>

(* The finally callback, after which the shared promise is settled.        *)
Finally(f) ==
    /\ Step(f, "stored", "kept") \/ Step(f, "rejected", "failed")
    /\ isAuthenticating' = FALSE
    /\ UNCHANGED <<clientId, authPromise, caller>>

(* Variant: the outcome is ignored and the cache returned as it is.        *)
ResumeWithCache(c) ==
    /\ caller[c].kind = "await"
    /\ Settled(caller[c].of)
    /\ caller' = [caller EXCEPT ![c] = [kind |-> "token", of |-> clientId]]
    /\ UNCHANGED <<clientId, isAuthenticating, authPromise, flow>>

(* A caller resumes with the outcome of the promise it was given.          *)
Resume(c) ==
    /\ caller[c].kind = "await"
    /\ Settled(caller[c].of)
    /\ caller' = [caller EXCEPT ![c].kind =
                     IF flow[caller[c].of] = "kept" THEN "token" ELSE "error"]
    /\ UNCHANGED <<clientId, isAuthenticating, authPromise, flow>>

Next ==
    \/ \E c \in Callers :
          \/ ReturnCached(c) \/ JoinFlow(c) \/ Resume(c)
          \/ \E f \in Flows : StartFlow(c, f)
    \/ \E f \in Flows :
          \/ LoginSucceeds(f) \/ AuthenticateSucceeds(f) \/ FlowFails(f)
          \/ Then(f) \/ Finally(f)

Spec == Init /\ [][Next]_vars

-----------------------------------------------------------------------------

TypeOK ==
    /\ clientId \in Flows \cup {None}
    /\ isAuthenticating \in BOOLEAN
    /\ authPromise \in Flows \cup {None}
    /\ flow \in [Flows -> FlowStates]
    /\ caller \in [Callers -> Results \cup Awaits \cup {Idle}]

(* Two logins of one adapter are never outstanding at once, however calls  *)
(* and answers interleave (the flag and the promise, softone.adapter.ts:67)*)
SingleFlight == \A f, g \in Flows : InFlight(f) /\ InFlight(g) => f = g

(* A failed login is not handed to those who come later: a call that waits *)
(* was given a promise that was still open, so the first call after a      *)
(* failure tries again (finally, softone.adapter.ts:78).                   *)
FailureNotShared ==
    [][\A c \in Callers :
          caller[c] = Idle /\ caller'[c].kind = "await" => ~Settled(caller'[c].of)]_vars

(* All tokens handed out by one adapter are the cached one: no two callers *)
(* ever work with different sessions of the ERP (softone.adapter.ts:75).   *)
CallersAgree ==
    \A c \in Callers : caller[c].kind = "token" => caller[c].of = clientId

-----------------------------------------------------------------------------
(* Refinement: a flow succeeds with its then, for from there on its token  *)
(* is handed out, and fails with its finally, for until then it is joined. *)

Outcome(f) ==
    CASE flow[f] = "unused" -> "unused"
      [] flow[f] \in {"login", "authenticate", "fulfilled", "rejected"} -> "running"
      [] flow[f] \in {"stored", "kept"} -> "succeeded"
      [] flow[f] = "failed" -> "failed"

Service == INSTANCE TokenService WITH
    Logins <- Flows,
    login <- [f \in Flows |-> Outcome(f)]

(* The flag, the promise and the cache together are one login: whatever    *)
(* turns of callers fall between the two callbacks, a login is begun only  *)
(* when none runs and none has succeeded, and everybody gets the outcome   *)
(* of the login that ran when it called (softone.adapter.ts:64).           *)
ImplementsTokenService == Service!Spec

=============================================================================
