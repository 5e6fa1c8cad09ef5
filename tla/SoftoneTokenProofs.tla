------------------------- MODULE SoftoneTokenProofs -------------------------
(***************************************************************************)
(* The single-flight login of SoftoneAdapter, for any number of callers    *)
(* and flows.  The flag alone does not say which flow it stands for; the   *)
(* strengthening ties the flag, the promise and the cache to the one flow  *)
(* that may be open.                                                       *)
(***************************************************************************)
EXTENDS SoftoneToken, TLAPS

Open(f) == flow[f] \in {"login", "authenticate", "fulfilled", "stored", "rejected"}

(* The only open flow is the one whose promise is kept, and the flag is up *)
(* exactly while it is open.                                               *)
FlagIsOpenFlow ==
    /\ \A f \in Flows : Open(f) => isAuthenticating /\ authPromise = f
    /\ isAuthenticating => authPromise # None /\ Open(authPromise)

(* The cache is empty until one flow fills it, and no flow starts after.   *)
CacheIsStoredFlow ==
    /\ \A f \in Flows : flow[f] \in {"stored", "kept"} => clientId = f
    /\ \A f \in Flows : Open(f) /\ flow[f] # "stored" => clientId = None
    /\ clientId # None => flow[clientId] \in {"stored", "kept"}

IInv == TypeOK /\ FlagIsOpenFlow /\ CacheIsStoredFlow /\ CallersAgree

LEMMA InitIInv == Init => IInv
<1>1. SUFFICES ASSUME Init PROVE IInv
  OBVIOUS
<1> USE <1>1 DEF Init, FlowStates, Idle
<1>2. TypeOK
  BY DEF TypeOK
<1>3. FlagIsOpenFlow /\ CacheIsStoredFlow
  BY DEF FlagIsOpenFlow, CacheIsStoredFlow, Open
<1>4. CallersAgree
  BY DEF CallersAgree
<1> QED BY <1>2, <1>3, <1>4 DEF IInv

(* Each step moves one caller or one flow; the flag falls with the last    *)
(* step of the open flow, which therefore stays the only one.              *)
LEMMA StepIInv == IInv /\ [Next]_vars => IInv'
<1>1. SUFFICES ASSUME IInv, [Next]_vars PROVE IInv'
  OBVIOUS
<1> USE NoneAssumption
<1> USE <1>1 DEF IInv, TypeOK, FlagIsOpenFlow, CacheIsStoredFlow, CallersAgree, Open,
             FlowStates, Results, Awaits, Idle
<1>2. ASSUME NEW c \in Callers, ReturnCached(c) PROVE IInv'
  BY <1>2 DEF ReturnCached
<1>3. ASSUME NEW c \in Callers, JoinFlow(c) PROVE IInv'
  BY <1>3 DEF JoinFlow
<1>4. ASSUME NEW c \in Callers, Resume(c) PROVE IInv'
  BY <1>4 DEF Resume, Settled
<1>5. ASSUME NEW c \in Callers, NEW f \in Flows, StartFlow(c, f) PROVE IInv'
  BY <1>5 DEF StartFlow, StartFlowFlagged
<1>6. ASSUME NEW f \in Flows, LoginSucceeds(f) PROVE IInv'
  BY <1>6 DEF LoginSucceeds, Step
<1>7. ASSUME NEW f \in Flows, AuthenticateSucceeds(f) PROVE IInv'
  BY <1>7 DEF AuthenticateSucceeds, Step
<1>8. ASSUME NEW f \in Flows, FlowFails(f) PROVE IInv'
  BY <1>8 DEF FlowFails, Step
<1>9. ASSUME NEW f \in Flows, Then(f) PROVE IInv'
  BY <1>9 DEF Then, Step
<1>10. ASSUME NEW f \in Flows, Finally(f) PROVE IInv'
  BY <1>10 DEF Finally, Step
<1>11. CASE UNCHANGED vars
  BY <1>11 DEF vars
<1> QED BY <1>1, <1>2, <1>3, <1>4, <1>5, <1>6, <1>7, <1>8, <1>9, <1>10, <1>11 DEF Next

LEMMA Inductive == Spec => []IInv
BY InitIInv, StepIInv, PTL DEF Spec

(* Every reachable state of the adapter is well typed.                     *)
THEOREM TypeCorrect == Spec => []TypeOK
<1>1. IInv => TypeOK
  BY DEF IInv
<1> QED BY Inductive, <1>1, PTL

(* At most one login of one adapter is outstanding (softone.adapter.ts:67).*)
THEOREM OneLogin == Spec => []SingleFlight
<1>1. IInv => SingleFlight
  BY DEF IInv, FlagIsOpenFlow, SingleFlight, InFlight, Open
<1> QED BY Inductive, <1>1, PTL

(* All callers of one adapter work with one token (softone.adapter.ts:75). *)
THEOREM OneToken == Spec => []CallersAgree
<1>1. IInv => CallersAgree
  BY DEF IInv
<1> QED BY Inductive, <1>1, PTL

(* A login that failed is never handed to a later call                     *)
(* (softone.adapter.ts:78).                                                *)
THEOREM FailuresEnd == Spec => FailureNotShared
<1> DEFINE Fresh == \A c \in Callers :
        caller[c] = Idle /\ caller'[c].kind = "await" => ~Settled(caller'[c].of)
<1>1. IInv /\ [Next]_vars => [Fresh]_vars
  <2>1. SUFFICES ASSUME IInv, Next, NEW c \in Callers,
                        caller[c] = Idle, caller'[c].kind = "await"
                 PROVE  ~Settled(caller'[c].of)
    OBVIOUS
  <2> USE NoneAssumption, <2>1 DEF IInv, TypeOK, FlagIsOpenFlow, Open, Settled, Idle
  <2>2. CASE JoinFlow(c)
    BY <2>2 DEF JoinFlow
  <2>3. ASSUME NEW f \in Flows, StartFlow(c, f) PROVE ~Settled(caller'[c].of)
    BY <2>3 DEF StartFlow, StartFlowFlagged
  <2>4. caller'[c] # caller[c]
    OBVIOUS
  <2>5. JoinFlow(c) \/ \E f \in Flows : StartFlow(c, f)
    BY <2>4 DEF Next, ReturnCached, JoinFlow, Resume, StartFlow, StartFlowFlagged,
                LoginSucceeds, AuthenticateSucceeds, FlowFails, Then, Finally
  <2> QED BY <2>2, <2>3, <2>5
<1> QED BY Inductive, <1>1, PTL DEF Spec, FailureNotShared

-----------------------------------------------------------------------------
(* Refinement of TokenService.                                             *)

loginBar == [f \in Flows |-> Outcome(f)]

(* A step of a flow within a stage is not seen, one to another stage is    *)
(* seen as that stage.                                                     *)
LEMMA OutcomeStep ==
    ASSUME TypeOK, NEW f \in Flows, NEW state \in FlowStates, NEW stage,
           flow' = [flow EXCEPT ![f] = state],
           /\ state = "unused" => stage = "unused"
           /\ state \in {"login", "authenticate", "fulfilled", "rejected"} => stage = "running"
           /\ state \in {"stored", "kept"} => stage = "succeeded"
           /\ state = "failed" => stage = "failed"
    PROVE  loginBar' = [loginBar EXCEPT ![f] = stage]
<1>1. \A g \in Flows : flow'[g] = IF g = f THEN state ELSE flow[g]
  BY DEF TypeOK
<1>2. Outcome(f)' = stage
  BY <1>1 DEF Outcome, FlowStates
<1>3. \A g \in Flows \ {f} : Outcome(g)' = Outcome(g)
  BY <1>1 DEF Outcome
<1>. QED
  BY <1>2, <1>3 DEF loginBar

LEMMA StageUnseen ==
    ASSUME NEW f \in Flows, loginBar' = [loginBar EXCEPT ![f] = Outcome(f)]
    PROVE  UNCHANGED loginBar
  BY DEF loginBar

(* A flow may start only when none runs and none has succeeded.            *)
LEMMA NothingToJoin ==
    ASSUME IInv, clientId = None, ~(isAuthenticating /\ authPromise # None)
    PROVE  \A f \in Flows : Outcome(f) \in {"unused", "failed"}
<1>. SUFFICES ASSUME NEW f \in Flows PROVE Outcome(f) \in {"unused", "failed"}
  OBVIOUS
<1>1. ~Open(f) /\ flow[f] # "kept" /\ flow[f] \in FlowStates
  BY NoneAssumption DEF IInv, TypeOK, FlagIsOpenFlow, CacheIsStoredFlow
<1>. QED
  BY <1>1 DEF Open, Outcome, FlowStates

(* For any number of callers and logins, getToken serves its callers as    *)
(* the token service does: one login at a time, none after a success, and  *)
(* to each the outcome of its own login (softone.adapter.ts:64).           *)
THEOREM Refinement == Spec => ImplementsTokenService
<1>1. Init => Service!Init
  BY DEF Init, Service!Init, Outcome, Idle, Service!Idle
<1>2. IInv /\ [Next]_vars => [Service!Next]_<<loginBar, caller>>
  <2>. SUFFICES ASSUME IInv, [Next]_vars
                PROVE  Service!Next \/ UNCHANGED <<loginBar, caller>>
    OBVIOUS
  <2>0. TypeOK
    BY DEF IInv
  <2>1. ASSUME NEW c \in Callers, ReturnCached(c)
        PROVE  \E f \in Flows : Service!Reuse(c, f)
    <3>1. clientId \in Flows /\ Outcome(clientId) = "succeeded"
      BY <2>0, <2>1 DEF ReturnCached, TypeOK, IInv, CacheIsStoredFlow, Outcome
    <3>2. UNCHANGED loginBar
      BY <2>1 DEF ReturnCached, loginBar, Outcome
    <3>3. PICK f \in Flows : f = clientId
      BY <3>1
    <3>4. Service!Reuse(c, f)
      BY <2>1, <3>1, <3>2, <3>3 DEF ReturnCached, Service!Reuse, loginBar, Idle, Service!Idle
    <3>. QED
      BY <3>4
  <2>2. ASSUME NEW c \in Callers, JoinFlow(c)
        PROVE  \E f \in Flows : Service!Join(c, f)
    <3>1. authPromise \in Flows /\ Outcome(authPromise) = "running"
      BY <2>0, <2>2, NoneAssumption
         DEF JoinFlow, TypeOK, IInv, FlagIsOpenFlow, CacheIsStoredFlow, Open, Outcome
    <3>2. UNCHANGED loginBar
      BY <2>2 DEF JoinFlow, loginBar, Outcome
    <3>3. PICK f \in Flows : f = authPromise
      BY <3>1
    <3>4. Service!Join(c, f)
      BY <2>2, <3>1, <3>2, <3>3 DEF JoinFlow, Service!Join, loginBar, Idle, Service!Idle
    <3>. QED
      BY <3>4
  <2>3. ASSUME NEW c \in Callers, NEW f \in Flows, StartFlow(c, f)
        PROVE  Service!Begin(c, f)
    <3>1. /\ caller[c] = Idle /\ flow[f] = "unused"
          /\ flow' = [flow EXCEPT ![f] = "login"]
          /\ caller' = [caller EXCEPT ![c] = [kind |-> "await", of |-> f]]
      BY <2>3 DEF StartFlow, StartFlowFlagged
    <3>2. \A g \in Flows : Outcome(g) \in {"unused", "failed"}
      BY <2>3, NothingToJoin DEF StartFlow, StartFlowFlagged
    <3>3. loginBar' = [loginBar EXCEPT ![f] = "running"]
      BY <2>0, <3>1, OutcomeStep DEF FlowStates
    <3>4. Outcome(f) = "unused"
      BY <3>1 DEF Outcome
    <3>. QED
      BY <3>1, <3>2, <3>3, <3>4 DEF Service!Begin, loginBar, Idle, Service!Idle
  <2>4. ASSUME NEW c \in Callers, Resume(c)
        PROVE  Service!Answer(c)
    <3>1. caller[c].of \in Flows
      BY <2>0, <2>4 DEF Resume, TypeOK, Results, Awaits, Idle
    <3>2. /\ flow[caller[c].of] = "kept" => Outcome(caller[c].of) = "succeeded"
          /\ flow[caller[c].of] = "failed" => Outcome(caller[c].of) = "failed"
      BY DEF Outcome
    <3>3. UNCHANGED loginBar
      BY <2>4 DEF Resume, loginBar, Outcome
    <3>. QED
      BY <2>4, <3>1, <3>2, <3>3 DEF Resume, Settled, Service!Answer, loginBar
  <2>5. ASSUME NEW f \in Flows, LoginSucceeds(f) \/ AuthenticateSucceeds(f)
        PROVE  UNCHANGED <<loginBar, caller>>
    <3>1. PICK state \in {"authenticate", "fulfilled"} : flow' = [flow EXCEPT ![f] = state]
      BY <2>5 DEF LoginSucceeds, AuthenticateSucceeds, Step
    <3>2. Outcome(f) = "running"
      BY <2>5 DEF LoginSucceeds, AuthenticateSucceeds, Step, Outcome
    <3>3. loginBar' = [loginBar EXCEPT ![f] = Outcome(f)]
      BY <2>0, <3>1, <3>2, OutcomeStep DEF FlowStates
    <3>. QED
      BY <2>5, <3>3, StageUnseen DEF LoginSucceeds, AuthenticateSucceeds
  <2>6. ASSUME NEW f \in Flows, FlowFails(f)
        PROVE  UNCHANGED <<loginBar, caller>>
    <3>1. flow' = [flow EXCEPT ![f] = "rejected"]
      BY <2>6 DEF FlowFails, Step
    <3>2. Outcome(f) = "running"
      BY <2>6 DEF FlowFails, Step, Outcome
    <3>3. loginBar' = [loginBar EXCEPT ![f] = Outcome(f)]
      BY <2>0, <3>1, <3>2, OutcomeStep DEF FlowStates
    <3>. QED
      BY <2>6, <3>3, StageUnseen DEF FlowFails
  <2>7. ASSUME NEW f \in Flows, Then(f)
        PROVE  Service!End(f, "succeeded")
    <3>1. flow' = [flow EXCEPT ![f] = "stored"] /\ UNCHANGED caller
      BY <2>7 DEF Then, Step
    <3>2. Outcome(f) = "running"
      BY <2>7 DEF Then, Step, Outcome
    <3>3. loginBar' = [loginBar EXCEPT ![f] = "succeeded"]
      BY <2>0, <3>1, OutcomeStep DEF FlowStates
    <3>. QED
      BY <3>1, <3>2, <3>3 DEF Service!End, loginBar
  <2>8. ASSUME NEW f \in Flows, Finally(f)
        PROVE  Service!End(f, "failed") \/ UNCHANGED <<loginBar, caller>>
    <3>1. CASE Step(f, "stored", "kept")
      <4>1. Outcome(f) = "succeeded"
        BY <3>1 DEF Step, Outcome
      <4>2. loginBar' = [loginBar EXCEPT ![f] = Outcome(f)]
        BY <2>0, <3>1, <4>1, OutcomeStep DEF Step, FlowStates
      <4>. QED
        BY <2>8, <4>2, StageUnseen DEF Finally
    <3>2. CASE Step(f, "rejected", "failed")
      <4>1. Outcome(f) = "running"
        BY <3>2 DEF Step, Outcome
      <4>2. loginBar' = [loginBar EXCEPT ![f] = "failed"]
        BY <2>0, <3>2, OutcomeStep DEF Step, FlowStates
      <4>. QED
        BY <2>8, <4>1, <4>2 DEF Finally, Service!End, loginBar
    <3>. QED
      BY <2>8, <3>1, <3>2 DEF Finally
  <2>9. CASE UNCHANGED vars
    BY <2>9 DEF vars, loginBar, Outcome
  <2>10. ASSUME NEW f \in Flows,
                LoginSucceeds(f) \/ AuthenticateSucceeds(f) \/ FlowFails(f) \/ Then(f) \/ Finally(f)
         PROVE  Service!Next \/ UNCHANGED <<loginBar, caller>>
    BY <2>5, <2>6, <2>7, <2>8, <2>10 DEF Service!Next
  <2>. QED
    BY <2>1, <2>2, <2>3, <2>4, <2>9, <2>10 DEF Next, Service!Next
<1>. QED
  BY <1>1, <1>2, Inductive, PTL
     DEF Spec, ImplementsTokenService, Service!Spec, Service!vars, loginBar

=============================================================================
