-------------------------- MODULE AuthSessionProofs --------------------------
(***************************************************************************)
(* Proofs about AuthSession for any number of users, clients and requests  *)
(* and any lifetimes of the two tokens.                                    *)
(***************************************************************************)
EXTENDS AuthSession, TLAPS

(* What holds of a request between its guard and its save.                 *)
RequestOK(r) ==
    /\ Pending(r) => req[r].user \in Users
    /\ req[r].phase = "signed" =>
           /\ req[r].op # "logout"
           /\ req[r].pair \in Pairs
           /\ req[r].pair.id = req[r].user
           /\ req[r].pair.iat <= now

HashOK   == \A u \in Users : refreshTokenHash[u] # None =>
                refreshTokenHash[u] \in Pairs /\ refreshTokenHash[u].id = u
ReleaseOK == \A p \in released : p.iat <= now

(* The inductive invariant: a stored hash is of a pair of its own user, a  *)
(* pair is never from the future, and a null hash means that the last      *)
(* logout is younger than every released pair of the user.                 *)
IInv ==
    /\ TypeOK
    /\ \A r \in Requests : RequestOK(r)
    /\ HashOK
    /\ ReleaseOK
    /\ ReleasedBeforeLogout

USE NoneAssumption, TTLAssumption

LEMMA InitIInv == Init => IInv
  BY DEF Init, IInv, TypeOK, RequestOK, Pending, HashOK, ReleaseOK,
         ReleasedBeforeLogout, RequestRecord, Idle, Phases, Ops

(* A step that only moves request r on, by a record that is itself in      *)
(* order, keeps the invariant.                                             *)
LEMMA MovePreserves ==
    ASSUME IInv, NEW r \in Requests, NEW rec \in RequestRecord,
           req' = [req EXCEPT ![r] = rec],
           rec.phase \in {"validated", "signed"} => rec.user \in Users,
           rec.phase = "signed" =>
               /\ rec.op # "logout" /\ rec.pair \in Pairs
               /\ rec.pair.id = rec.user /\ rec.pair.iat <= now,
           UNCHANGED <<now, refreshTokenHash, released, revokedAt>>,
           jar' \in [Clients -> Pairs \cup {None}]
    PROVE  IInv'
<1>1. TypeOK'
  BY DEF IInv, TypeOK
<1>2. \A q \in Requests : RequestOK(q)'
  <2>1. SUFFICES ASSUME NEW q \in Requests PROVE RequestOK(q)'
    OBVIOUS
  <2>2. CASE q = r
    <3>1. req'[q] = rec
      BY <2>2 DEF IInv, TypeOK
    <3>. QED
      BY <3>1 DEF RequestOK, Pending
  <2>3. CASE q # r
    <3>1. req'[q] = req[q]
      BY <2>3 DEF IInv, TypeOK
    <3>. QED
      BY <3>1 DEF IInv, RequestOK, Pending
  <2>. QED
    BY <2>2, <2>3
<1>. QED
  BY <1>1, <1>2 DEF IInv, HashOK, ReleaseOK, ReleasedBeforeLogout

LEMMA IdleIsRecord == Idle \in RequestRecord /\ Idle.phase = "idle"
  BY DEF Idle, RequestRecord, Phases, Ops

LEMMA SettlePreserves ==
    ASSUME IInv, NEW r \in Requests, Settle(r),
           UNCHANGED <<now, refreshTokenHash, released, revokedAt>>,
           jar' \in [Clients -> Pairs \cup {None}]
    PROVE  IInv'
  BY IdleIsRecord, MovePreserves DEF Settle

LEMMA SendPreserves ==
    ASSUME IInv, NEW r \in Requests, NEW c \in Clients, NEW op \in Ops, Send(r, c, op)
    PROVE  IInv'
<1> DEFINE rec == [Idle EXCEPT !.phase = "sent", !.op = op,
                               !.client = c, !.cookie = jar[c]]
<1>1. rec \in RequestRecord /\ rec.phase = "sent"
  BY DEF IInv, TypeOK, Idle, RequestRecord, Phases
<1>2. req' = [req EXCEPT ![r] = rec] /\ UNCHANGED <<now, refreshTokenHash, jar, released, revokedAt>>
  BY DEF Send
<1> HIDE DEF rec
<1>. QED
  BY <1>1, <1>2, MovePreserves DEF IInv, TypeOK

LEMMA ValidateUserPreserves ==
    ASSUME IInv, NEW r \in Requests, NEW u \in Users, ValidateUser(r, u)
    PROVE  IInv'
<1> DEFINE rec == [req[r] EXCEPT !.phase = "validated", !.user = u]
<1>0. req[r] \in RequestRecord
  BY DEF IInv, TypeOK
<1>1. rec \in RequestRecord /\ rec.phase = "validated" /\ rec.user = u
  BY <1>0 DEF RequestRecord, Phases
<1>2. req' = [req EXCEPT ![r] = rec]
  BY <1>0 DEF ValidateUser, IInv, TypeOK, RequestRecord
<1>3. UNCHANGED <<now, refreshTokenHash, jar, released, revokedAt>>
  BY DEF ValidateUser
<1> HIDE DEF rec
<1>. QED
  BY <1>1, <1>2, <1>3, MovePreserves DEF IInv, TypeOK

LEMMA ValidateCookiePreserves ==
    ASSUME IInv, NEW r \in Requests, ValidateCookie(r)
    PROVE  IInv'
<1> DEFINE rec == [req[r] EXCEPT !.phase = "validated", !.user = req[r].cookie.id]
<1>0. req[r] \in RequestRecord
  BY DEF IInv, TypeOK
<1>1. req[r].cookie.id \in Users
  BY <1>0 DEF ValidateCookie, CookieAccepted, RequestRecord, Pairs
<1>2. rec \in RequestRecord /\ rec.phase = "validated" /\ rec.user \in Users
  BY <1>0, <1>1 DEF RequestRecord, Phases
<1>3. req' = [req EXCEPT ![r] = rec]
  BY <1>0 DEF ValidateCookie, IInv, TypeOK, RequestRecord
<1>4. UNCHANGED <<now, refreshTokenHash, jar, released, revokedAt>>
  BY DEF ValidateCookie
<1> HIDE DEF rec
<1>. QED
  BY <1>2, <1>3, <1>4, MovePreserves DEF IInv, TypeOK

LEMMA GenerateTokensPreserves ==
    ASSUME IInv, NEW r \in Requests, GenerateTokens(r)
    PROVE  IInv'
<1> DEFINE pair == [id |-> req[r].user, iat |-> now]
           rec == [req[r] EXCEPT !.phase = "signed", !.pair = pair]
<1>0. req[r] \in RequestRecord /\ now \in Nat
  BY DEF IInv, TypeOK
<1>1. req[r].user \in Users
  BY DEF IInv, RequestOK, Pending, GenerateTokens
<1>2. pair \in Pairs /\ pair.id = req[r].user /\ pair.iat <= now
  BY <1>0, <1>1 DEF Pairs
<1>3. /\ rec \in RequestRecord /\ rec.phase = "signed" /\ rec.op # "logout"
      /\ rec.user = req[r].user /\ rec.pair = pair
  <2> HIDE DEF pair
  <2>. QED
    BY <1>0, <1>2 DEF RequestRecord, Phases, GenerateTokens
<1>4. req' = [req EXCEPT ![r] = rec]
  BY <1>0 DEF GenerateTokens, IInv, TypeOK, RequestRecord
<1>5. UNCHANGED <<now, refreshTokenHash, jar, released, revokedAt>>
  BY DEF GenerateTokens
<1> HIDE DEF rec, pair
<1>. QED
  BY <1>1, <1>2, <1>3, <1>4, <1>5, MovePreserves DEF IInv, TypeOK

(* The two saves change the column; the rest of the request is done with.  *)
LEMMA SavePairPreserves ==
    ASSUME IInv, NEW r \in Requests, SavePair(r)
    PROVE  IInv'
<1>0. /\ req[r] \in RequestRecord /\ req[r].user \in Users
      /\ req[r].pair \in Pairs /\ req[r].pair.id = req[r].user
      /\ req[r].pair.iat <= now /\ now \in Nat
  BY DEF IInv, TypeOK, RequestOK, Pending, SavePair
<1>1. TypeOK'
  <2>1. req' \in [Requests -> RequestRecord]
    BY <1>0 DEF IInv, TypeOK, SavePair, RequestRecord, Phases
  <2>2. refreshTokenHash' \in [Users -> Pairs \cup {None}] /\ released' \subseteq Pairs
    BY <1>0 DEF IInv, TypeOK, SavePair
  <2>. QED
    BY <2>1, <2>2 DEF IInv, TypeOK, SavePair
<1>2. \A q \in Requests : RequestOK(q)'
  BY <1>0 DEF IInv, TypeOK, RequestOK, Pending, SavePair, RequestRecord
<1>3. HashOK'
  BY <1>0 DEF IInv, TypeOK, HashOK, SavePair
<1>4. ReleaseOK'
  BY <1>0 DEF IInv, TypeOK, ReleaseOK, SavePair
<1>5. ReleasedBeforeLogout'
  <2>1. SUFFICES ASSUME NEW p \in released', refreshTokenHash'[p.id] = None
                 PROVE  p.iat <= revokedAt'[p.id]
    BY DEF ReleasedBeforeLogout
  <2>2. p \in Pairs /\ p.id \in Users
    BY <1>1 DEF TypeOK, Pairs
  <2>3. p.id # req[r].user
    BY <1>0, <2>1 DEF SavePair, IInv, TypeOK
  <2>4. p \in released /\ refreshTokenHash[p.id] = None
    BY <1>0, <2>1, <2>2, <2>3 DEF SavePair, IInv, TypeOK
  <2>. QED
    BY <2>4 DEF IInv, ReleasedBeforeLogout, SavePair
<1>. QED
  BY <1>1, <1>2, <1>3, <1>4, <1>5 DEF IInv

LEMMA SaveLogoutPreserves ==
    ASSUME IInv, NEW r \in Requests, SaveLogout(r)
    PROVE  IInv'
<1>0. req[r] \in RequestRecord /\ req[r].user \in Users /\ now \in Nat
  BY DEF IInv, TypeOK, RequestOK, Pending, SaveLogout
<1>1. TypeOK'
  <2>1. req' \in [Requests -> RequestRecord]
    BY <1>0 DEF IInv, TypeOK, SaveLogout, RequestRecord, Phases
  <2>2. /\ refreshTokenHash' \in [Users -> Pairs \cup {None}]
        /\ revokedAt' \in [Users -> Nat]
    BY <1>0 DEF IInv, TypeOK, SaveLogout
  <2>. QED
    BY <2>1, <2>2 DEF IInv, TypeOK, SaveLogout
<1>2. \A q \in Requests : RequestOK(q)'
  BY <1>0 DEF IInv, TypeOK, RequestOK, Pending, SaveLogout, RequestRecord
<1>3. HashOK' /\ ReleaseOK'
  BY <1>0 DEF IInv, TypeOK, HashOK, ReleaseOK, SaveLogout
<1>4. ReleasedBeforeLogout'
  <2>1. SUFFICES ASSUME NEW p \in released, refreshTokenHash'[p.id] = None
                 PROVE  p.iat <= revokedAt'[p.id]
    BY DEF ReleasedBeforeLogout, SaveLogout
  <2>2. p.id \in Users /\ p.iat <= now
    BY DEF IInv, TypeOK, ReleaseOK, Pairs
  <2>3. CASE p.id = req[r].user
    BY <2>2, <2>3 DEF SaveLogout, IInv, TypeOK
  <2>4. CASE p.id # req[r].user
    <3>1. refreshTokenHash[p.id] = None /\ revokedAt'[p.id] = revokedAt[p.id]
      BY <2>1, <2>2, <2>4 DEF SaveLogout, IInv, TypeOK
    <3>. QED
      BY <3>1 DEF IInv, ReleasedBeforeLogout
  <2>. QED
    BY <2>3, <2>4
<1>. QED
  BY <1>1, <1>2, <1>3, <1>4 DEF IInv

LEMMA TickPreserves ==
    ASSUME IInv, Tick
    PROVE  IInv'
<1>1. now \in Nat /\ now' = now + 1
  BY DEF IInv, TypeOK, Tick
<1>2. TypeOK' /\ HashOK' /\ ReleasedBeforeLogout'
  BY <1>1 DEF IInv, TypeOK, HashOK, ReleasedBeforeLogout, Tick
<1>3. ReleaseOK'
  BY <1>1 DEF IInv, TypeOK, ReleaseOK, Tick, Pairs
<1>4. \A r \in Requests : RequestOK(r)'
  BY <1>1 DEF IInv, TypeOK, RequestOK, Pending, Tick, Pairs
<1>. QED
  BY <1>2, <1>3, <1>4 DEF IInv

LEMMA NextIInv == IInv /\ [Next]_vars => IInv'
<1>. SUFFICES ASSUME IInv, [Next]_vars PROVE IInv'
  OBVIOUS
<1>1. ASSUME NEW r \in Requests, HandlerStep(r) PROVE IInv'
  <2>1. CASE \E u \in Users : ValidateUser(r, u)
    BY <2>1, ValidateUserPreserves
  <2>2. CASE ValidateCookie(r)
    BY <2>2, ValidateCookiePreserves
  <2>3. CASE Reject(r)
    BY <2>3, SettlePreserves DEF Reject, IInv, TypeOK
  <2>4. CASE GenerateTokens(r)
    BY <2>4, GenerateTokensPreserves
  <2>5. CASE SavePair(r)
    BY <2>5, SavePairPreserves
  <2>6. CASE SaveLogout(r)
    BY <2>6, SaveLogoutPreserves
  <2>7. CASE Deliver(r)
    <3>1. req[r] \in RequestRecord
      BY DEF IInv, TypeOK
    <3>2. jar' \in [Clients -> Pairs \cup {None}]
      BY <2>7, <3>1 DEF Deliver, IInv, TypeOK, RequestRecord
    <3>. QED
      BY <2>7, <3>2, SettlePreserves DEF Deliver
  <2>. QED
    BY <1>1, <2>1, <2>2, <2>3, <2>4, <2>5, <2>6, <2>7 DEF HandlerStep
<1>2. ASSUME NEW r \in Requests, Fail(r) PROVE IInv'
  BY <1>2, SettlePreserves DEF Fail, IInv, TypeOK
<1>3. ASSUME NEW r \in Requests, NEW c \in Clients, NEW op \in Ops, Send(r, c, op)
      PROVE IInv'
  BY <1>3, SendPreserves
<1>4. CASE Tick
  BY <1>4, TickPreserves
<1>5. CASE UNCHANGED vars
  BY <1>5 DEF IInv, TypeOK, RequestOK, Pending, HashOK, ReleaseOK,
              ReleasedBeforeLogout, vars
<1>. QED
  BY <1>1, <1>2, <1>3, <1>4, <1>5 DEF Next

LEMMA Inductive == Spec => []IInv
  BY InitIInv, NextIInv, PTL DEF Spec

(* Type correctness, for every instance.                                   *)
THEOREM TypeCorrect == Spec => []TypeOK
<1>1. IInv => TypeOK
  BY DEF IInv
<1>. QED
  BY <1>1, Inductive, PTL

(* A null hash bounds the age of every released pair of the user by its    *)
(* last logout, for every instance.                                        *)
THEOREM LogoutBoundsReleased == Spec => []ReleasedBeforeLogout
<1>1. IInv => ReleasedBeforeLogout
  BY DEF IInv
<1>. QED
  BY <1>1, Inductive, PTL

(* For any lifetimes: one access lifetime after the logout that left a     *)
(* user without a session, JwtGuard admits none of its pairs.              *)
THEOREM AccessEnds == Spec => []AccessEndsAfterLogout
<1>1. IInv => AccessEndsAfterLogout
  <2>1. SUFFICES ASSUME IInv, NEW p \in released, refreshTokenHash[p.id] = None,
                        now >= revokedAt[p.id] + AccessTTL
                 PROVE  ~JwtStrategy(p)
    BY DEF AccessEndsAfterLogout
  <2>2. p.iat \in Nat /\ p.id \in Users /\ now \in Nat /\ revokedAt[p.id] \in Nat
    BY <2>1 DEF IInv, TypeOK, Pairs
  <2>3. p.iat <= revokedAt[p.id]
    BY <2>1 DEF IInv, ReleasedBeforeLogout
  <2>. QED
    BY <2>1, <2>2, <2>3 DEF JwtStrategy
<1>. QED
  BY <1>1, Inductive, PTL

(* For every instance, no client with an unexpired pair is refused while   *)
(* its user has a session.                                                 *)
THEOREM NeverLockedOut == Spec => []NoSelfLockout
<1>1. IInv => NoSelfLockout
  <2>1. SUFFICES ASSUME IInv, NEW c \in Clients, jar[c] # None,
                        RefreshUnexpired(jar[c]), refreshTokenHash[jar[c].id] # None
                 PROVE  ValidateRefreshTokens(jar[c])
    BY DEF NoSelfLockout
  <2>2. jar[c].id \in Users
    BY <2>1 DEF IInv, TypeOK, Pairs
  <2>. QED
    BY <2>1, <2>2 DEF IInv, HashOK, ValidateRefreshTokens, BcryptCompare, BcryptInput
<1>. QED
  BY <1>1, Inductive, PTL

(* How many steps a request has before it at most.                         *)
StepsLeft == [sent |-> 4, validated |-> 3, signed |-> 2, saved |-> 1, idle |-> 0]

Advances(r) ==
    \/ req'[r] = req[r]
    \/ req[r].phase = "idle" /\ req'[r].phase = "sent"
    \/ StepsLeft[req'[r].phase] < StepsLeft[req[r].phase]

(* It is enough to look at the request that moves.                         *)
LEMMA MoveAdvances ==
    ASSUME TypeOK, NEW r \in Requests, NEW rec, req' = [req EXCEPT ![r] = rec],
           \/ req[r].phase = "idle" /\ rec.phase = "sent"
           \/ StepsLeft[rec.phase] < StepsLeft[req[r].phase]
    PROVE  \A q \in Requests : Advances(q)
  BY DEF TypeOK, Advances

(* A request never goes back: once it is sent, each step of its guard and  *)
(* handler brings it closer to its answer, and no step of another request  *)
(* moves it, so it is over after four of its own (auth.controller.ts:34,   *)
(* 44, 54).                                                                *)
THEOREM RequestsOnlyAdvance == Spec => [][\A r \in Requests : Advances(r)]_vars
<1>1. IInv /\ [Next]_vars => [\A r \in Requests : Advances(r)]_vars
  <2>. SUFFICES ASSUME IInv, Next PROVE \A r \in Requests : Advances(r)
    OBVIOUS
  <2>0. TypeOK
    BY DEF IInv
  <2>1. ASSUME NEW r \in Requests, req[r].phase # "idle", Settle(r)
        PROVE  \A q \in Requests : Advances(q)
    <3>1. StepsLeft[Idle.phase] < StepsLeft[req[r].phase]
      BY <2>0, <2>1 DEF TypeOK, RequestRecord, Phases, StepsLeft, Idle
    <3>. QED
      BY <2>0, <2>1, <3>1, MoveAdvances DEF Settle
  <2>2. ASSUME NEW r \in Requests, NEW c \in Clients, NEW op \in Ops, Send(r, c, op)
        PROVE  \A q \in Requests : Advances(q)
    <3> DEFINE rec == [Idle EXCEPT !.phase = "sent", !.op = op,
                                   !.client = c, !.cookie = jar[c]]
    <3>1. req[r].phase = "idle" /\ rec.phase = "sent" /\ req' = [req EXCEPT ![r] = rec]
      BY <2>2 DEF Send, Idle
    <3> HIDE DEF rec
    <3>. QED
      BY <2>0, <3>1, MoveAdvances
  <2>3. ASSUME NEW r \in Requests,
               \/ \E u \in Users : ValidateUser(r, u)
               \/ ValidateCookie(r) \/ GenerateTokens(r) \/ SavePair(r) \/ SaveLogout(r)
        PROVE  \A q \in Requests : Advances(q)
    <3>1. req[r] \in RequestRecord
      BY <2>0 DEF TypeOK
    <3>2. PICK rec \in {req'[r]} : req' = [req EXCEPT ![r] = rec]
      BY <2>0, <2>3, <3>1 DEF TypeOK, RequestRecord, ValidateUser, ValidateCookie,
         GenerateTokens, SavePair, SaveLogout
    <3>3. <<req[r].phase, req'[r].phase>> \in
             {<<"sent", "validated">>, <<"validated", "signed">>,
              <<"signed", "saved">>, <<"validated", "saved">>}
      BY <2>0, <2>3, <3>1 DEF TypeOK, RequestRecord, ValidateUser, ValidateCookie,
         GenerateTokens, SavePair, SaveLogout
    <3>4. StepsLeft[rec.phase] < StepsLeft[req[r].phase]
      BY <3>2, <3>3 DEF StepsLeft
    <3>. QED
      BY <2>0, <3>2, <3>4, MoveAdvances
  <2>4. CASE Tick
    BY <2>4 DEF Tick, Advances
  <2>5. ASSUME NEW r \in Requests, Reject(r) \/ Deliver(r) \/ Fail(r)
        PROVE  req[r].phase # "idle" /\ Settle(r)
    BY <2>5 DEF Reject, Deliver, Fail
  <2>6. ASSUME NEW r \in Requests, HandlerStep(r) \/ Fail(r)
        PROVE  \A q \in Requests : Advances(q)
    BY <2>1, <2>3, <2>5, <2>6 DEF HandlerStep
  <2>. QED
    BY <2>2, <2>4, <2>6 DEF Next
<1>. QED
  BY <1>1, Inductive, PTL DEF Spec

-----------------------------------------------------------------------------
(* Refinement of SessionRegister.  open and ticket are what the mapping    *)
(* makes of the column and of the requests.                                *)

openBar   == [u \in Users |-> refreshTokenHash[u] # None]
ticketBar == [r \in Requests |->
                 IF Pending(r) THEN [op |-> req[r].op, user |-> req[r].user]
                               ELSE None]

(* A step that touches one request and no column shows in the register as  *)
(* whatever it does to that request's ticket.                              *)
LEMMA TicketStep ==
    ASSUME IInv, NEW r \in Requests, NEW rec,
           req' = [req EXCEPT ![r] = rec],
           NEW t, t = IF rec.phase \in {"validated", "signed"}
                         THEN [op |-> rec.op, user |-> rec.user] ELSE None
    PROVE  ticketBar' = [ticketBar EXCEPT ![r] = t]
<1>1. req'[r] = rec /\ \A q \in Requests : q # r => req'[q] = req[q]
  BY DEF IInv, TypeOK
<1>. QED
  BY <1>1 DEF ticketBar, Pending

(* The sessions of the code are the sessions of the register, for every    *)
(* instance: refresh and logout are admitted only while the session is     *)
(* open, and each admitted request changes it at most once.                *)
THEOREM Refinement == Spec => ImplementsSessionRegister
<1>1. Init => Register!Init
  <2>. SUFFICES ASSUME Init PROVE Register!Init
    OBVIOUS
  <2>1. \A r \in Requests : ~Pending(r)
    BY DEF Init, Pending, Idle
  <2>2. openBar = [u \in Users |-> FALSE]
    BY DEF Init, openBar
  <2>3. ticketBar = [r \in Requests |-> None]
    BY <2>1 DEF ticketBar
  <2>. QED
    BY <2>2, <2>3 DEF Register!Init, openBar, ticketBar
<1>2. IInv /\ [Next]_vars => [Register!Next]_<<openBar, ticketBar>>
  <2>. SUFFICES ASSUME IInv, [Next]_vars
                PROVE  Register!Next \/ UNCHANGED <<openBar, ticketBar>>
    OBVIOUS
  <2>1. ASSUME NEW r \in Requests, NEW u \in Users, ValidateUser(r, u)
        PROVE  Register!Admit(r, "login", u)
    <3> DEFINE rec == [req[r] EXCEPT !.phase = "validated", !.user = u]
    <3>0. req[r] \in RequestRecord /\ req[r].phase = "sent" /\ req[r].op = "login"
      BY <2>1 DEF IInv, TypeOK, ValidateUser
    <3>1. rec.phase = "validated" /\ rec.user = u /\ rec.op = "login"
      BY <3>0 DEF RequestRecord
    <3>2. req' = [req EXCEPT ![r] = rec]
      BY <2>1, <3>0 DEF ValidateUser, IInv, TypeOK, RequestRecord
    <3> HIDE DEF rec
    <3>3. ticketBar' = [ticketBar EXCEPT ![r] = [op |-> "login", user |-> u]]
      BY <3>1, <3>2, TicketStep
    <3>4. ticketBar[r] = None
      BY <3>0 DEF ticketBar, Pending
    <3>5. openBar' = openBar
      BY <2>1 DEF ValidateUser, openBar
    <3>. QED
      BY <3>3, <3>4, <3>5 DEF Register!Admit, openBar, ticketBar
  <2>2. ASSUME NEW r \in Requests, ValidateCookie(r)
        PROVE  \E op \in {"login", "refresh", "logout"}, u \in Users :
                   Register!Admit(r, op, u)
    <3> DEFINE v == req[r].cookie.id
               rec == [req[r] EXCEPT !.phase = "validated", !.user = v]
    <3>0. req[r] \in RequestRecord /\ req[r].phase = "sent" /\ CookieAccepted(r)
      BY <2>2 DEF IInv, TypeOK, ValidateCookie
    <3>1. v \in Users /\ req[r].op \in Ops
      BY <3>0 DEF CookieAccepted, RequestRecord, Pairs
    <3>2. refreshTokenHash[v] # None
      BY <3>0 DEF CookieAccepted, ValidateRefreshTokens
    <3>3. req' = [req EXCEPT ![r] = rec]
      BY <2>2, <3>0 DEF ValidateCookie, IInv, TypeOK, RequestRecord
    <3>4. rec.phase = "validated" /\ rec.user = v /\ rec.op = req[r].op
      BY <3>0 DEF RequestRecord
    <3> HIDE DEF rec, v
    <3>5. ticketBar' = [ticketBar EXCEPT ![r] = [op |-> req[r].op, user |-> v]]
      BY <3>3, <3>4, TicketStep
    <3>6. ticketBar[r] = None
      BY <3>0 DEF ticketBar, Pending
    <3>7. openBar' = openBar
      BY <2>2 DEF ValidateCookie, openBar
    <3>8. Register!Admit(r, req[r].op, v)
      BY <3>1, <3>2, <3>5, <3>6, <3>7 DEF Register!Admit, openBar, ticketBar
    <3>. QED
      BY <3>1, <3>8 DEF Ops, Register!Admit
  <2>3. ASSUME NEW r \in Requests, GenerateTokens(r)
        PROVE  UNCHANGED <<openBar, ticketBar>>
    <3>0. req[r] \in RequestRecord
      BY DEF IInv, TypeOK
    <3>. QED
      BY <2>3, <3>0 DEF GenerateTokens, IInv, TypeOK, RequestRecord,
                        openBar, ticketBar, Pending
  <2>4. ASSUME NEW r \in Requests, SavePair(r) \/ SaveLogout(r)
        PROVE  Register!TakeEffect(r)
    <3> DEFINE rec == [req[r] EXCEPT !.phase = "saved"]
    <3>0. /\ req[r] \in RequestRecord /\ req[r].user \in Users /\ Pending(r)
          /\ req[r].phase = "signed" =>
                 req[r].op # "logout" /\ req[r].pair \in Pairs
      BY <2>4 DEF IInv, TypeOK, RequestOK, Pending, SavePair, SaveLogout
    <3>1. rec.phase = "saved" /\ req' = [req EXCEPT ![r] = rec]
      BY <2>4, <3>0 DEF SavePair, SaveLogout, IInv, TypeOK, RequestRecord
    <3> HIDE DEF rec
    <3>2. ticketBar' = [ticketBar EXCEPT ![r] = None]
      BY <3>1, TicketStep
    <3>3. ticketBar[r] = [op |-> req[r].op, user |-> req[r].user]
      BY <3>0 DEF ticketBar
    <3>4. ticketBar[r] # None
      <4>1. req[r].op \in {"login", "refresh", "logout"}
        BY <3>0 DEF RequestRecord, Ops
      <4>. QED
        BY <3>0, <3>3, <4>1
    <3>5. openBar' = [openBar EXCEPT ![req[r].user] = (req[r].op # "logout")]
      <4>1. CASE SavePair(r)
        BY <3>0, <4>1 DEF SavePair, openBar, IInv, TypeOK
      <4>2. CASE SaveLogout(r)
        BY <3>0, <4>2 DEF SaveLogout, openBar, IInv, TypeOK
      <4>. QED
        BY <2>4, <4>1, <4>2
    <3>. QED
      BY <3>2, <3>3, <3>4, <3>5 DEF Register!TakeEffect, openBar, ticketBar
  <2>5. ASSUME NEW r \in Requests, Settle(r), UNCHANGED refreshTokenHash
        PROVE  Register!Abandon(r) \/ UNCHANGED <<openBar, ticketBar>>
    <3>1. ticketBar' = [ticketBar EXCEPT ![r] = None]
      BY <2>5, IdleIsRecord, TicketStep DEF Settle
    <3>2. openBar' = openBar
      BY <2>5 DEF openBar
    <3>3. CASE ticketBar[r] = None
      BY <3>1, <3>2, <3>3 DEF ticketBar
    <3>4. CASE ticketBar[r] # None
      BY <3>1, <3>2, <3>4 DEF Register!Abandon, openBar, ticketBar
    <3>. QED
      BY <3>3, <3>4
  <2>6. ASSUME NEW r \in Requests, NEW c \in Clients, NEW op \in Ops, Send(r, c, op)
        PROVE  UNCHANGED <<openBar, ticketBar>>
    BY <2>6 DEF Send, Idle, IInv, TypeOK, openBar, ticketBar, Pending
  <2>7. CASE Tick \/ UNCHANGED vars
    BY <2>7 DEF Tick, vars, openBar, ticketBar, Pending
  <2>8. ASSUME NEW r \in Requests, HandlerStep(r) \/ Fail(r)
        PROVE  Register!Next \/ UNCHANGED <<openBar, ticketBar>>
    <3>1. CASE \E u \in Users : ValidateUser(r, u)
      BY <2>1, <3>1 DEF Register!Next
    <3>2. CASE ValidateCookie(r)
      BY <2>2, <3>2 DEF Register!Next
    <3>3. CASE GenerateTokens(r)
      BY <2>3, <3>3
    <3>4. CASE SavePair(r) \/ SaveLogout(r)
      BY <2>4, <3>4 DEF Register!Next
    <3>5. CASE Reject(r) \/ Deliver(r) \/ Fail(r)
      BY <2>5, <3>5 DEF Reject, Deliver, Fail, Register!Next
    <3>. QED
      BY <2>8, <3>1, <3>2, <3>3, <3>4, <3>5 DEF HandlerStep
  <2>. QED
    BY <2>6, <2>7, <2>8 DEF Next
<1>. QED
  BY <1>1, <1>2, Inductive, PTL
     DEF Spec, ImplementsSessionRegister, Register!Spec, Register!vars, openBar, ticketBar

(***************************************************************************)
(* Refinement of BrowserCookies.  What it needs beyond IInv is that what a *)
(* response brings was released: ReleaseOK and ReleasedBeforeLogout then   *)
(* say that it is neither from the future nor from after the session.      *)
(***************************************************************************)
endedBar == [u \in Users |-> IF refreshTokenHash[u] = None THEN revokedAt[u] ELSE None]

PairsReleased ==
    \A r \in Requests :
        req[r].pair # None =>
            /\ req[r].phase \in {"signed", "saved"}
            /\ req[r].phase = "saved" => req[r].pair \in released

(* It is enough to look at the request that moves.                         *)
LEMMA PairStep ==
    ASSUME TypeOK, PairsReleased, NEW r \in Requests, NEW rec \in RequestRecord,
           req' = [req EXCEPT ![r] = rec], released \subseteq released',
           rec.pair # None => /\ rec.phase \in {"signed", "saved"}
                              /\ rec.phase = "saved" => rec.pair \in released'
    PROVE  PairsReleased'
  BY DEF PairsReleased, TypeOK

LEMMA PairsInductive == Spec => []PairsReleased
<1>1. Init => PairsReleased
  BY DEF Init, PairsReleased, Idle
<1>2. IInv /\ PairsReleased /\ [Next]_vars => PairsReleased'
  <2>. SUFFICES ASSUME IInv, PairsReleased, [Next]_vars PROVE PairsReleased'
    OBVIOUS
  <2>0. TypeOK
    BY DEF IInv
  <2>1. ASSUME NEW r \in Requests, UNCHANGED released, Settle(r) PROVE PairsReleased'
    BY <2>0, <2>1, IdleIsRecord, PairStep DEF Settle, Idle
  <2>2. ASSUME NEW r \in Requests, NEW c \in Clients, NEW op \in Ops, Send(r, c, op)
        PROVE  PairsReleased'
    BY <2>0, <2>2 DEF Send, Idle, PairsReleased, TypeOK
  <2>3. ASSUME NEW r \in Requests, NEW u \in Users, ValidateUser(r, u)
        PROVE  PairsReleased'
    BY <2>0, <2>3 DEF ValidateUser, PairsReleased, TypeOK, RequestRecord
  <2>4. ASSUME NEW r \in Requests, ValidateCookie(r) PROVE PairsReleased'
    BY <2>0, <2>4 DEF ValidateCookie, PairsReleased, TypeOK, RequestRecord
  <2>5. ASSUME NEW r \in Requests, GenerateTokens(r) PROVE PairsReleased'
    <3>1. req[r] \in RequestRecord
      BY <2>0 DEF TypeOK
    <3>2. req'[r].phase = "signed" /\ UNCHANGED released
      BY <2>0, <2>5, <3>1 DEF GenerateTokens, TypeOK, RequestRecord
    <3>3. \A q \in Requests \ {r} : req'[q] = req[q]
      BY <2>0, <2>5 DEF GenerateTokens, TypeOK
    <3>. QED
      BY <3>2, <3>3 DEF PairsReleased
  <2>6. ASSUME NEW r \in Requests, SavePair(r) \/ SaveLogout(r) PROVE PairsReleased'
    <3> DEFINE rec == [req[r] EXCEPT !.phase = "saved"]
    <3>0. req[r] \in RequestRecord
      BY <2>0 DEF TypeOK
    <3>1. rec \in RequestRecord /\ rec.phase = "saved" /\ rec.pair = req[r].pair
      BY <3>0 DEF RequestRecord, Phases
    <3>2. req' = [req EXCEPT ![r] = rec]
      BY <2>0, <2>6, <3>0 DEF SavePair, SaveLogout, TypeOK, RequestRecord
    <3>3. released \subseteq released' /\ (req[r].pair # None => req[r].pair \in released')
      BY <2>6 DEF SavePair, SaveLogout, PairsReleased
    <3> HIDE DEF rec
    <3>. QED
      BY <2>0, <3>1, <3>2, <3>3, PairStep
  <2>7. CASE Tick \/ UNCHANGED vars
    BY <2>7 DEF Tick, vars, PairsReleased
  <2>. QED
    BY <2>1, <2>2, <2>3, <2>4, <2>5, <2>6, <2>7
       DEF Next, HandlerStep, Reject, Deliver, Fail
<1>. QED
  BY <1>1, <1>2, Inductive, PTL DEF Spec

(* Seen from the cookies, the auth module is what BrowserCookies says: a   *)
(* component that is right next to BrowserCookies is right next to         *)
(* AuthSession (auth.service.ts:39, 72, 107 before 46, 79, 114).           *)
THEOREM CookieRefinement == Spec => ImplementsBrowserCookies
<1>1. Init => Cookies!Init
  BY DEF Init, Cookies!Init
<1>2. IInv /\ PairsReleased /\ [Next]_vars => [Cookies!Next]_<<now, jar, endedBar>>
  <2>. SUFFICES ASSUME IInv, PairsReleased, [Next]_vars
                PROVE  Cookies!Next \/ UNCHANGED <<now, jar, endedBar>>
    OBVIOUS
  <2>0. /\ now \in Nat /\ refreshTokenHash \in [Users -> Pairs \cup {None}]
        /\ revokedAt \in [Users -> Nat] /\ released \subseteq Pairs
    BY DEF IInv, TypeOK
  <2>1. ASSUME NEW r \in Requests, Deliver(r), req[r].client \in Clients
        PROVE  Cookies!AuthResponse(req[r].client)
    <3> DEFINE p == req[r].pair
    <3>1. p # None => p \in released
      BY <2>1 DEF Deliver, PairsReleased
    <3>2. p # None => /\ p \in [id: Users, iat: 0..now] /\ p.id \in Users
                      /\ endedBar[p.id] = None \/ p.iat <= endedBar[p.id]
      BY <2>0, <3>1 DEF Pairs, endedBar, IInv, ReleaseOK, ReleasedBeforeLogout
    <3>3. p \in Cookies!Signed \cup {None}
      BY <3>2 DEF Cookies!Signed, endedBar
    <3>4. jar' = [jar EXCEPT ![req[r].client] = p]
      BY <2>1 DEF Deliver
    <3>5. UNCHANGED <<now, endedBar>>
      BY <2>1 DEF Deliver, endedBar
    <3> HIDE DEF p
    <3>. QED
      BY <3>3, <3>4, <3>5 DEF Cookies!AuthResponse, endedBar
  <2>2. ASSUME NEW r \in Requests, Deliver(r), req[r].client \notin Clients
        PROVE  UNCHANGED <<now, jar, endedBar>>
    BY <2>2 DEF Deliver, IInv, TypeOK, endedBar
  <2>3. ASSUME NEW r \in Requests, NEW u \in Users, u = req[r].user, SavePair(r)
        PROVE  Cookies!SessionBegins(u)
    <3>1. req[r].pair # None
      BY <2>3 DEF SavePair, IInv, RequestOK
    <3>2. endedBar' = [endedBar EXCEPT ![u] = None]
      BY <2>0, <2>3, <3>1 DEF SavePair, endedBar
    <3>. QED
      BY <2>3, <3>2 DEF SavePair, Cookies!SessionBegins, endedBar
  <2>4. ASSUME NEW r \in Requests, NEW u \in Users, u = req[r].user, SaveLogout(r)
        PROVE  Cookies!SessionEnds(u)
    <3>1. endedBar' = [endedBar EXCEPT ![u] = now]
      BY <2>0, <2>4 DEF SaveLogout, endedBar
    <3>. QED
      BY <2>4, <3>1 DEF SaveLogout, Cookies!SessionEnds, endedBar
  <2>5. CASE Tick
    BY <2>5 DEF Tick, Cookies!Tick, Cookies!Next
  <2>6. CASE UNCHANGED vars
    BY <2>6 DEF vars, endedBar
  <2>7. ASSUME NEW r \in Requests, NEW u \in Users, ValidateUser(r, u)
        PROVE  UNCHANGED <<now, jar, endedBar>>
    BY <2>7 DEF ValidateUser, endedBar
  <2>8. ASSUME NEW r \in Requests,
               \/ ValidateCookie(r) \/ Reject(r) \/ GenerateTokens(r) \/ Fail(r)
               \/ \E c \in Clients, op \in Ops : Send(r, c, op)
        PROVE  UNCHANGED <<now, jar, endedBar>>
    BY <2>8 DEF ValidateCookie, Reject, GenerateTokens, Fail, Send, endedBar
  <2>9. ASSUME NEW r \in Requests, SavePair(r) \/ SaveLogout(r) PROVE Cookies!Next
    <3>1. PICK u \in Users : u = req[r].user
      BY <2>9 DEF SavePair, SaveLogout, IInv, RequestOK, Pending
    <3>2. Cookies!SessionBegins(u) \/ Cookies!SessionEnds(u)
      BY <2>3, <2>4, <2>9, <3>1
    <3>. QED
      BY <3>2 DEF Cookies!Next
  <2>. QED
    BY <2>1, <2>2, <2>5, <2>6, <2>7, <2>8, <2>9 DEF Next, HandlerStep, Cookies!Next
<1>. QED
  BY <1>1, <1>2, Inductive, PairsInductive, PTL
     DEF Spec, ImplementsBrowserCookies, Cookies!Spec, Cookies!cookieVars, endedBar

(***************************************************************************)
(* The pages of HttpPipeline next to this auth module instead of its       *)
(* abstraction.                                                            *)
(***************************************************************************)
CONSTANTS Pages, Home, Nonces
VARIABLES csrf, page, fetch, status

Pipeline == INSTANCE HttpPipelineProofs WITH ended <- endedBar

(* One and the same abstraction, seen from either side.                    *)
LEMMA CookiesArePipelines ==
    /\ Cookies!Init => Pipeline!Init
    /\ [Cookies!Next]_(Cookies!cookieVars) => [Pipeline!Next]_(Pipeline!cookieVars)
  BY DEF Cookies!Init, Pipeline!Init, Cookies!Next, Pipeline!Next,
         Cookies!cookieVars, Pipeline!cookieVars, Cookies!Tick, Pipeline!Tick,
         Cookies!AuthResponse, Pipeline!AuthResponse, Cookies!Signed, Pipeline!Signed,
         Cookies!SessionBegins, Pipeline!SessionBegins,
         Cookies!SessionEnds, Pipeline!SessionEnds, endedBar

(* Pages that write next to login, refresh and logout as they are coded:   *)
(* none writes as another user than the one it showed, and none for a user *)
(* that has been without a session for an access lifetime, whatever        *)
(* requests were in flight at the logout (auth.service.ts:70, main.ts:105).*)
THEOREM PagesNextToSessions ==
    ASSUME Pipeline!PagesAssumption
    PROVE  Spec /\ Pipeline!PagesSpec
               => [](Pipeline!NoWriteAsAnotherUser /\ Pipeline!NoWriteAfterLogout)
<1>0. Pipeline!LifetimeAssumption
  BY TTLAssumption DEF Pipeline!LifetimeAssumption
<1>1. Pipeline!Init /\ Pipeline!PagesInit => Pipeline!IInv
  BY <1>0, Pipeline!PagesAssumption, Pipeline!InitIInv DEF Pipeline!PipelineInit
<1>2. Pipeline!IInv /\ [Pipeline!Next]_(Pipeline!cookieVars)
                    /\ [Pipeline!PagesNext]_(Pipeline!pageVars) => Pipeline!IInv'
  BY <1>0, Pipeline!PagesAssumption, Pipeline!ComposedStep, Pipeline!NextIInv
<1>3. Pipeline!IInv => Pipeline!NoWriteAsAnotherUser /\ Pipeline!NoWriteAfterLogout
  BY <1>0, Pipeline!PagesAssumption, Pipeline!AdmittedAsShown, Pipeline!AdmittedInTime
<1>. QED
  BY <1>1, <1>2, <1>3, CookieRefinement, CookiesArePipelines, PTL
     DEF ImplementsBrowserCookies, Cookies!Spec, Pipeline!PagesSpec

=============================================================================
