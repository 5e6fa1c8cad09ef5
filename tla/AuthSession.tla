----------------------------- MODULE AuthSession -----------------------------
(***************************************************************************)
(* Login, refresh and logout of the auth module, interleaved at their      *)
(* awaits.  A request is                                                   *)
(*                                                                         *)
(*   sent       on its way to the server, with the cookies the client had  *)
(*   validated  past its guard; the user row it read may change from here  *)
(*   signed     the new pair exists, bcrypt.hash and updateUser pending    *)
(*   saved      refresh_token_hash written, response on its way            *)
(*                                                                         *)
(* An access token and the refresh token signed with it are one value, a   *)
(* pair: same claims, same instant, two lifetimes.                         *)
(***************************************************************************)
EXTENDS Integers

CONSTANTS
    Users,          \* rows of the user table; none is ever deleted
    Clients,        \* browsers, each with one cookie jar
    Requests,       \* requests in flight at once
    AccessTTL,      \* ACCESS_TOKEN_VALIDITY_DURATION_IN_SEC
    RefreshTTL,     \* REFRESH_TOKEN_VALIDITY_DURATION_IN_SEC
    MaxTime,        \* bound: the clock stops here
    None            \* no pair, no hash, no user

Pairs == [id: Users, iat: Nat]

ASSUME TTLAssumption ==
    AccessTTL \in Nat \ {0} /\ RefreshTTL \in Nat \ {0} /\ MaxTime \in Nat

ASSUME NoneAssumption ==
    /\ None \notin Users
    /\ None \notin Pairs
    /\ None \notin [op: {"login", "refresh", "logout"}, user: Users]

VARIABLES
    now,                \* seconds
    refreshTokenHash,   \* the column of the user row: the pair hashed, or None
    req,                \* per request: phase, operation and locals
    jar,                \* per client: the pair in its cookies, or None
    released,           \* history: pairs put into a response
    revokedAt           \* history: when the last logout of a user was saved

vars == <<now, refreshTokenHash, req, jar, released, revokedAt>>

Ops == {"login", "refresh", "logout"}
Phases == {"idle", "sent", "validated", "signed", "saved"}

RequestRecord ==
    [phase: Phases, op: Ops, client: Clients \cup {None},
     cookie: Pairs \cup {None}, user: Users \cup {None}, pair: Pairs \cup {None}]

-----------------------------------------------------------------------------
(* Tokens *)

(* bcrypt over the whole token.                                            *)
BcryptInputWhole(p) == p

(* What bcrypt sees of a refresh token: JwtLayout shows that the id is     *)
(* inside its window and that iat and exp are not.                         *)
BcryptInput(p) == p.id

BcryptCompare(p, hash) == BcryptInput(p) = BcryptInput(hash)

RefreshUnexpired(p) == now < p.iat + RefreshTTL

(* JwtStrategy: the signature and the expiry, and nothing of the database. *)
JwtStrategy(p) == now < p.iat + AccessTTL

(* validateRefreshTokens without the test of a null hash: a comparison     *)
(* that is skipped when there is nothing to compare with.                  *)
ValidateRefreshTokensNoNullTest(p) ==
    /\ RefreshUnexpired(p)
    /\ refreshTokenHash[p.id] # None => BcryptCompare(p, refreshTokenHash[p.id])

(* JwtRefreshStrategy and validateRefreshTokens on a presented pair.       *)
ValidateRefreshTokens(p) ==
    /\ RefreshUnexpired(p)
    /\ refreshTokenHash[p.id] # None
    /\ BcryptCompare(p, refreshTokenHash[p.id])

-----------------------------------------------------------------------------
(* Requests *)

Idle == [phase |-> "idle", op |-> "login", client |-> None, cookie |-> None,
         user |-> None, pair |-> None]

Init ==
    /\ now = 0
    /\ refreshTokenHash = [u \in Users |-> None]
    /\ req = [r \in Requests |-> Idle]
    /\ jar = [c \in Clients |-> None]
    /\ released = {}
    /\ revokedAt = [u \in Users |-> 0]

(* The promise of request r is settled; its slot is free again.            *)
Settle(r) == req' = [req EXCEPT ![r] = Idle]

(* A client calls an endpoint; the browser attaches its cookies, and keeps *)
(* other requests of its own in flight.                                    *)
Send(r, c, op) ==
    /\ req[r].phase = "idle"
    /\ req' = [req EXCEPT ![r] = [Idle EXCEPT !.phase = "sent", !.op = op,
                                              !.client = c, !.cookie = jar[c]]]
    /\ UNCHANGED <<now, refreshTokenHash, jar, released, revokedAt>>

(* LocalGuard: the password matches the hash of user u.                    *)
ValidateUser(r, u) ==
    /\ req[r].phase = "sent" /\ req[r].op = "login"
    /\ req' = [req EXCEPT ![r].phase = "validated", ![r].user = u]
    /\ UNCHANGED <<now, refreshTokenHash, jar, released, revokedAt>>

CookieAccepted(r) ==
    req[r].cookie # None /\ ValidateRefreshTokens(req[r].cookie)

(* A guard that lets the request through without attaching the user.       *)
ValidateCookieNoUser(r) ==
    /\ req[r].phase = "sent" /\ req[r].op # "login"
    /\ CookieAccepted(r)
    /\ req' = [req EXCEPT ![r].phase = "validated"]
    /\ UNCHANGED <<now, refreshTokenHash, jar, released, revokedAt>>

(* JwtRefreshGuard: the cookie is there, unexpired, and matches the row.   *)
ValidateCookie(r) ==
    /\ req[r].phase = "sent" /\ req[r].op # "login"
    /\ CookieAccepted(r)
    /\ req' = [req EXCEPT ![r].phase = "validated", ![r].user = req[r].cookie.id]
    /\ UNCHANGED <<now, refreshTokenHash, jar, released, revokedAt>>

(* 401 from either guard: unknown address or wrong password for login; for *)
(* refresh and logout no cookie, an expired one, no hash or another hash.  *)
Reject(r) ==
    /\ req[r].phase = "sent"
    /\ req[r].op # "login" => ~CookieAccepted(r)
    /\ Settle(r)
    /\ UNCHANGED <<now, refreshTokenHash, jar, released, revokedAt>>

(* The handler sets the cookies before its updateUser is through.          *)
GenerateTokensEarlyCookie(r) ==
    /\ req[r].phase = "validated" /\ req[r].op # "logout"
    /\ req' = [req EXCEPT ![r].phase = "signed",
                          ![r].pair = [id |-> req[r].user, iat |-> now]]
    /\ released' = released \cup {[id |-> req[r].user, iat |-> now]}
    /\ UNCHANGED <<now, refreshTokenHash, jar, revokedAt>>

(* A pair signed with its expiry in the place of its instant.              *)
GenerateTokensPostdated(r) ==
    /\ req[r].phase = "validated" /\ req[r].op # "logout"
    /\ req' = [req EXCEPT ![r].phase = "signed",
                          ![r].pair = [id |-> req[r].user, iat |-> now + AccessTTL]]
    /\ UNCHANGED <<now, refreshTokenHash, jar, released, revokedAt>>

(* login and refreshTokens call generateTokens, then await bcrypt.hash.    *)
GenerateTokens(r) ==
    /\ req[r].phase = "validated" /\ req[r].op # "logout"
    /\ req' = [req EXCEPT ![r].phase = "signed",
                          ![r].pair = [id |-> req[r].user, iat |-> now]]
    /\ UNCHANGED <<now, refreshTokenHash, jar, released, revokedAt>>

(* updateUser with the new hash.  Its read and its write are one step: the *)
(* only column a request ever changes is the one it was called to set, so  *)
(* what it read does not matter.  The cookies join the response in the     *)
(* same turn of the event loop.                                            *)
SavePair(r) ==
    /\ req[r].phase = "signed"
    /\ refreshTokenHash' = [refreshTokenHash EXCEPT ![req[r].user] = req[r].pair]
    /\ released' = released \cup {req[r].pair}
    /\ req' = [req EXCEPT ![r].phase = "saved"]
    /\ UNCHANGED <<now, jar, revokedAt>>

(* logout calls updateUser with null, then clears the cookies.             *)
SaveLogout(r) ==
    /\ req[r].phase = "validated" /\ req[r].op = "logout"
    /\ refreshTokenHash' = [refreshTokenHash EXCEPT ![req[r].user] = None]
    /\ revokedAt' = [revokedAt EXCEPT ![req[r].user] = now]
    /\ req' = [req EXCEPT ![r].phase = "saved"]
    /\ UNCHANGED <<now, jar, released>>

(* The response arrives: Set-Cookie replaces or clears both cookies.  Two  *)
(* responses of one client arrive in any order.                            *)
Deliver(r) ==
    /\ req[r].phase = "saved"
    /\ jar' = [jar EXCEPT ![req[r].client] = req[r].pair]
    /\ Settle(r)
    /\ UNCHANGED <<now, refreshTokenHash, released, revokedAt>>

(* The request or its response is lost, the process dies, or the database  *)
(* call throws (500): whatever was not saved yet never will be.            *)
Fail(r) ==
    /\ req[r].phase # "idle"
    /\ Settle(r)
    /\ UNCHANGED <<now, refreshTokenHash, jar, released, revokedAt>>

Tick ==
    /\ now < MaxTime
    /\ now' = now + 1
    /\ UNCHANGED <<refreshTokenHash, req, jar, released, revokedAt>>

HandlerStep(r) ==
    \/ \E u \in Users : ValidateUser(r, u)
    \/ ValidateCookie(r)
    \/ Reject(r)
    \/ GenerateTokens(r)
    \/ SavePair(r)
    \/ SaveLogout(r)
    \/ Deliver(r)

Next ==
    \/ \E r \in Requests : HandlerStep(r) \/ Fail(r)
    \/ \E r \in Requests, c \in Clients, op \in Ops : Send(r, c, op)
    \/ Tick

Spec == Init /\ [][Next]_vars

-----------------------------------------------------------------------------
(* Properties *)

TypeOK ==
    /\ now \in Nat
    /\ refreshTokenHash \in [Users -> Pairs \cup {None}]
    /\ req \in [Requests -> RequestRecord]
    /\ jar \in [Clients -> Pairs \cup {None}]
    /\ released \subseteq Pairs
    /\ revokedAt \in [Users -> Nat]

(* A signed-in client is not locked out by what others do: while its user  *)
(* has a session at all and its refresh token has not expired, the token   *)
(* in its cookies is accepted.  Concurrent refreshes whose responses       *)
(* arrive out of order, or never, do not strand it                         *)
(* (validateRefreshTokens, auth.service.ts:156).                           *)
NoSelfLockout ==
    \A c \in Clients :
        /\ jar[c] # None
        /\ RefreshUnexpired(jar[c])
        /\ refreshTokenHash[jar[c].id] # None
        => ValidateRefreshTokens(jar[c])

(* Access really ends after a logout: one access lifetime after the logout *)
(* that left the user without a session, no pair the server ever released  *)
(* passes JwtGuard, whatever was in flight (logout and login save before   *)
(* they touch the cookies, auth.service.ts:39 and :72).                    *)
AccessEndsAfterLogout ==
    \A p \in released :
        refreshTokenHash[p.id] = None /\ now >= revokedAt[p.id] + AccessTTL
        => ~JwtStrategy(p)

(* The inductive reason for it: as long as the column is null, everything  *)
(* released for the user was signed no later than its last logout.         *)
ReleasedBeforeLogout ==
    \A p \in released : refreshTokenHash[p.id] = None => p.iat <= revokedAt[p.id]

(* README.md:65 "Rotated on every refresh", README.md:69 "One active       *)
(* session per user": of the pairs released for a user, only the one saved *)
(* last is accepted.  The code does not do this.                           *)
OnlyLatestPairAccepted ==
    \A p \in released : ValidateRefreshTokens(p) => p = refreshTokenHash[p.id]

(* README.md:70 "Immediate revocation on logout": a closed session is      *)
(* opened again by a login only.  The code does not do this: a refresh     *)
(* that was validated before the logout saves after it.                    *)
OnlyLoginReopens ==
    [][\A u \in Users :
          refreshTokenHash[u] = None /\ refreshTokenHash'[u] # None
          => \E r \in Requests : /\ req[r].op = "login" /\ req[r].user = u
                                 /\ req[r].phase = "signed"
                                 /\ req'[r].phase = "saved"]_vars

(* README.md:71 "session validated on every request": an access token is   *)
(* accepted only while its user has a session.  JwtStrategy does not look. *)
AccessNeedsSession ==
    \A p \in released : JwtStrategy(p) => refreshTokenHash[p.id] # None

-----------------------------------------------------------------------------
(* Refinement: the column is the session, a request past its guard is a    *)
(* ticket until it saves.                                                  *)

Pending(r) == req[r].phase \in {"validated", "signed"}

Register == INSTANCE SessionRegister WITH
    open   <- [u \in Users |-> refreshTokenHash[u] # None],
    ticket <- [r \in Requests |->
                  IF Pending(r) THEN [op |-> req[r].op, user |-> req[r].user]
                                ELSE None]

(* Refresh and logout are admitted only against an open session, a request *)
(* takes effect at most once, and nothing but an admitted request changes  *)
(* a session (JwtRefreshGuard before both handlers, auth.controller.ts:44).*)
ImplementsSessionRegister == Register!Spec

(* What the other components may assume about the cookies: a response puts *)
(* one pair into one browser or clears it, never a pair from the future or *)
(* one signed after its user's session ended, and nothing else touches a   *)
(* cookie (saved first, then set or cleared: auth.service.ts:39, 72, 107). *)
Cookies == INSTANCE BrowserCookies WITH
    ended <- [u \in Users |->
                 IF refreshTokenHash[u] = None THEN revokedAt[u] ELSE None]

ImplementsBrowserCookies == Cookies!Spec

=============================================================================
