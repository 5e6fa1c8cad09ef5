---------------------------- MODULE BrowserCookies ----------------------------
(***************************************************************************)
(* What the rest of the server sees of the auth module: the access cookies *)
(* of the browsers, and who has a session.  A response of login or refresh *)
(* puts an access token into the browser that asked, one of logout takes   *)
(* it away; which of them arrives next, and how old its token is by then,  *)
(* is open.  But the module saves before it answers, so no response brings *)
(* a token that is younger than the end of its user's session.             *)
(* AuthSession implements this.                                            *)
(***************************************************************************)
EXTENDS Integers

CONSTANTS
    Users,
    Clients,        \* browsers
    AccessTTL,      \* ACCESS_TOKEN_VALIDITY_DURATION_IN_SEC
    MaxTime,        \* bound: the clock stops here
    None            \* no token

ASSUME LifetimeAssumption == AccessTTL \in Nat

VARIABLES
    now,            \* seconds
    jar,            \* per browser: the access token it was given last, or None
    ended           \* per user: when its session ended, or None while it has one

cookieVars == <<now, jar, ended>>

AccessTokens == [id: Users, iat: Nat]

(* JwtStrategy: the signature and the expiry, and nothing of the database. *)
AccessUnexpired(p) == now < p.iat + AccessTTL

(* The cookie a browser attaches: it expires together with its token.      *)
AccessCookie(c) ==
    IF jar[c] # None /\ AccessUnexpired(jar[c]) THEN jar[c] ELSE None

Init ==
    /\ now = 0
    /\ jar = [c \in Clients |-> None]
    /\ ended = [u \in Users |-> 0]

(* The tokens a response may bring by now.                                 *)
Signed ==
    {p \in [id: Users, iat: 0..now] : ended[p.id] = None \/ p.iat <= ended[p.id]}

(* Variant: the cookies are set before the new hash is saved.              *)
AuthResponseEarly(c) ==
    /\ \E p \in [id: Users, iat: 0..now] : jar' = [jar EXCEPT ![c] = p]
    /\ UNCHANGED <<now, ended>>

(* A response arrives: Set-Cookie sets or clears the access token.         *)
AuthResponse(c) ==
    /\ \E p \in Signed \cup {None} : jar' = [jar EXCEPT ![c] = p]
    /\ UNCHANGED <<now, ended>>

(* A login or a refresh has saved its hash.                                *)
SessionBegins(u) ==
    /\ ended' = [ended EXCEPT ![u] = None]
    /\ UNCHANGED <<now, jar>>

(* A logout has cleared it.                                                *)
SessionEnds(u) ==
    /\ ended' = [ended EXCEPT ![u] = now]
    /\ UNCHANGED <<now, jar>>

Tick ==
    /\ now < MaxTime
    /\ now' = now + 1
    /\ UNCHANGED <<jar, ended>>

Next ==
    \/ Tick
    \/ \E c \in Clients : AuthResponse(c)
    \/ \E u \in Users : SessionBegins(u) \/ SessionEnds(u)

Spec == Init /\ [][Next]_cookieVars

=============================================================================
