-------------------------- MODULE HttpPipelineProofs --------------------------
(***************************************************************************)
(* Proofs about HttpPipeline for any number of users, browsers and pages,  *)
(* any supply of random values and any lifetime of the access token.       *)
(***************************************************************************)
EXTENDS HttpPipeline, TLAPS

USE PagesAssumption, LifetimeAssumption

(* A record of a page or of an answer names the user of the access token   *)
(* its CSRF token was made for.                                            *)
Named(rec) == rec.token # None => rec.user = UserOf(rec.token.bound)

(* No browser has a token from the future, nor one signed after its user's *)
(* session ended.                                                          *)
JarOK ==
    \A c \in Clients :
        jar[c] # None =>
            /\ jar[c].iat <= now
            /\ ended[jar[c].id] # None => jar[c].iat <= ended[jar[c].id]

(* The inductive invariant: nobody holds a CSRF token under another name   *)
(* than the one it is bound to, or an access token its user's last session *)
(* does not account for.                                                   *)
IInv ==
    /\ PipelineTypeOK
    /\ JarOK
    /\ \A p \in Pages : Named(page[p])
    /\ \A p \in Pages : fetch[p] # None => Named(fetch[p])

LEMMA AccessCookieType ==
    ASSUME PipelineTypeOK, NEW c \in Clients
    PROVE  AccessCookie(c) \in AccessTokens \cup {None}
  BY DEF PipelineTypeOK, AccessCookie

LEMMA UserOfType ==
    ASSUME NEW a \in AccessTokens \cup {None}
    PROVE  UserOf(a) \in Users \cup {None}
  BY DEF UserOf, AccessTokens

(* A generated token is one, and bound to the access token it was made     *)
(* for, whether it is new or the one of the cookie.                        *)
LEMMA GeneratedToken ==
    ASSUME NEW a \in AccessTokens \cup {None}, NEW cookie \in Tokens \cup {None},
           NewTokens(a) # {}
    PROVE  GenerateCsrfToken(a, cookie) \in Tokens /\ GenerateCsrfToken(a, cookie).bound = a
<1>1. NewToken(a) \in NewTokens(a)
  BY DEF NewToken
<1>2. NewToken(a) \in Tokens /\ NewToken(a).bound = a
  BY <1>1 DEF NewTokens, Tokens, SessionIdentifier
<1>3. CASE ValidCookie(a, cookie)
  BY <1>3 DEF GenerateCsrfToken, ValidCookie, SessionIdentifier
<1>4. CASE ~ValidCookie(a, cookie)
  BY <1>2, <1>4 DEF GenerateCsrfToken
<1>. QED
  BY <1>3, <1>4

LEMMA InitIInv == PipelineInit => IInv
  BY DEF PipelineInit, PagesInit, Init, IInv, PipelineTypeOK, JarOK, PageRecord, NoPage, Named

LEMMA FetchPreserves ==
    ASSUME IInv, NEW p \in Pages, FetchCsrfToken(p)
    PROVE  IInv'
<1> DEFINE a == AccessCookie(Home[p])
           rec == [token |-> GenerateCsrfToken(a, csrf[Home[p]]), user |-> UserOf(a)]
<1>1. a \in AccessTokens \cup {None} /\ csrf[Home[p]] \in Tokens \cup {None}
  BY AccessCookieType DEF IInv, PipelineTypeOK
<1>2. fetch' = [fetch EXCEPT ![p] = rec] /\ NewTokens(a) # {}
  BY DEF FetchCsrfToken
<1>3. UNCHANGED <<cookieVars, csrf, page, status>>
  BY DEF FetchCsrfToken
<1> HIDE DEF a
<1>4. rec \in [token: Tokens, user: Users \cup {None}] /\ Named(rec)
  BY <1>1, <1>2, GeneratedToken, UserOfType DEF Named
<1> HIDE DEF rec
<1>5. PipelineTypeOK'
  BY <1>2, <1>3, <1>4 DEF IInv, PipelineTypeOK, cookieVars
<1>6. \A q \in Pages : Named(page[q])'
  BY <1>3 DEF IInv, Named
<1>7. \A q \in Pages : fetch'[q] # None => Named(fetch'[q])
  BY <1>2, <1>4 DEF IInv, PipelineTypeOK
<1>8. \A q \in Pages : (fetch[q] # None => Named(fetch[q]))'
  BY <1>7 DEF Named
<1>9. JarOK'
  BY <1>3 DEF IInv, JarOK, cookieVars
<1>. QED
  BY <1>5, <1>6, <1>8, <1>9 DEF IInv

LEMMA DeliverPreserves ==
    ASSUME IInv, NEW p \in Pages, DeliverCsrfToken(p)
    PROVE  IInv'
<1>1. fetch[p] \in [token: Tokens, user: Users \cup {None}] /\ Named(fetch[p])
  BY DEF DeliverCsrfToken, IInv, PipelineTypeOK
<1>2. PipelineTypeOK'
  BY <1>1 DEF DeliverCsrfToken, IInv, PipelineTypeOK, PageRecord, cookieVars
<1>3. \A q \in Pages : Named(page[q])'
  BY <1>1 DEF DeliverCsrfToken, IInv, PipelineTypeOK, Named
<1>4. \A q \in Pages : (fetch[q] # None => Named(fetch[q]))'
  BY DEF DeliverCsrfToken, IInv, PipelineTypeOK, Named
<1>5. JarOK'
  BY DEF DeliverCsrfToken, IInv, JarOK, cookieVars
<1>. QED
  BY <1>2, <1>3, <1>4, <1>5 DEF IInv

(* What the auth module and the clock do keeps cookies and sessions in     *)
(* order, of whatever session and however late the response.               *)
LEMMA CookiesPreserve ==
    ASSUME IInv, Next, UNCHANGED pageVars
    PROVE  IInv'
<1>0. /\ now \in Nat /\ jar \in [Clients -> AccessTokens \cup {None}]
      /\ ended \in [Users -> Nat \cup {None}] /\ JarOK
  BY DEF IInv, PipelineTypeOK
<1> DEFINE CookiesOK == /\ now' \in Nat /\ jar' \in [Clients -> AccessTokens \cup {None}]
                        /\ ended' \in [Users -> Nat \cup {None}] /\ JarOK'
<1>1. ASSUME Tick PROVE CookiesOK
  <2>1. \A c \in Clients : jar[c] # None => jar[c].iat \in Nat
    BY <1>0 DEF AccessTokens
  <2>. QED
    BY <1>0, <1>1, <2>1 DEF Tick, JarOK
<1>2. ASSUME NEW c \in Clients, AuthResponse(c) PROVE CookiesOK
  <2>1. PICK p \in Signed \cup {None} : jar' = [jar EXCEPT ![c] = p]
    BY <1>2 DEF AuthResponse
  <2>2. p # None => /\ p \in AccessTokens /\ p.iat <= now
                    /\ ended[p.id] # None => p.iat <= ended[p.id]
    BY <1>0 DEF Signed, AccessTokens
  <2>3. UNCHANGED <<now, ended>>
    BY <1>2 DEF AuthResponse
  <2>4. jar' \in [Clients -> AccessTokens \cup {None}]
    BY <1>0, <2>1, <2>2
  <2>5. JarOK'
    BY <1>0, <2>1, <2>2, <2>3 DEF JarOK
  <2>. QED
    BY <1>0, <2>3, <2>4, <2>5
<1>3. ASSUME NEW u \in Users, SessionBegins(u) PROVE CookiesOK
  BY <1>0, <1>3 DEF SessionBegins, JarOK, AccessTokens
<1>4. ASSUME NEW u \in Users, SessionEnds(u) PROVE CookiesOK
  <2>1. \A c \in Clients : jar[c] # None => jar[c].id \in Users
    BY <1>0 DEF AccessTokens
  <2>2. /\ ended' \in [Users -> Nat \cup {None}]
        /\ \A v \in Users : ended'[v] = ended[v] \/ ended'[v] = now
    BY <1>0, <1>4 DEF SessionEnds
  <2>. QED
    BY <1>0, <1>4, <2>1, <2>2 DEF SessionEnds, JarOK
<1>5. CookiesOK
  BY <1>1, <1>2, <1>3, <1>4 DEF Next
<1>. QED
  BY <1>5 DEF IInv, PipelineTypeOK, pageVars, Named

LEMMA NextIInv == IInv /\ [PipelineNext]_pipelineVars => IInv'
<1>. SUFFICES ASSUME IInv, [PipelineNext]_pipelineVars PROVE IInv'
  OBVIOUS
<1>1. ASSUME Next, UNCHANGED pageVars PROVE IInv'
  BY <1>1, CookiesPreserve
<1>2. ASSUME NEW p \in Pages, LoseCsrfToken(p) PROVE IInv'
  BY <1>2 DEF LoseCsrfToken, IInv, PipelineTypeOK, JarOK, cookieVars, Named
<1>3. ASSUME NEW p \in Pages, NEW code \in {None, 500}, Answer(p, code) PROVE IInv'
  BY <1>3 DEF Answer, IInv, PipelineTypeOK, JarOK, cookieVars, Named
<1>4. CASE UNCHANGED pipelineVars
  BY <1>4 DEF pipelineVars, cookieVars, pageVars, IInv, PipelineTypeOK,
              JarOK, Named
<1>. QED
  BY <1>1, <1>2, <1>3, <1>4, FetchPreserves, DeliverPreserves
     DEF PipelineNext, PagesNext, PageStep, RefuseCsrf, Throttle, RefuseJwt, Handle, LosePost

LEMMA Inductive == PipelineSpec => []IInv
  BY InitIInv, NextIInv, PTL DEF PipelineSpec

(* Type correctness.                                                       *)
THEOREM TypeCorrect == PipelineSpec => []PipelineTypeOK
<1>1. IInv => PipelineTypeOK
  BY DEF IInv
<1>. QED
  BY <1>1, Inductive, PTL

LEMMA AdmittedAsShown == IInv => NoWriteAsAnotherUser
  BY DEF IInv, Named, NoWriteAsAnotherUser, Admitted, Valid, ValidateRequest,
         ValidCookie, SessionIdentifier

(* A POST that is handled goes to the user of the access token, and that   *)
(* is the user the page asked its token for (getSessionIdentifier,         *)
(* main.ts:72).                                                            *)
THEOREM NeverAsAnotherUser == PipelineSpec => []NoWriteAsAnotherUser
  BY AdmittedAsShown, Inductive, PTL

(* What is attached is unexpired, and no younger than its user's session.  *)
LEMMA AdmittedInTime == IInv => NoWriteAfterLogout
<1>. SUFFICES ASSUME IInv, NEW p \in Pages, Admitted(p),
                     NEW u, u = UserOf(AccessCookie(Home[p])), ended[u] # None
              PROVE  now < ended[u] + AccessTTL
  BY DEF NoWriteAfterLogout
<1>1. /\ Home[p] \in Clients /\ jar[Home[p]] # None
      /\ AccessUnexpired(jar[Home[p]]) /\ u = jar[Home[p]].id
  BY DEF Admitted, AccessCookie, UserOf
<1>2. jar[Home[p]].iat \in Nat /\ u \in Users /\ now \in Nat /\ ended[u] \in Nat
  BY <1>1 DEF IInv, PipelineTypeOK, AccessTokens
<1>3. jar[Home[p]].iat <= ended[u]
  BY <1>1 DEF IInv, JarOK
<1>. QED
  BY <1>1, <1>2, <1>3 DEF AccessUnexpired

(* Once a user has been without a session for an access lifetime, no POST  *)
(* is handled in its name: for any number of users, browsers and pages,    *)
(* any lifetime, and responses as late as they like (auth.service.ts:70    *)
(* against jwt.strategy.ts:20).                                            *)
THEOREM NobodyAfterLogout == PipelineSpec => []NoWriteAfterLogout
  BY AdmittedInTime, Inductive, PTL

(* Either the cookies move or the pages do.                                *)
LEMMA ComposedStep == [Next]_cookieVars /\ [PagesNext]_pageVars <=> [PipelineNext]_pipelineVars
<1>1. PagesNext => UNCHANGED cookieVars
  BY DEF PagesNext, PageStep, FetchCsrfToken, DeliverCsrfToken, LoseCsrfToken, RefuseCsrf,
         Throttle, RefuseJwt, Handle, LosePost, Answer
<1>. QED
  BY <1>1 DEF PipelineNext, pipelineVars

(* The two components make up the pipeline, and nothing else does: what is *)
(* proved of it holds of the pages next to any auth module that implements *)
(* BrowserCookies (main.ts:89, the routes of that module are exempt).      *)
THEOREM Composes == Spec /\ PagesSpec <=> PipelineSpec
<1>1. Init /\ PagesInit <=> PipelineInit
  BY DEF PipelineInit
<1>. QED
  BY <1>1, ComposedStep, PTL DEF Spec, PagesSpec, PipelineSpec

=============================================================================
