----------------------------- MODULE HttpPipeline -----------------------------
(***************************************************************************)
(* What a POST passes before its handler runs, next to the auth module,    *)
(* whose responses replace the cookie that CSRF tokens are bound to.       *)
(*                                                                         *)
(* A page is a tab of a browser.  It fetches a CSRF token, keeps it in its *)
(* memory, and sends it as a header with every POST of a receipt; the      *)
(* cookies of its browser, shared by all its tabs, go along by themselves. *)
(* The routes of the auth controller are exempt.  A POST meets             *)
(* doubleCsrfProtection, RolesGuard, ThrottlerGuard and JwtGuard, in this  *)
(* order.                                                                  *)
(*                                                                         *)
(* The server keeps nothing about CSRF tokens: what it answers is decided  *)
(* by what the request took along.  So a request is judged in the step     *)
(* that sends it; what can be late is a response, which sets the cookie.   *)
(***************************************************************************)
EXTENDS BrowserCookies

CONSTANTS
    Pages,
    Home,           \* the browser a page is in
    Nonces          \* bound: random values in use at the same time

ASSUME PagesAssumption ==
    /\ Home \in [Pages -> Clients]
    /\ None \notin [bound: AccessTokens \cup {None}, nonce: Nonces]
    /\ None \notin [token: [bound: AccessTokens \cup {None}, nonce: Nonces],
                    user: Users \cup {None}]

VARIABLES
    csrf,           \* per browser: the CSRF cookie
    page,           \* per page: its token, and whose page it was when it asked for it
    fetch,          \* per page: the response to its fetch on its way, or None
    status          \* per page: 500 if its last POST was answered so, else None

pageVars == <<csrf, page, fetch, status>>
pipelineVars == <<cookieVars, pageVars>>

(* hmac and random value; the hmac names the access token it was made for. *)
Tokens == [bound: AccessTokens \cup {None}, nonce: Nonces]

NoPage == [token |-> None, user |-> None]

PagesInit ==
    /\ csrf = [c \in Clients |-> None]
    /\ page = [p \in Pages |-> NoPage]
    /\ fetch = [p \in Pages |-> None]
    /\ status = [p \in Pages |-> None]

PipelineInit == Init /\ PagesInit

-----------------------------------------------------------------------------
UserOf(access) == IF access = None THEN None ELSE access.id

(* Variant: the token of a user is looked up under the wrong name.         *)
SessionIdentifierAnonymous(access) == None

(* getSessionIdentifier: the access token, or 'anonymous' (None).          *)
SessionIdentifier(access) == access

(* The token in the cookie was made for this access token.                 *)
ValidCookie(access, cookie) ==
    cookie # None /\ cookie.bound = SessionIdentifier(access)

(* The header repeats the cookie, and the cookie is valid.                 *)
ValidateRequest(header, access, cookie) ==
    header = cookie /\ ValidCookie(access, cookie)

InUse == {csrf[c] : c \in Clients} \cup {page[p].token : p \in Pages}
         \cup {fetch[p].token : p \in {q \in Pages : fetch[q] # None}}

(* 32 random bytes are new: no token in use is made again.                 *)
NewTokens(access) ==
    {t \in [bound: {SessionIdentifier(access)}, nonce: Nonces] : t \notin InUse}

NewToken(access) == CHOOSE t \in NewTokens(access) : TRUE

(* Variant: the cookie is repeated, be it there or not.                    *)
GenerateCsrfTokenVerbatim(access, cookie) == cookie

(* generateCsrfToken repeats a valid cookie, or makes a new token.         *)
GenerateCsrfToken(access, cookie) ==
    IF ValidCookie(access, cookie) THEN cookie ELSE NewToken(access)

(* GET /auth/csrf-token: the answer goes on its way.                       *)
FetchCsrfToken(p) ==
    LET access == AccessCookie(Home[p]) IN
    /\ fetch[p] = None
    /\ NewTokens(access) # {}       \* bound
    /\ fetch' = [fetch EXCEPT ![p] =
                    [token |-> GenerateCsrfToken(access, csrf[Home[p]]),
                     user |-> UserOf(access)]]
    /\ UNCHANGED <<cookieVars, csrf, page, status>>

(* The response arrives: Set-Cookie for the browser, and for the page a    *)
(* token it has not been refused with.                                     *)
DeliverCsrfToken(p) ==
    /\ fetch[p] # None
    /\ csrf' = [csrf EXCEPT ![Home[p]] = fetch[p].token]
    /\ page' = [page EXCEPT ![p] = fetch[p]]
    /\ status' = [status EXCEPT ![p] = None]
    /\ fetch' = [fetch EXCEPT ![p] = None]
    /\ UNCHANGED cookieVars

(* The response to a fetch is lost.                                        *)
LoseCsrfToken(p) ==
    /\ fetch[p] # None
    /\ fetch' = [fetch EXCEPT ![p] = None]
    /\ UNCHANGED <<cookieVars, csrf, page, status>>

(* The page POSTs with the token it has; the cookies go along.             *)
Valid(p) ==
    ValidateRequest(page[p].token, AccessCookie(Home[p]), csrf[Home[p]])

Answer(p, code) ==
    /\ fetch[p] = None
    /\ status' = [status EXCEPT ![p] = code]
    /\ UNCHANGED <<cookieVars, csrf, page, fetch>>

(* doubleCsrfProtection refuses with an error of status 403 that is no     *)
(* HttpException: AllExceptionsFilter answers 500.                         *)
RefuseCsrf(p) == ~Valid(p) /\ Answer(p, 500)

(* No route names roles: RolesGuard lets everything pass.  ThrottlerGuard  *)
(* refuses what exceeds its limit, whatever the request holds: 429.        *)
Throttle(p) == Valid(p) /\ Answer(p, None)

(* JwtGuard refuses: 401.                                                  *)
RefuseJwt(p) == Valid(p) /\ AccessCookie(Home[p]) = None /\ Answer(p, None)

(* A POST of the page would reach its handler.                             *)
Admitted(p) == Valid(p) /\ AccessCookie(Home[p]) # None

(* The handler runs for the user of the access token.                      *)
Handle(p) == Admitted(p) /\ Answer(p, None)

(* The POST or its answer is lost.                                         *)
LosePost(p) == Answer(p, None)

PageStep(p) ==
    \/ FetchCsrfToken(p) \/ DeliverCsrfToken(p) \/ LoseCsrfToken(p)
    \/ RefuseCsrf(p) \/ Throttle(p) \/ RefuseJwt(p) \/ Handle(p) \/ LosePost(p)

PagesNext == \E p \in Pages : PageStep(p)

PipelineNext ==
    \/ Next /\ UNCHANGED pageVars
    \/ PagesNext

PipelineSpec == PipelineInit /\ [][PipelineNext]_pipelineVars

(* The pages by themselves, next to whatever gives them their cookies.     *)
PagesSpec == PagesInit /\ [][PagesNext]_pageVars

(* A page wants a token when it has none or was refused with it.           *)
Wants(p) == page[p].token = None \/ status[p] = 500

(* A page goes on POSTing, fetches a token when it wants one, and not      *)
(* every answer to it is lost.  Nothing is required of the auth module,    *)
(* the clock, or pages that fetch for other reasons.                       *)
PipelineFairness ==
    \A p \in Pages :
        /\ SF_pipelineVars(RefuseCsrf(p))
        /\ SF_pipelineVars(Wants(p) /\ FetchCsrfToken(p))
        /\ SF_pipelineVars(DeliverCsrfToken(p))

FairPipelineSpec == PipelineSpec /\ PipelineFairness

-----------------------------------------------------------------------------
PageRecord == [token: Tokens \cup {None}, user: Users \cup {None}]

PipelineTypeOK ==
    /\ now \in Nat
    /\ jar \in [Clients -> AccessTokens \cup {None}]
    /\ ended \in [Users -> Nat \cup {None}]
    /\ csrf \in [Clients -> Tokens \cup {None}]
    /\ page \in [Pages -> PageRecord]
    /\ fetch \in [Pages -> [token: Tokens, user: Users \cup {None}] \cup {None}]
    /\ status \in [Pages -> {None, 500}]

(* A page never writes in the name of another user than the one it showed  *)
(* when it asked for its token: when another tab signs out and someone     *)
(* else in, or an old response of the auth module arrives late, the POST   *)
(* of the old page is refused (the binding to the access token,            *)
(* main.ts:72).                                                            *)
NoWriteAsAnotherUser ==
    \A p \in Pages :
        Admitted(p) => UserOf(AccessCookie(Home[p])) = page[p].user

(* Nobody writes long after a logout: once a user has been without a       *)
(* session for an access lifetime, no POST is handled in its name, in      *)
(* whatever browser an old token is left and however late a response       *)
(* brings one.  This is what the "immediate revocation" of README.md:70    *)
(* comes to, since JwtGuard asks no database (jwt.strategy.ts:20).         *)
NoWriteAfterLogout ==
    \A p \in Pages :
        Admitted(p) => LET u == UserOf(AccessCookie(Home[p]))
                       IN  ended[u] = None \/ now < ended[u] + AccessTTL

(* Tabs of one browser do not keep each other from writing: once the       *)
(* access tokens stay what they are, and pages fetch only when they want a *)
(* token, every page gets one that goes on working, whatever responses     *)
(* were under way before and in whatever order they arrive (the csrf-token *)
(* route, main.ts:99).  Pages that fetch all the time can take turns in    *)
(* undoing each other's cookie for ever.                                   *)
PagesConverge ==
    /\ <>[][FALSE]_<<now, jar>>
    /\ <>[][\A p \in Pages : FetchCsrfToken(p) => Wants(p)]_pipelineVars
    => <>[](\A p \in Pages : Valid(p))

=============================================================================
