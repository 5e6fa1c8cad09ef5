------------------------------ MODULE JwtLayout ------------------------------
(***************************************************************************)
(* Which claims of a refresh token reach its stored bcrypt hash.           *)
(*                                                                         *)
(* AuthService stores bcrypt.hash(refreshToken) and later compares a       *)
(* presented token with it.  bcrypt reads a bounded prefix of its input; a *)
(* JWT starts with a constant header, and the payload that follows is the  *)
(* JSON text of the claims in the order login and refreshTokens list them, *)
(* with iat and exp appended by the signer.  The machine below is bcrypt   *)
(* reading the token character by character; it records the claims it has  *)
(* touched and the claims it has read to their last digit.                 *)
(***************************************************************************)
EXTENDS Integers

CONSTANT Shapes         \* lengths, in bytes, of the claims that vary by user

(* id is a PostgreSQL integer, at most 10 digits; the other three are a    *)
(* column of at least one byte each.                                       *)
ASSUME ShapesAssumption ==
    Shapes \subseteq [id: 1..10, email: Nat \ {0}, tenantId: Nat \ {0},
                      role: Nat \ {0}]

Claims == {"id", "email", "tenantId", "role", "iat", "exp"}

(* Characters of {"alg":"HS256","typ":"JWT"} in base64url.                 *)
HeaderLength == 36

(* Bytes of its input that bcrypt uses.                                    *)
BcryptWindow == 72

(* Digits of a Unix time in seconds.                                       *)
InstantWidth == 10

(* A later order of the claims in which the signer's iat comes first.      *)
ClaimOffsetIatFirst(s, c) ==
    CASE c = "iat"      -> 7
      [] c = "id"       -> 23
      [] c = "email"    -> 33 + s.id
      [] c = "tenantId" -> 46 + s.id + s.email
      [] c = "role"     -> 55 + s.id + s.email + s.tenantId
      [] c = "exp"      -> 63 + s.id + s.email + s.tenantId + s.role

(* An order of the claims in which the id follows the other user claims.   *)
ClaimOffsetIdLate(s, c) ==
    CASE c = "email"    -> 10
      [] c = "tenantId" -> 23 + s.email
      [] c = "role"     -> 32 + s.email + s.tenantId
      [] c = "id"       -> 39 + s.email + s.tenantId + s.role
      [] c = "iat"      -> 46 + s.id + s.email + s.tenantId + s.role
      [] c = "exp"      -> 63 + s.id + s.email + s.tenantId + s.role

(* Byte of the payload at which the value of claim c starts, in            *)
(* {"id":1,"email":"..","tenantId":1,"role":"..","iat":..,"exp":..}.       *)
ClaimOffset(s, c) ==
    CASE c = "id"       -> 6
      [] c = "email"    -> 16 + s.id
      [] c = "tenantId" -> 29 + s.id + s.email
      [] c = "role"     -> 38 + s.id + s.email + s.tenantId
      [] c = "iat"      -> 46 + s.id + s.email + s.tenantId + s.role
      [] c = "exp"      -> 63 + s.id + s.email + s.tenantId + s.role

ClaimWidth(s, c) ==
    CASE c = "id"       -> s.id
      [] c = "email"    -> s.email
      [] c = "tenantId" -> s.tenantId
      [] c = "role"     -> s.role
      [] c \in {"iat", "exp"} -> InstantWidth

(* base64url puts byte o of the payload into characters 8o/6 .. (8o+7)/6.  *)
FirstChar(o) == HeaderLength + 1 + (8 * o) \div 6
LastChar(o)  == HeaderLength + 1 + (8 * o + 7) \div 6

StartOf(s, c) == FirstChar(ClaimOffset(s, c))
EndOf(s, c)   == LastChar(ClaimOffset(s, c) + ClaimWidth(s, c) - 1)

VARIABLES
    shape,      \* the user the token was signed for
    pos,        \* characters of the token bcrypt has read
    touched,    \* claims of which some character was read
    complete    \* claims read to their last character

vars == <<shape, pos, touched, complete>>

Init ==
    /\ shape \in Shapes
    /\ pos = 0
    /\ touched = {}
    /\ complete = {}

(* Reading on past the window.                                             *)
ReadCharUnbounded ==
    /\ pos <= BcryptWindow
    /\ pos' = pos + 1
    /\ touched'  = touched  \cup {c \in Claims : StartOf(shape, c) = pos}
    /\ complete' = complete \cup {c \in Claims : EndOf(shape, c) = pos}
    /\ UNCHANGED shape

(* bcrypt consumes one more character, while it is inside the window.      *)
ReadChar ==
    /\ pos < BcryptWindow
    /\ pos' = pos + 1
    /\ touched'  = touched  \cup {c \in Claims : StartOf(shape, c) = pos}
    /\ complete' = complete \cup {c \in Claims : EndOf(shape, c) = pos}
    /\ UNCHANGED shape

Next == ReadChar

Spec == Init /\ [][Next]_vars

-----------------------------------------------------------------------------

TypeOK ==
    /\ shape \in Shapes
    /\ pos \in 0..BcryptWindow
    /\ touched \subseteq Claims
    /\ complete \subseteq Claims

(* No character that depends on when a token was signed or when it expires *)
(* is ever hashed: rotating a refresh token (auth.service.ts:107) stores a *)
(* hash that the previous token matches as well.                           *)
IssueInstantUnseen == touched \cap {"iat", "exp"} = {}

(* Once bcrypt has stopped, every digit of the id was hashed: a token of   *)
(* one user never matches the stored hash of another                       *)
(* (auth.service.ts:175).                                                  *)
OwnerSeen == pos = BcryptWindow => "id" \in complete

=============================================================================
