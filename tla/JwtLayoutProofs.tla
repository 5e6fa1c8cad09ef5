--------------------------- MODULE JwtLayoutProofs ---------------------------
(***************************************************************************)
(* JwtLayout for every length of every claim.  The argument: a claim is    *)
(* touched only after its first character was passed, and is complete once *)
(* its last one was; iat and exp start beyond the window and the id ends   *)
(* inside it.                                                              *)
(***************************************************************************)
EXTENDS JwtLayout, TLAPS

(* iat and exp start beyond bcrypt's window, whatever precedes them.       *)
LEMMA InstantsOutside ==
    ASSUME NEW s \in Shapes
    PROVE  StartOf(s, "iat") > BcryptWindow /\ StartOf(s, "exp") > BcryptWindow
<1>1. /\ s.id \in 1..10 /\ s.email \in Nat /\ s.tenantId \in Nat /\ s.role \in Nat
  BY ShapesAssumption
<1>2. ClaimOffset(s, "iat") = 46 + s.id + s.email + s.tenantId + s.role
  BY DEF ClaimOffset
<1>3. ClaimOffset(s, "exp") = 63 + s.id + s.email + s.tenantId + s.role
  BY DEF ClaimOffset
<1>4. \A o \in Nat : o >= 46 => FirstChar(o) > BcryptWindow
  BY DEF FirstChar, HeaderLength, BcryptWindow
<1>. QED
  BY <1>1, <1>2, <1>3, <1>4 DEF StartOf

(* The id, at most ten digits at the front of the payload, ends inside the *)
(* window.                                                                 *)
LEMMA OwnerInside ==
    ASSUME NEW s \in Shapes
    PROVE  EndOf(s, "id") \in 0..(BcryptWindow - 1)
<1>1. s.id \in 1..10
  BY ShapesAssumption
<1>2. ClaimOffset(s, "id") + ClaimWidth(s, "id") - 1 = 5 + s.id
  BY <1>1 DEF ClaimOffset, ClaimWidth
<1>3. \A w \in 1..10 : LastChar(5 + w) \in 0..(BcryptWindow - 1)
  BY DEF LastChar, HeaderLength, BcryptWindow
<1>. QED
  BY <1>1, <1>2, <1>3 DEF EndOf

(* What bcrypt has read so far: touched claims start, and claims that end  *)
(* are complete, before pos.                                               *)
IInv ==
    /\ TypeOK
    /\ \A c \in touched : StartOf(shape, c) < pos
    /\ EndOf(shape, "id") < pos => "id" \in complete

LEMMA StartsAreIntegers ==
    ASSUME NEW s \in Shapes, NEW c \in Claims
    PROVE  StartOf(s, c) \in Int
<1>1. /\ s.id \in Nat /\ s.email \in Nat /\ s.tenantId \in Nat /\ s.role \in Nat
  BY ShapesAssumption
<1>2. ClaimOffset(s, c) \in Nat
  BY <1>1 DEF ClaimOffset, Claims
<1>. QED
  BY <1>2 DEF StartOf, FirstChar, HeaderLength

LEMMA Reading == Spec => []IInv
<1>1. Init => IInv
  <2>. SUFFICES ASSUME Init PROVE IInv
    OBVIOUS
  <2>1. TypeOK
    BY DEF Init, TypeOK, BcryptWindow
  <2>2. \A c \in touched : StartOf(shape, c) < pos
    BY DEF Init
  <2>3. EndOf(shape, "id") >= 0
    BY OwnerInside DEF Init
  <2>. QED
    BY <2>1, <2>2, <2>3, OwnerInside DEF Init, IInv
<1>2. IInv /\ [Next]_vars => IInv'
  <2>. SUFFICES ASSUME IInv, [Next]_vars PROVE IInv'
    OBVIOUS
  <2>1. CASE ReadChar
    <3>1. TypeOK'
      BY <2>1 DEF IInv, TypeOK, ReadChar, BcryptWindow
    <3>2. \A c \in touched' : StartOf(shape', c) < pos'
      <4>1. SUFFICES ASSUME NEW c \in touched'
                     PROVE  StartOf(shape, c) < pos + 1
        BY <2>1 DEF ReadChar
      <4>2. pos \in Int /\ StartOf(shape, c) \in Int
        BY <3>1, <4>1, StartsAreIntegers, <2>1 DEF IInv, TypeOK, ReadChar
      <4>3. StartOf(shape, c) < pos \/ StartOf(shape, c) = pos
        BY <2>1, <4>1 DEF IInv, ReadChar
      <4>. QED
        BY <4>2, <4>3
    <3>3. (EndOf(shape, "id") < pos => "id" \in complete)'
      <4>1. pos \in Int /\ EndOf(shape, "id") \in Int
        BY OwnerInside DEF IInv, TypeOK
      <4>2. EndOf(shape, "id") = pos => "id" \in complete'
        BY <2>1 DEF ReadChar, Claims
      <4>3. EndOf(shape', "id") = EndOf(shape, "id") /\ pos' = pos + 1
        BY <2>1 DEF ReadChar
      <4>. QED
        BY <2>1, <4>1, <4>2, <4>3 DEF IInv, ReadChar
    <3>. QED
      BY <3>1, <3>2, <3>3 DEF IInv
  <2>2. CASE UNCHANGED vars
    BY <2>2 DEF IInv, TypeOK, vars
  <2>. QED
    BY <2>1, <2>2 DEF Next
<1>. QED
  BY <1>1, <1>2, PTL DEF Spec

(* For every length of every claim, no character that depends on the       *)
(* instant of signing is hashed.                                           *)
THEOREM RotationInvisible == Spec => []IssueInstantUnseen
<1>1. IInv => IssueInstantUnseen
  <2>. SUFFICES ASSUME IInv, NEW c \in {"iat", "exp"}, c \in touched
                PROVE  FALSE
    BY DEF IssueInstantUnseen
  <2>1. StartOf(shape, c) > BcryptWindow
    BY InstantsOutside DEF IInv, TypeOK
  <2>2. StartOf(shape, c) < pos /\ pos \in 0..BcryptWindow
    BY DEF IInv, TypeOK
  <2>3. StartOf(shape, c) \in Int
    BY StartsAreIntegers DEF IInv, TypeOK, Claims
  <2>. QED
    BY <2>1, <2>2, <2>3 DEF BcryptWindow
<1>. QED
  BY <1>1, Reading, PTL

(* Type correctness, for every length of every claim (the machine reads at *)
(* most bcrypt's 72 bytes, auth.service.ts:40).                            *)
THEOREM TypeCorrect == Spec => []TypeOK
<1>1. IInv => TypeOK
  BY DEF IInv
<1>. QED
  BY <1>1, Reading, PTL

(* For every length of every claim, the whole id is hashed.                *)
THEOREM OwnerBound == Spec => []OwnerSeen
<1>1. IInv => OwnerSeen
  <2>. SUFFICES ASSUME IInv, pos = BcryptWindow PROVE "id" \in complete
    BY DEF OwnerSeen
  <2>1. EndOf(shape, "id") < pos
    BY OwnerInside DEF IInv, TypeOK, BcryptWindow
  <2>. QED
    BY <2>1 DEF IInv
<1>. QED
  BY <1>1, Reading, PTL

=============================================================================
