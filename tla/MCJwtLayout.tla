----------------------------- MODULE MCJwtLayout -----------------------------
(* JwtLayout on short and long ids, addresses, tenants and roles; the      *)
(* lengths below are 1, a typical value and a maximum.                     *)
EXTENDS JwtLayout

MCShapes == [id: {1, 5, 10}, email: {1, 6, 40}, tenantId: {1, 10}, role: {1, 5}]
=============================================================================
