------------------------- MODULE MCIdempotentCreate -------------------------
(* Two attempts of one request, one attempt that reuses its key for another *)
(* body, one by another tenant under the same key, one without a key.       *)
EXTENDS IdempotentCreate

CONSTANTS first, again, other, foreign, keyless, tenantA, tenantB, theKey, body1, body2

MCTenants == {tenantA, tenantB}
MCBodies == {body1, body2}
MCTenantOf == [a \in Attempts |-> IF a = foreign THEN tenantB ELSE tenantA]
MCKeyOf == [a \in Attempts |-> IF a = keyless THEN NoKey ELSE theKey]
MCBodyOf == [a \in Attempts |-> IF a = other THEN body2 ELSE body1]
=============================================================================
