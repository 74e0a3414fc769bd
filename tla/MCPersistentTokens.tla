------------------------- MODULE MCPersistentTokens -------------------------
(* PersistentTokens on one key of the Map, for TLC: two keys share nothing but the  *)
(* connections, on which a query about the other waits like one about the same.     *)
EXTENDS PersistentTokens

CONSTANT u1

OneUser == {u1}
OneKind == {"no-exp"}
=============================================================================
