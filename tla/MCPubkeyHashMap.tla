--------------------------- MODULE MCPubkeyHashMap ---------------------------
(***************************************************************************)
(* Four keys in two buckets: three of them collide.                        *)
(***************************************************************************)
EXTENDS PubkeyHashMap

CONSTANTS K1, K2, K3, K4

FourKeys == {K1, K2, K3, K4}
TwoHashes == {1, 2}
ThreeCollide == [k \in FourKeys |-> IF k = K4 THEN 2 ELSE 1]

==============================================================================
