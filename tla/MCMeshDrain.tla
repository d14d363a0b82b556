------------------------------ MODULE MCMeshDrain ------------------------------
(* Values for MeshDrain: two readers, on one gateway or on two.               *)
EXTENDS MeshDrain

OneOrTwoGateways == {<<1, 1>>, <<1, 2>>}
=============================================================================
