------------------------------ MODULE MCForwarder ------------------------------
(* The 5340 and two neighbours; the 9151 itself has nothing to tell.         *)
EXTENDS Forwarder

Sources == <<{1}, {}, {2, 3}>>
TwoOfTheFirst == <<2, 1, 1>>

=============================================================================
