------------------------------ MODULE MCDelivery ------------------------------
(* Instances of Delivery for TLC; the bounds are given by the cfg files.     *)
EXTENDS Delivery
=============================================================================
