----------------------------- MODULE MCBalancer -----------------------------
(* The runs of Balancer: three targets, so that the wrap of the counter is not *)
(* a multiple of their number.                                                 *)
EXTENDS Balancer
=============================================================================
