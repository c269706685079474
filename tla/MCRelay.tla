------------------------------- MODULE MCRelay -------------------------------
(* Requests and responses of a few bytes, read and written in any pieces. *)
EXTENDS Relay
=============================================================================
