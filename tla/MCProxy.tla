------------------------------ MODULE MCProxy ------------------------------
(* A small instance of the proxy for TLC. *)
EXTENDS Proxy

CONSTANTS c1, c2, c3

ThreeConns == {c1, c2, c3}
=============================================================================
