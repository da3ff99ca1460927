----------------------------- MODULE MCEndpoint -----------------------------
(* Small instances of an endpoint. *)
EXTENDS Endpoint

CONSTANTS s1, s2, rx
=============================================================================
