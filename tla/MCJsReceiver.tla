---------------------------- MODULE MCJsReceiver ----------------------------
(* Small instances of the JavaScript receiver. *)
EXTENDS JsReceiver

CONSTANTS p1, p2, p3
=============================================================================
