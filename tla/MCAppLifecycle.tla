----------------------------- MODULE MCAppLifecycle -----------------------------
(* Instances of AppLifecycle for TLC. *)
EXTENDS AppLifecycle

CONSTANTS w1, w2, w3
=============================================================================
