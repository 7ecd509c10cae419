------------------------------ MODULE MCWebUI ------------------------------
(* Two searches, two assets and two connections for TLC. *)
EXTENDS WebUI, TLC

CONSTANTS q1, q2, plain, narrow, a1, a2, a3, k1, k2
=============================================================================
