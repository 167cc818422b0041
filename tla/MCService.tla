------------------------------ MODULE MCService ------------------------------
(* The instance of Service that TLC checks. *)
EXTENDS Service

CONSTANTS w1, w2, e1

MCWorkers == {w1, w2}
MCAcceptEvents == {e1}
MCSessions == 1..3
=============================================================================
