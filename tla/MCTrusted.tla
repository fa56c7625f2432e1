------------------------------- MODULE MCTrusted -------------------------------
(* TrustedEvent with two events that state the same fact, delivered at once. *)
EXTENDS TrustedEvent, TLC

CONSTANTS a, b, e1, e2

MCWorker == {a, b}
MCEvent == {e1, e2}
MCEventOf == (a :> e1) @@ (b :> e2)
=============================================================================
