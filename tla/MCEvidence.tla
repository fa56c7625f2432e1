------------------------------- MODULE MCEvidence -------------------------------
(* Small instances of EvidencePlan: some calls come when all others are over. *)
EXTENDS EvidencePlan

CONSTANTS d1, d2, d3, w1, w2

MCAfter == [c \in Call |-> CASE c = d3 -> {d1, d2, w1} [] c = w2 -> Call \ {w2} [] OTHER -> {}]
===============================================================================
