----------------------------- MODULE MCPairing -----------------------------
(* Instance of Pairing for TLC: two devices of one name.                      *)
EXTENDS Pairing

CONSTANTS a, b

MCRuns == [d \in {a, b} |-> IF d = a THEN 3 ELSE 2]
MCName == [d \in {a, b} |-> "bypass-device"]
=============================================================================
