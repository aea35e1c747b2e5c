---------------------------- MODULE MCTransport ----------------------------
(* Instance of Transport for TLC: one device asks twice, so that two answers  *)
(* may be mixed up; the other one dials.                                      *)
EXTENDS Transport

CONSTANTS a, b

MCRequests == {<<a, b, 1>>, <<a, b, 2>>}
MCDials == {<<b, a, 0>>}
=============================================================================
