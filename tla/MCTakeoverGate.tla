--------------------------- MODULE MCTakeoverGate ---------------------------
(* Instances of TakeoverGate for TLC: every bound but the number of roles,  *)
(* starts and faults is the one of the code (TAKEOVER_LIMITS,               *)
(* REVIEW_FUNCTIONS).                                                       *)
EXTENDS TakeoverGate
=============================================================================
