------------------------------- MODULE MCGate -------------------------------
(* Instances of Gate. Limits are in seconds and ticks far below the ones of  *)
(* Config: what matters is how the windows compare with one another.         *)
EXTENDS Gate

CONSTANTS ip1, ip2, k1, k2

(* An event dated as far ahead as the skew allows.                           *)
MCEvents == {[id |-> "ahead", at |-> 5]}
=============================================================================
