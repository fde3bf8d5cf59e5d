-------------------------------- MODULE MCBody --------------------------------
(* Body with the lengths around which the code decides.                     *)
EXTENDS Body

SomeLens == (0..6) \cup {8, 12, 127, 128, MAX_ENCODABLE}
SomeLimits == {130, Unlimited}
===============================================================================
