------------------------------- MODULE MCSystem -------------------------------
(* The system with named messages, for model checking.                      *)
EXTENDS System

CONSTANTS m1, m2, m3
===============================================================================
