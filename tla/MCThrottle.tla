------------------------------ MODULE MCThrottle ------------------------------
(* Throttle, instantiated for TLC.                                          *)
EXTENDS Throttle

==============================================================================
