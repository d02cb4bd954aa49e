------------------------------ MODULE MCDispatch ------------------------------
(* Constants of Dispatch for model checking.                                     *)
EXTENDS Dispatch
CONSTANTS a, b
==============================================================================
