----------------------------- MODULE MCHandles -----------------------------
(* A small instance of Handles for TLC: one connection, every callback and   *)
(* every fault.                                                              *)
EXTENDS Handles
=============================================================================
