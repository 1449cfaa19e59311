------------------------------ MODULE MCCPool ------------------------------
(* CPool on a small instance: see MCCPool.cfg. *)
EXTENDS CPool
=============================================================================
