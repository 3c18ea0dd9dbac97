-------------------------- MODULE MC_EdgeScheduler --------------------------
(* Model checking of EdgeScheduler.tla: the bounds are in the              *)
(* configurations.                                                         *)
EXTENDS EdgeScheduler
=============================================================================
