----------------------------- MODULE MCStartUp ------------------------------
(* The deployments of the repository: the RTU with its master, and the two  *)
(* examples alone.  The RTU is slave 1, the one slave of the master's table. *)
EXTENDS StartUp, MCSlaveResolver

Shipped == {{"rtu", "master"}, {"rest"}, {"clock"}}
=============================================================================
