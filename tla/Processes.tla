------------------------------ MODULE Processes ------------------------------
(* The deepdep processes of one user: they share the cache and the store.  *)
CONSTANT Process
==============================================================================
