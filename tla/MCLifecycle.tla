---------------------------- MODULE MCLifecycle ----------------------------
(* Modules for model checking Lifecycle.                                   *)
EXTENDS Lifecycle

InOut == <<"in", "out">>
=============================================================================
