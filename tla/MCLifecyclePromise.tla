------------------------- MODULE MCLifecyclePromise -------------------------
(***************************************************************************)
(* LifecyclePromise with the values of MCCredentialLifecycle, for TLC.     *)
(***************************************************************************)
EXTENDS MCCredentialLifecycle, LifecyclePromise
=============================================================================
