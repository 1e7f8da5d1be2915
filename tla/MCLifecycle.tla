---------------------------- MODULE MCLifecycle ----------------------------
(***************************************************************************)
(* Lifecycle on one creator, two concurrent exit/update/unattended tasks,  *)
(* a session and a plugin host: an update waits for the one and not for    *)
(* the other.                                                              *)
(***************************************************************************)
EXTENDS Lifecycle

=============================================================================
