---------------------------- MODULE MCRunLifecycle --------------------------
(* A run with a deadline whose transcript is not asked for. *)
EXTENDS RunLifecycle
=============================================================================
