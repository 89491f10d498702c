---------------------------- MODULE MCFollowLog ------------------------------
(* A small instance of FollowLog for TLC. *)
EXTENDS FollowLog
=============================================================================
