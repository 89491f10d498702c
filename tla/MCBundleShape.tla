---------------------------- MODULE MCBundleShape ----------------------------
(* Small repositories and requests for TLC, and bundling by itself.            *)
EXTENDS BundleShape

BundleInputs == [of : {"bundle"}, src : Sources(3), depth : 0 .. 2, dirty : BOOLEAN]

BundleSpec == input \in BundleInputs /\ [][FALSE]_input
=============================================================================
