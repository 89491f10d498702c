---------------------------- MODULE MCPatchCollect --------------------------
(* A session, its krayt process and one `krayt patch'. *)
EXTENDS PatchCollect

CONSTANTS owner, visitor

MCVisitors == {visitor}
=============================================================================
