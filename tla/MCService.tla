----------------------------- MODULE MCService -----------------------------
(***************************************************************************)
(* Small instance of Service: servers that start and stop, a shell that    *)
(* edits the provider file, and one request at a time of any surface.      *)
(***************************************************************************)
EXTENDS Service

=============================================================================
