---------------------------- MODULE MCMcpSession ----------------------------
(***************************************************************************)
(* The session of McpSession for TLC.                                      *)
(***************************************************************************)
EXTENDS McpSession
============================================================================
