---------------------------- MODULE MCMcpRuntime ----------------------------
(* Instances of McpRuntime for TLC.                                          *)
EXTENDS McpRuntime

=============================================================================
