---------------------------- MODULE MCMcpBridge ------------------------------
(* Two concurrent tool calls, one crash of the broker; see McpBridge.cfg. *)
EXTENDS McpBridge

=============================================================================
