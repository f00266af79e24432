----------------------------- MODULE MirrorHosts -----------------------------
(***************************************************************************)
(* The two programs that run the facility on its TypeScript mirror: the    *)
(* browser's local development runtime and the MCP server.  They share the *)
(* code of the mirror and a clock, and nothing else, so a behaviour is one *)
(* of either program.                                                      *)
(***************************************************************************)
EXTENDS LocalRuntime, McpServer

VARIABLE host   \* "page" or "mcp": the program that runs

pageState == <<ledger, unboundGenesis, repaid, rounded>>
mcpState == <<file, waiting, answers>>
hostVars == <<host, now, pageState, mcpState>>

HostInit ==
    /\ host \in {"page", "mcp"}
    /\ LocalInit
    /\ McpInit

HostNext ==
    \/ host = "page" /\ LocalNext /\ UNCHANGED <<host, mcpState>>
    \/ host = "mcp" /\ McpNext /\ UNCHANGED <<host, pageState>>

HostSpec == HostInit /\ [][HostNext]_hostVars
=============================================================================
