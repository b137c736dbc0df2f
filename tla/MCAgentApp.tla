----------------------------- MODULE MCAgentApp -----------------------------
(* AgentApp for TLC: two of the four bridges.                              *)
EXTENDS AgentApp

TwoBridges == <<"data-mcp", "news-search-mcp">>
=============================================================================
