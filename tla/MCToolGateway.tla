--------------------------- MODULE MCToolGateway ---------------------------
(***************************************************************************)
(* Two callers at one tool, which one of the two agents may call, with a   *)
(* limit: they overlap in every way, and also wait for each other.         *)
(***************************************************************************)
EXTENDS ToolGateway

CONSTANTS c1, c2

OneTool == {"query_transactions"}
OneMayCall == {"A1", "A2"}

\* The agents call no tool that they may not.
Agents == INSTANCE ScenarioAgents
ASSUME AgentsKeepToTheirTools == \A n \in {Agents!Pipeline[i] : i \in DOMAIN Agents!Pipeline} :
                                    Agents!ToolsOf(n) \subseteq Allowlist(n)
=============================================================================
