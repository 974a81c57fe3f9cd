----------------------------- MODULE MCAgentRun -----------------------------
\* Both workflows of the agent loop with small limits.
EXTENDS AgentRun
=============================================================================
