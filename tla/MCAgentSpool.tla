---------------------------- MODULE MCAgentSpool ----------------------------
EXTENDS AgentSpool

\* Both requests are for the browser of one provider.
MCProviderOf == [r \in Requests |-> CHOOSE p \in Providers : TRUE]
=============================================================================
