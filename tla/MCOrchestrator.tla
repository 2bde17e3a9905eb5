--------------------------- MODULE MCOrchestrator ---------------------------
EXTENDS Orchestrator

MCFaultSets == {{}, {"token", "create"}, {"start", "halt"}, {"remove", "wipe"}, {"manager"}, {"host"}}
MCRemoveFails == {{"remove"}}
=============================================================================
