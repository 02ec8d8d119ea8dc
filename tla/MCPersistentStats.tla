-------------------------- MODULE MCPersistentStats --------------------------
EXTENDS PersistentStats

CONSTANTS client, feedback, q1, q2
==============================================================================
