------------------------------- MODULE MCFaults -------------------------------
EXTENDS Faults

MCPause == [kind \in FaultKinds |-> IF kind \in {"drop", "dependency_timeout"} THEN 2 ELSE 1]
==============================================================================
