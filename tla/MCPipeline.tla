------------------------------ MODULE MCPipeline ------------------------------
EXTENDS Pipeline

ServiceOf(r) == "checkout"
===============================================================================
