--------------------------- MODULE MCSandboxCalls ---------------------------
EXTENDS SandboxCalls
=============================================================================
