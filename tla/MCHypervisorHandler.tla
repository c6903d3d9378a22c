------------------------ MODULE MCHypervisorHandler ------------------------
EXTENDS HypervisorHandler
=============================================================================
