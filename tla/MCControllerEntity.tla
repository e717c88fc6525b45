------------------------ MODULE MCControllerEntity ------------------------
EXTENDS ControllerEntity
=============================================================================
