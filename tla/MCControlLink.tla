--------------------------- MODULE MCControlLink ---------------------------
EXTENDS ControlLink
=============================================================================
