----------------------------- MODULE MCTcpInput -----------------------------
EXTENDS TcpInput
=============================================================================
