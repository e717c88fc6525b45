---- MODULE MCProxy ----
EXTENDS Proxy
====
