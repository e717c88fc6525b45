---- MODULE MCApc ----
EXTENDS Apc
====
