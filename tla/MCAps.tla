---- MODULE MCAps ----
EXTENDS Aps
====
