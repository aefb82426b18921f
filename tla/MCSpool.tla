------------------------------ MODULE MCSpool ------------------------------
EXTENDS Spool
===========================================================================
