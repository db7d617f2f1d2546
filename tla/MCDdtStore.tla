---------------------------- MODULE MCDdtStore ----------------------------
EXTENDS DdtStore
===========================================================================
