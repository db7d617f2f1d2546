------------------------ MODULE MCDdtBlockAssembler ------------------------
EXTENDS DdtBlockAssembler
=============================================================================
