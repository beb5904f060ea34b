------------------------------- MODULE MCXref -------------------------------
EXTENDS Xref
=============================================================================
