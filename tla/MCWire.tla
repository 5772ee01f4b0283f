------------------------------- MODULE MCWire -------------------------------
EXTENDS Wire
=============================================================================
