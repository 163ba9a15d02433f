------------------------------- MODULE MCWire -------------------------------
EXTENDS WireProps
=============================================================================
