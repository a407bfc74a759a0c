---------------------------- MODULE MCPackedArgs ----------------------------
EXTENDS PackedArgs

CONSTANTS a, b

MCBytes == {a, b}
=============================================================================
