--------------------------- MODULE MCCommandQueue ---------------------------
EXTENDS CommandQueue

MCNone == {}
MCExec == {1}
MCPlain == {2}
=============================================================================
