----------------------------- MODULE MCRunOwner -----------------------------
EXTENDS RunOwner
CONSTANTS a, b, i1, i2
=============================================================================
