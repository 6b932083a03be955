-------------------------- MODULE MCRunPublication --------------------------
EXTENDS RunPublication, TLC

CONSTANTS p1, p2, out, other

MCDirs == {p1, p2, out, other}
=============================================================================
