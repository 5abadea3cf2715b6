---------------------------- MODULE MCImageStore ----------------------------
EXTENDS ImageStore, TLC
CONSTANTS p1, p2, i1, i2
=============================================================================
