---------------------------- MODULE MCRegistry ----------------------------
EXTENDS Registry
CONSTANTS h1, h2

MCHosts == {h1, h2}
=============================================================================
