---------------------------- MODULE MCJobEngine ----------------------------
EXTENDS JobEngine
CONSTANTS j1, j2
=============================================================================
