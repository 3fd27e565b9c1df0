---------------------------- MODULE MCAsyncQueue ----------------------------
EXTENDS AsyncQueue

CONSTANTS p1, p2, c1, c2
=============================================================================
