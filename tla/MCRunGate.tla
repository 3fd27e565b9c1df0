------------------------------ MODULE MCRunGate ------------------------------
EXTENDS RunGate

CONSTANTS r1, r2, r3, r4, r5, s1, s2

\* Two turns of one session, a turn of another, and runs without a session.
MCSessionOf ==
    [r \in Runs |-> IF r \in {r1, r2} THEN s1 ELSE IF r = r3 THEN s2 ELSE NoSession]
=============================================================================
