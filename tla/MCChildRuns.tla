----------------------------- MODULE MCChildRuns -----------------------------
EXTENDS ChildRuns

CONSTANTS r1, r2, r3, r4

\* A child with a child of its own, which has one too, and a second child.
MCParent == [r \in Runs |-> IF r = r2 THEN r1 ELSE IF r = r3 THEN r2 ELSE Root]
=============================================================================
