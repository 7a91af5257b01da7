---------------------------- MODULE MCDocuments ----------------------------
EXTENDS Documents
CONSTANTS up, scan, ref, c1, c2, r1, r2, r3

\* Of the three requests one only uploads or parses again, one only imports
\* and one may do either, so that each pair of them can overlap.
Shared ==
    /\ req[r1].op # "import"
    /\ req[r3].op \in {"none", "import"}
=============================================================================
