------------------------- MODULE MCDocumentContext -------------------------
EXTENDS DocumentContext, TLC
CONSTANTS up1, up2, c1, r1, r2

\* Neither the steps nor the properties of the context read the folder's
\* counts, the histories of module Documents or what a request that has ended
\* was: states that differ in those only are one.
ContextView ==
    <<docs, object, cache, issued, sessionVars,
      [r \in Requests |-> IF InProgress(r) THEN req[r] ELSE req[r].at]>>

\* The files and the requests are interchangeable.
Symmetry == Permutations(Uploads) \union Permutations(Requests)
=============================================================================
