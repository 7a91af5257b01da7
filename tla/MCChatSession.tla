--------------------------- MODULE MCChatSession ---------------------------
EXTENDS ChatSession, TLC
CONSTANTS s1, ann, d1, d2, i1, i2, r1, r2
\* Agent Engine: "app:" keys live in the ADK session itself.  (With one session
\* the in-memory service's one store comes to the same.)
StorePerSession == [k \in User \X Session |-> k]
AllStores == User \X Session
Symmetry == Permutations(Request) \union Permutations(Instance)
NothingOrD1 == {<<>>, <<d1>>}
Both == {<<>>, <<d1>>, <<d2, d1>>}
=============================================================================
