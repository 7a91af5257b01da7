----------------------------- MODULE MCRecords -------------------------------
EXTENDS Records, TLC

CONSTANTS d1, d2

\* Alice writes, Bob reads; they are of one domain.
MCAlice == [uid |-> "alice", email |-> "alice@acme", domain |-> "acme", tags |-> {}]
MCBob == [uid |-> "bob", email |-> "bob@acme", domain |-> "acme", tags |-> {}]
MCAuthors == {MCAlice}
MCReaders == {MCBob}
MCPeople == {MCAlice, MCBob}

MCTeam == [Private EXCEPT !.type = "tagged", !.tags = {"team"}]
MCDomain == [Private EXCEPT !.type = "domain", !.domain = "acme"]
MCAccesses == {Private, OpenToAll, MCTeam}
MCPosts == {[name |-> "a", access |-> OpenToAll]}
MCEdits == {[slug |-> None, access |-> MCTeam], [slug |-> <<"a", 2>>, access |-> None]}
MCClients == {[tags |-> {"team"}, enabled |-> {<<"a", 1>>}]}
MCTemplates == <<[name |-> "p", access |-> None]>>
MCResumable == <<2, 1>>
MCInitial == <<[owner |-> "alice", name |-> "a", slug |-> <<"a", 1>>, access |-> OpenToAll],
               [owner |-> "old-platform", name |-> "p", slug |-> <<"p", 1>>, access |-> OpenToAll]>>

MCSharings == {Private, MCDomain}

\* Between a viewer's own session and one it may see lie as many as a window that it may not.
MCRows == <<[owner |-> "bob", access |-> Private], [owner |-> "alice", access |-> Private],
            [owner |-> "alice", access |-> Private], [owner |-> "alice", access |-> Private],
            [owner |-> "alice", access |-> Private], [owner |-> "alice", access |-> OpenToAll],
            [owner |-> "bob", access |-> OpenToAll]>>
MCFirstRows == 1 .. 6

\* Two rows of sessions, d2 not there at first: how many turns, whose it is, and which documents.
MCFields == {"turns", "access", "documents"}
MCStored == [d \in Docs |-> IF d = d2 THEN None
                ELSE [turns |-> 1, access |-> "public", documents |-> None]]

To(field, how, by) == [field |-> field, how |-> how, by |-> by]
MCWrites ==
    {[op |-> "update", doc |-> d1, data |-> <<To("turns", "increment", 1), To("access", "is", "private")>>],
     [op |-> "update", doc |-> d1, data |-> <<To("access", "is", "public"), To("turns", "increment", 1)>>],
     [op |-> "update", doc |-> d1, data |-> <<To("documents", "union", {"a"})>>],
     [op |-> "update", doc |-> d2, data |-> <<To("documents", "remove", {"a"})>>],
     [op |-> "merge", doc |-> d1, data |-> <<To("turns", "increment", 1), To("access", "is", "private")>>],
     [op |-> "delete", doc |-> d1, data |-> <<>>]}
       \union {[op |-> "set", doc |-> d,
                data |-> <<To("access", "is", "public"), To("documents", "union", {"a"})>>] : d \in Docs}

MCReads ==
    {[op |-> "fetch", docs |-> {d}, field |-> None, value |-> None, limit |-> 1] : d \in Docs}
       \union {[op |-> "query", docs |-> Docs, field |-> "access", value |-> "public", limit |-> n] : n \in 1 .. 2}

\* What happens together: the requests that touch one record, two or three at a time, and
\* the clock where an answer may be of the past.
Of(ops, n) == [op \in ops |-> n]
MCStoreLoads == {Of({"write"}, 2) @@ Of({"fetch"}, 1), Of({"write"}, 2) @@ Of({"query"}, 1),
                 Of({"write"}, 3) @@ Of({"fetch"}, 1)}
MCLoads ==
    {Of({"get", "tick"}, 2) @@ Of({"delete"}, 1), Of({"get", "put"}, 1) @@ Of({"tick"}, 2),
     Of({"card", "tick"}, 2) @@ Of({"delete"}, 1),
     Of({"may", "tick"}, 2) @@ Of({"rule"}, 1), Of({"recent", "delete"}, 1) @@ Of({"tick"}, 2)}
       \union {Of({"post"}, 2), Of({"put"}, 2), Of({"seed"}, 2)}
       \union {Of(ops, 1) : ops \in
             {{"put", "post"}, {"put", "delete"}, {"put", "restart"}, {"fork", "delete"}, {"tool", "delete"}, {"find", "put", "tick"},
              {"market", "fork"}, {"recent", "client", "delete"}, {"list", "client", "tick"}, {"me", "client", "tick"}, {"seed", "rule"}}}
       \union {Of({"bucket post", "folder post", "bucket put", "folder put"}, 1),
               Of({"bucket post", "folder post", "bucket delete", "folder delete"}, 1),
               Of({"bucket post", "folder post", "folder put", "folder delete"}, 1),
               Of({"bucket post", "folder post", "bucket get", "folder get"}, 1),
               Of({"home"}, 2), Of({"corpus"}, 3)}
       \union MCStoreLoads
       \union {Of({"page", "archive", "touch"}, 1), Of({"page"}, 1) @@ Of({"touch"}, 2)}

MCSymmetry == Permutations(Thread) \union Permutations(Instance)
=============================================================================
