------------------------------- MODULE Skills -------------------------------
(***************************************************************************)
(* The catalogue of skills and what is cached of it.                       *)
(*                                                                         *)
(* The routes are plain functions, run by a pool of threads on each        *)
(* instance; a step is one call of Firestore with the code about it that   *)
(* touches nothing shared, or one access to a cache, and any step of       *)
(* another thread may come in between.  Firestore is shared; the caches,   *)
(* the agent card and the list of MCP tools are an instance's own.         *)
(*                                                                         *)
(* A skill is abstracted to its owner, name, slug and access control.  A   *)
(* slug is a base and a number, <<"a", 2>> for a-2.  The lists are not     *)
(* cut: a behaviour has fewer skills than their limits.                    *)
(***************************************************************************)
EXTENDS Access, Workload, Sequences, SequencesExt

CONSTANTS
    Instance,
    MaxSkills,     \* bound on the identifiers drawn
    Authors,       \* users who write
    Readers,       \* users who read
    Bases,         \* what names slugify to
    Accesses,      \* access controls that are set
    Posts,         \* what a POST sets: a name and an access control
    Clients,       \* the records of the users' domain that are set: its tags and enabled slugs
    Edits,         \* what a PUT sets: a slug or None, and an access control or None
    Templates,     \* the seed's templates, in order
    Resumable,     \* the skills of a reader's last sessions, newest first
    InitialSkills, \* the catalogue at the start
    TTL,           \* the life of a cached answer
    Patience,      \* bound on the time a request takes
    MaxTime

ASSUME SkillsAssumption ==
    /\ TTL \in Nat \ {0}
    /\ {MaxSkills, Patience, MaxTime} \subseteq Nat

SkillId == 1 .. MaxSkills
Platform == "aitana-platform"
PreviousOwner == "old-platform"
ForkName == "fork"
McpCaller == [uid |-> "mcp-caller", email |-> "", domain |-> "", tags |-> {}]
Visitor == [uid |-> "", email |-> "", domain |-> "", tags |-> {}]
Levels == 1 .. 3      \* of the rules: the user's, the domain's, the wildcard
Wildcard == 3
Slugs == Bases \X (Nat \ {0})

Things == ({"skill"} \X SkillId) \union ({"rule"} \X Levels) \union {<<"client", 0>>}

VARIABLES
    now,           \* the time
    skills, drawn, \* the collection `skills', and the identifiers drawn
    client,        \* the record of the users' domain in `clients'
    rules,         \* `tool_permissions' for one user and one tool, by level
    cache,         \* skill_config._cache
    permits,       \* permissions._cache, of the one user and tool
    cards,         \* a2a._cached_card, by time bucket
    tools,         \* mcp_server._registered
    calls,         \* what each thread is at
    past,          \* history: the values a thing had, each with the time it last ceased
    rivals,        \* history: claims that two requests were making at once
    synced         \* history: whether an instance's last rebuild is of this catalogue

clock == <<now, load>>
catalogue == <<skills, drawn>>
policy == <<client, rules>>
local == <<cache, permits, cards, tools>>
history == <<past, rivals, synced>>
skillsVars == <<now, catalogue, policy, local, calls, history>>

\* What a skill is: an owner, a name, a slug that a fork has not, and who may see it.
Owners == {a.uid : a \in Authors} \union {Platform, PreviousOwner}
Skill == [owner : Owners, name : Bases \union {ForkName}, slug : Slugs \union {None}, access : Accesses]
Template == [name : Bases, access : Accesses \union {None}]

\* Of what there should be one of there is one at the start.  No user has the platform's
\* identifier, and no two directories of templates name the same skill.
ASSUME CatalogueAssumption ==
    /\ InitialSkills \in Seq(Skill) /\ Len(InitialSkills) <= MaxSkills
    /\ \A s, r \in DOMAIN InitialSkills :
          s # r /\ InitialSkills[s].owner = InitialSkills[r].owner =>
             /\ InitialSkills[s].slug # InitialSkills[r].slug
             /\ InitialSkills[s].owner = Platform => InitialSkills[s].name # InitialSkills[r].name
    /\ Authors \subseteq [uid : STRING \ {Platform}, email : STRING, domain : STRING, tags : SUBSET STRING]
    /\ Templates \in Seq(Template)
    /\ \A j, k \in DOMAIN Templates : Templates[j].name = Templates[k].name => j = k

\* What is set is of these kinds, names being what they slugify to, and the sessions are of
\* skills there are.
ASSUME ContentsAssumption ==
    /\ {Private, OpenToAll} \subseteq Accesses
    /\ Posts \subseteq [name : Bases, access : Accesses]
    /\ Edits \subseteq [slug : Slugs \union {None}, access : Accesses \union {None}]
    /\ Resumable \in Seq(DOMAIN InitialSkills)

\* id, got and arg are the skill, what get_skill returned of it, and what is to be
\* written.  again: the look-up is the one in update_skill or delete_skill.  public and
\* drop are a rebuild's, found and todo a loop's, rests what a decision rests on so far.
\* Histories: since, the time the request began; claims, what it found free; lost, those
\* of them another has taken since; mixed, whether its rebuild overlapped another.
Idle == [op |-> "none", at |-> "idle", inst |-> None, ctx |-> Visitor, id |-> 0,
         got |-> None, arg |-> None, again |-> FALSE, public |-> {}, drop |-> {},
         found |-> <<>>, todo |-> <<>>, rests |-> {}, since |-> 0, claims |-> {},
         lost |-> {}, mixed |-> FALSE]

Busy(t) == calls[t].at \notin {"idle", "answer"}
At(t, op, place) == calls[t].op = op /\ calls[t].at = place
Here(t) == calls[t].inst
Existing == {s \in SkillId : skills[s] # None}
Public == {s \in Existing : skills[s].access.type = "public"}
OwnedBy(uid) == {s \in Existing : skills[s].owner = uid}
Bucket(time) == time \div TTL

\* What answers rest on: who may see a skill, a rule, the record of the domain.
Value(x) == CASE x[1] = "skill" -> IF skills[x[2]] = None THEN None ELSE skills[x[2]].access
              [] x[1] = "rule" -> rules[x[2]]
              [] OTHER -> client
AllSkills == {<<<<"skill", s>>, Value(<<"skill", s>>)>> : s \in SkillId}
TheClient == {<<<<"client", 0>>, client>>}

-----------------------------------------------------------------------------
(* What a thread goes on with.                                             *)

Goes(t, call) == calls' = [calls EXCEPT ![t] = call]
Move(t, place) == Goes(t, [calls[t] EXCEPT !.at = place])
Answer(call, rests) ==
    [Idle EXCEPT !.at = "answer", !.rests = rests, !.since = call.since]
Looks(call, s) == [call EXCEPT !.at = "look", !.id = s]
LooksAgain(call, s) == [call EXCEPT !.at = "look", !.id = s, !.again = TRUE]
Proceeds(call) == [call EXCEPT !.at = "next", !.todo = Tail(@), !.again = FALSE,
                               !.id = 0, !.got = None, !.arg = None]

\* A loop of the seed goes on, another request is answered.
Finished(call) == IF call.op \in {"templates", "seed"} THEN Proceeds(call) ELSE Answer(call, {})

\* A request that raises ends.  The seed counts a template that fails and goes on.
Raised(call) == IF call.op = "templates" /\ call.todo # <<>> THEN Proceeds(call) ELSE Idle

\* What is said of a skill by who looked it up.
Rests(call) == {<<<<"skill", call.id>>, IF call.got = None THEN None ELSE call.got.access>>}
Visible(call) == call.got # None /\ CanAccess(call.got.access, call.ctx, call.got.owner)

-----------------------------------------------------------------------------
(* The histories.                                                          *)

\* x has the value it has until now.
Remembers(x) == past' = [past EXCEPT ![x] = {h \in @ : h[1] # Value(x)} \union {<<Value(x), now>>}]

\* Thread t goes on with `call', having taken the claims W.
Takes(t, call, W) ==
    /\ calls' = [u \in Thread |->
          IF u = t THEN call
          ELSE [calls[u] EXCEPT !.lost = @ \union (W \intersect calls[u].claims)]]
    /\ rivals' = rivals \union (W \intersect calls[t].lost)

\* The catalogue changed: what the other instances list is of an earlier one.
Changed(i) == synced' = [j \in Instance |-> synced[j] /\ (j = i \/ Public' = Public)]

OnlyCalls == UNCHANGED <<clock, catalogue, policy, local, history>>
SlugClaim(owner, slug) == <<owner, slug>>
NameClaim(name) == <<Platform, <<name, 0>>>>

-----------------------------------------------------------------------------
(* skill_config: get_skill and find_by_slug.                               *)

\* Mutant: an entry never expires.
FreshForEver(entry) == entry # None
Fresh(entry) == entry # None /\ now - entry.at < TTL

\* get_skill: the cache is asked first.
Look(t) ==
    LET entry == cache[Here(t)][calls[t].id]
    IN  /\ calls[t].at = "look"
        /\ \/ Fresh(entry)
              /\ Goes(t, [calls[t] EXCEPT !.at = "got", !.got = entry.skill])
           \/ entry # None /\ ~Fresh(entry) /\ Move(t, "evict")
           \/ entry = None /\ Move(t, "read")
        /\ OnlyCalls

\* _cache_get: an expired entry is deleted; if another thread has done so the deletion raises.
Evict(t) ==
    LET c == calls[t]
    IN  /\ c.at = "evict"
        /\ cache' = [cache EXCEPT ![c.inst][c.id] = None]
        /\ Goes(t, IF cache[c.inst][c.id] = None THEN Raised(c) ELSE [c EXCEPT !.at = "read"])
        /\ UNCHANGED <<clock, catalogue, policy, permits, cards, tools, history>>

\* get_skill: the document; one that is not there is not cached.
Read(t) ==
    LET c == calls[t]
    IN  /\ c.at = "read"
        /\ Goes(t, [c EXCEPT !.got = skills[c.id],
                             !.at = IF skills[c.id] = None THEN "got" ELSE "fill"])
        /\ OnlyCalls

\* _cache_set, of what was read.
\* Mutant: with the time it expires.
FilledAhead(c) == [cache EXCEPT ![c.inst][c.id] = [at |-> now + TTL, skill |-> c.got]]
Filled(c) == [cache EXCEPT ![c.inst][c.id] = [at |-> now, skill |-> c.got]]

Fill(t) ==
    /\ calls[t].at \in {"fill", "refill"}
    /\ cache' = Filled(calls[t])
    /\ \/ calls[t].at = "fill" /\ Move(t, "got")
       \/ calls[t].at = "refill" /\ Goes(t, Finished(calls[t]))
    /\ UNCHANGED <<clock, catalogue, policy, permits, cards, tools, history>>

\* find_by_slug, by an index of owners and slugs: any one of those that match.
FindBySlug(t) ==
    LET c == calls[t]
        matches == {s \in OwnedBy(c.arg.owner) : skills[s].slug = c.arg.slug}
    IN  /\ At(t, "find", "query")
        /\ \/ matches = {} /\ Goes(t, Answer(c, {}))
           \/ \E s \in matches :
                 Goes(t, [c EXCEPT !.at = "fill", !.id = s, !.got = skills[s]])
        /\ OnlyCalls

-----------------------------------------------------------------------------
(* mcp_server.rebuild_tools and a2a.invalidate_cache, after every change.  *)

\* The cache entry goes, or for a new skill is set, and the cards with it.
Invalidate(t) ==
    LET c == calls[t]
    IN  /\ c.at = "invalidate"
        /\ cache' = IF c.again THEN [cache EXCEPT ![c.inst][c.id] = None] ELSE Filled(c)
        /\ cards' = [cards EXCEPT ![c.inst] = [b \in DOMAIN @ |-> None]]
        /\ Move(t, "public")
        /\ UNCHANGED <<clock, catalogue, policy, permits, tools, history>>

\* What follows a rebuild: update_skill reads the document again.
Rebuilt(c) ==
    LET done == [c EXCEPT !.public = {}, !.drop = {}, !.mixed = FALSE]
    IN  IF c.again /\ c.op \in {"put", "templates"} THEN [done EXCEPT !.at = "reread"] ELSE Finished(done)

Syncing(u, i) == calls[u].inst = i /\ calls[u].at = "sync"

\* Mutant: a rebuild only adds.
NothingGone(i) == {}
Gone(i) == tools[i] \ Public

\* The query, and the tools that are not in its answer.
QueryPublic(t) ==
    LET c == calls[t]
        others == {u \in Thread : Syncing(u, c.inst)}
    IN  /\ c.at = "public"
        /\ calls' = [u \in Thread |->
              IF u = t THEN [c EXCEPT !.at = "sync", !.public = Public, !.mixed = others # {},
                                      !.drop = Gone(c.inst)]
              ELSE [calls[u] EXCEPT !.mixed = @ \/ u \in others]]
        /\ OnlyCalls

\* The query failed; the error is swallowed.
SkipRebuild(t) ==
    /\ calls[t].at = "public"
    /\ synced' = [synced EXCEPT ![Here(t)] = FALSE]
    /\ Goes(t, Rebuilt(calls[t]))
    /\ UNCHANGED <<clock, catalogue, policy, local, past, rivals>>

\* A tool is removed; if another thread has removed it the removal raises.
DropTool(t) ==
    LET c == calls[t]
    IN  /\ c.at = "sync"
        /\ \E s \in c.drop :
              IF s \in tools[c.inst]
              THEN /\ tools' = [tools EXCEPT ![c.inst] = @ \ {s}]
                   /\ Goes(t, [c EXCEPT !.drop = @ \ {s}])
                   /\ UNCHANGED synced
              ELSE /\ synced' = [synced EXCEPT ![c.inst] = FALSE]
                   /\ Goes(t, Raised([c EXCEPT !.public = {}, !.drop = {}, !.mixed = FALSE]))
                   /\ UNCHANGED tools
        /\ UNCHANGED <<clock, catalogue, policy, cache, permits, cards, past, rivals>>

\* The tools that are missing are added.
AddTools(t) ==
    LET c == calls[t]
    IN  /\ c.at = "sync" /\ c.drop = {}
        /\ tools' = [tools EXCEPT ![c.inst] = @ \union c.public]
        /\ synced' = [synced EXCEPT ![c.inst] = c.public = Public /\ ~c.mixed]
        /\ Goes(t, Rebuilt(c))
        /\ UNCHANGED <<clock, catalogue, policy, cache, permits, cards, past, rivals>>

\* update_skill: the document again, to be cached.
Reread(t) ==
    LET c == calls[t]
    IN  /\ c.at = "reread"
        /\ Goes(t, IF skills[c.id] = None THEN Finished(c)
                   ELSE [c EXCEPT !.at = "refill", !.got = skills[c.id]])
        /\ OnlyCalls

-----------------------------------------------------------------------------
(* The routes.  A request is built with the caller's access context, for   *)
(* which get_current_user reads the domain's record.                       *)

DerivedTags == IF client = None THEN {} ELSE client.tags
Caller(user) == Context(user, DerivedTags)
Request(op, place, i, ctx) ==
    [Idle EXCEPT !.op = op, !.at = place, !.inst = i, !.ctx = ctx, !.since = now]

Receives(t, call) ==
    /\ ~Busy(t) /\ Issues(call.op)
    /\ Goes(t, call)
    /\ UNCHANGED <<now, catalogue, policy, local, history>>

\* GET /api/skills/{id}, and by owner and slug.
Get(t) == \E i \in Instance, user \in Readers, s \in 1 .. drawn :
    Receives(t, Looks(Request("get", "look", i, Caller(user)), s))
GetBySlug(t) ==
    \E i \in Instance, user \in Readers, a \in Authors, slug \in Bases \X (1 .. MaxSkills) :
       Receives(t, [Request("find", "query", i, Caller(user))
                       EXCEPT !.arg = [owner |-> a.uid, slug |-> slug]])

\* An MCP tool is called: process_skill_request looks its skill up for the MCP user.
UseTool(t) == \E i \in Instance : \E s \in tools[i] :
    Receives(t, Looks(Request("tool", "look", i, McpCaller), s))

\* GET /api/skills, /api/skills/marketplace, /api/clients/me, /api/sessions/recent, the
\* agent card, a tool's permission.  The last is looked up on an instance's event loop, one at a time.
List(t) == \E i \in Instance, user \in Readers :
    Receives(t, Request("list", "query", i, Caller(user)))
Marketplace(t) == \E i \in Instance : Receives(t, Request("market", "query", i, Visitor))
MyClient(t) == \E i \in Instance, user \in Readers :
    Receives(t, Request("me", "narrow", i, Caller(user)))
Recent(t) == \E i \in Instance, user \in Readers :
    Receives(t, Request("recent", "narrow", i, Caller(user)))
AgentCard(t) == \E i \in Instance : Receives(t, Request("card", "card", i, Visitor))
CanUseTool(t) == \E i \in Instance :
    /\ \A u \in Thread : ~(calls[u].op = "may" /\ Busy(u) /\ Here(u) = i)
    /\ Receives(t, Request("may", "permit", i, Visitor))

\* POST, PUT, DELETE, fork, and the seed of the platform's skills.
Post(t) == \E i \in Instance, a \in Authors, post \in Posts :
    Receives(t, [Request("post", "slug", i, Caller(a)) EXCEPT
        !.arg = [owner |-> a.uid, name |-> post.name, slug |-> <<post.name, 1>>, access |-> post.access]])
Put(t) == \E i \in Instance, a \in Authors, s \in 1 .. drawn, edit \in Edits :
    Receives(t, [Looks(Request("put", "look", i, Caller(a)), s) EXCEPT !.arg = edit])
Delete(t) == \E i \in Instance, a \in Authors, s \in 1 .. drawn :
    Receives(t, Looks(Request("delete", "look", i, Caller(a)), s))
Fork(t) == \E i \in Instance, a \in Authors, s \in 1 .. drawn :
    Receives(t, Looks(Request("fork", "look", i, Caller(a)), s))
Seed(t) == \E i \in Instance : Receives(t, Request("seed", "grant", i, Visitor))

Receive(t) ==
    \/ Get(t) \/ GetBySlug(t) \/ UseTool(t) \/ List(t) \/ Marketplace(t) \/ MyClient(t) \/ Recent(t)
    \/ AgentCard(t) \/ CanUseTool(t) \/ Post(t) \/ Put(t) \/ Delete(t) \/ Fork(t) \/ Seed(t)

-----------------------------------------------------------------------------
(* The reads.                                                              *)

Serve(t) ==
    /\ calls[t].op \in {"get", "find", "tool"} /\ calls[t].at = "got"
    /\ Goes(t, Answer(calls[t], Rests(calls[t])))
    /\ OnlyCalls

\* The listings: those it may see are found, then narrowed to the tenant's slugs.
Query(t) ==
    LET c == calls[t]
    IN  /\ c.at = "query" /\ c.op \in {"list", "market"}
        /\ Goes(t, IF c.op = "market" THEN Answer(c, AllSkills)
                   ELSE [c EXCEPT !.at = "narrow", !.rests = AllSkills])
        /\ OnlyCalls

Allows(enabled, slug) == enabled = None \/ slug \in enabled
Narrow(t) ==
    LET c == calls[t]
        enabled == IF client = None THEN None ELSE client.enabled
    IN  /\ c.at = "narrow"
        /\ \/ c.op = "list" /\ Goes(t, Answer(c, c.rests \union TheClient))
           \/ c.op = "me" /\ Goes(t, [c EXCEPT !.at = "default", !.rests = TheClient])
           \/ /\ c.op = "recent"
              /\ Goes(t, [c EXCEPT !.at = "resume", !.todo = Resumable, !.rests = TheClient, !.arg = enabled])
        /\ OnlyCalls

\* The default skill, or the first of the enabled, from the record read once more.
Default(t) ==
    /\ At(t, "me", "default")
    /\ Goes(t, Answer(calls[t], calls[t].rests \union TheClient))
    /\ OnlyCalls

\* The landing: the newest session whose skill is visible and enabled.
Resume(t) ==
    LET c == calls[t]
        next == [c EXCEPT !.at = "resume", !.todo = Tail(@), !.got = None, !.id = 0]
    IN  /\ c.op = "recent"
        /\ \/ c.at = "resume" /\ c.todo = <<>> /\ Goes(t, Answer(c, c.rests))
           \/ c.at = "resume" /\ c.todo # <<>> /\ Goes(t, Looks(c, Head(c.todo)))
           \/ /\ c.at = "got"
              /\ Goes(t, IF Visible(c) /\ Allows(c.arg, c.got.slug)
                         THEN Answer(c, c.rests \union Rests(c)) ELSE next)
        /\ OnlyCalls

\* The card of the present time bucket, built if there is none; a query that fails
\* builds a card without skills.
Hit(t) ==
    LET c == calls[t]
        card == cards[c.inst][Bucket(now)]
    IN  /\ c.at = "card"
        /\ Goes(t, IF card # None THEN Answer(c, card)
                   ELSE [c EXCEPT !.at = "build", !.arg = Bucket(now)])
        /\ OnlyCalls
Build(t) ==
    /\ calls[t].at = "build"
    /\ \E found \in {AllSkills, {}} : Goes(t, [calls[t] EXCEPT !.at = "keep", !.rests = found])
    /\ OnlyCalls
Keep(t) ==
    LET c == calls[t]
    IN  /\ c.at = "keep"
        /\ cards' = [cards EXCEPT ![c.inst][c.arg] = IF @ = None THEN c.rests ELSE @]
        /\ Goes(t, Answer(c, c.rests))
        /\ UNCHANGED <<clock, catalogue, policy, cache, permits, tools, history>>

\* can_use_tool: the cached decision, else the first rule there is of the user's, the
\* domain's and the wildcard, each read on its own.
PermitFresh(permit) == permit # None /\ now - permit.at <= TTL
Permit(t) ==
    LET c == calls[t]
        permit == permits[c.inst]
    IN  /\ c.at = "permit"
        /\ \/ PermitFresh(permit) /\ Goes(t, Answer(c, permit.rests)) /\ UNCHANGED permits
           \/ /\ ~PermitFresh(permit)
              /\ permits' = [permits EXCEPT ![c.inst] = None]
              /\ Goes(t, [c EXCEPT !.at = "rule", !.arg = 1])
        /\ UNCHANGED <<clock, catalogue, policy, cache, cards, tools, history>>
ReadRule(t) ==
    LET c == calls[t]
        level == c.arg
        read == [c EXCEPT !.rests = @ \union {<<<<"rule", level>>, rules[level]>>}]
    IN  /\ c.at = "rule"
        /\ \/ rules[level] = None /\ level < Wildcard /\ Goes(t, [read EXCEPT !.arg = @ + 1])
           \/ (rules[level] # None \/ level = Wildcard) /\ Goes(t, [read EXCEPT !.at = "decide"])
        /\ OnlyCalls
Decide(t) ==
    LET c == calls[t]
    IN  /\ c.at = "decide"
        /\ permits' = [permits EXCEPT ![c.inst] = [at |-> now, rests |-> c.rests]]
        /\ Goes(t, Answer(c, c.rests))
        /\ UNCHANGED <<clock, catalogue, policy, cache, cards, tools, history>>

-----------------------------------------------------------------------------
(* The writes.                                                             *)

\* unique_slug: the candidates in turn, each by a query.
\* Mutant: private skills are not asked for.
TakenInPublic(owner, slug, except) ==
    \E s \in (OwnedBy(owner) \intersect Public) \ {except} : skills[s].slug = slug
Taken(owner, slug, except) == \E s \in OwnedBy(owner) \ {except} : skills[s].slug = slug
FindSlug(t) ==
    LET c == calls[t]
        slug == c.arg.slug
        claim == SlugClaim(c.arg.owner, slug)
    IN  /\ c.at = "slug"
        /\ Goes(t, IF Taken(c.arg.owner, slug, 0) THEN [c EXCEPT !.arg.slug[2] = @ + 1]
                   ELSE [c EXCEPT !.at = "create", !.claims = @ \union {claim}, !.lost = @ \ {claim}])
        /\ OnlyCalls

\* create_skill, under an identifier drawn at random.
Create(t) ==
    LET c == calls[t]
        s == drawn + 1
        W == {SlugClaim(c.arg.owner, c.arg.slug)}
                \union (IF c.arg.owner = Platform THEN {NameClaim(c.arg.name)} ELSE {})
    IN  /\ c.at = "create" /\ s \in SkillId
        /\ skills' = [skills EXCEPT ![s] = c.arg]
        /\ drawn' = s
        /\ Takes(t, [c EXCEPT !.at = "invalidate", !.id = s, !.got = c.arg], W)
        /\ Remembers(<<"skill", s>>)
        /\ Changed(c.inst)
        /\ UNCHANGED <<clock, policy, local>>

\* PUT, DELETE and fork, once the skill is looked up: a skill that is not visible is
\* not found, one of the platform's or another's is left alone, a slug is looked up.
Gate(t) ==
    LET c == calls[t]
        mine == Visible(c) /\ c.got.owner # Platform /\ IsOwner(c.got, c.ctx)
        copy == [owner |-> c.ctx.uid, name |-> ForkName, slug |-> None, access |-> Private]
    IN  /\ c.at = "got" /\ c.op \in {"put", "delete", "fork"} /\ ~c.again
        /\ \/ c.op = "fork" /\ Visible(c) /\ Goes(t, [c EXCEPT !.at = "create", !.arg = copy])
           \/ c.op = "put" /\ mine /\ c.arg.slug # None /\ Move(t, "check")
           \/ c.op = "put" /\ mine /\ c.arg.slug = None /\ Goes(t, LooksAgain(c, c.id))
           \/ c.op = "delete" /\ mine /\ Goes(t, LooksAgain(c, c.id))
           \/ ~(IF c.op = "fork" THEN Visible(c) ELSE mine) /\ Goes(t, Answer(c, {}))
        /\ OnlyCalls
CheckSlug(t) ==
    LET c == calls[t]
        owner == c.got.owner
    IN  /\ c.at = "check"
        /\ Goes(t, IF Taken(owner, c.arg.slug, c.id) THEN Answer(c, {})
                   ELSE [LooksAgain(c, c.id) EXCEPT !.claims = {SlugClaim(owner, c.arg.slug)}])
        /\ OnlyCalls

\* update_skill; a document that is gone cannot be updated.
Edited(skill, edit) ==
    [skill EXCEPT !.slug = IF edit.slug = None THEN @ ELSE edit.slug,
                  !.access = IF edit.access = None THEN @ ELSE edit.access]
Update(t) ==
    LET c == calls[t]
        W == IF c.arg.slug = None THEN {} ELSE {SlugClaim(c.got.owner, c.arg.slug)}
    IN  /\ c.at = "got" /\ c.again /\ c.op \in {"put", "templates"}
        /\ \/ /\ c.got = None /\ Goes(t, Finished(c))
              /\ UNCHANGED <<skills, history>>
           \/ /\ c.got # None /\ skills[c.id] = None /\ Goes(t, Raised(c))
              /\ UNCHANGED <<skills, history>>
           \/ /\ c.got # None /\ skills[c.id] # None
              /\ skills' = [skills EXCEPT ![c.id] = Edited(@, c.arg)]
              /\ Takes(t, [c EXCEPT !.at = "invalidate"], W)
              /\ Remembers(<<"skill", c.id>>)
              /\ Changed(c.inst)
        /\ UNCHANGED <<clock, drawn, policy, local>>

\* delete_skill; deleting what is gone is no error.
Erase(t) ==
    LET c == calls[t]
    IN  /\ c.at = "got" /\ c.again /\ c.op \in {"delete", "seed"}
        /\ \/ /\ c.got = None /\ Goes(t, Finished(c))
              /\ UNCHANGED <<skills, past, synced>>
           \/ /\ c.got # None
              /\ skills' = [skills EXCEPT ![c.id] = None]
              /\ Goes(t, [c EXCEPT !.at = "invalidate"])
              /\ Remembers(<<"skill", c.id>>)
              /\ Changed(c.inst)
        /\ UNCHANGED <<clock, drawn, policy, local, rivals>>

-----------------------------------------------------------------------------
(* The seed: the wildcard rule, the previous owner's skills, then each     *)
(* template.  op is "seed" until the templates begin.                      *)

GrantWildcard(t) ==
    LET c == calls[t]
    IN  /\ c.op = "seed"
        /\ \/ /\ c.at = "grant"
              /\ Move(t, IF rules[Wildcard] = None THEN "allow" ELSE "previous")
              /\ UNCHANGED <<rules, past>>
           \/ /\ c.at = "allow" /\ Move(t, "previous")
              /\ rules' = [rules EXCEPT ![Wildcard] = "allow"]
              /\ Remembers(<<"rule", Wildcard>>)
        /\ UNCHANGED <<clock, catalogue, client, local, rivals, synced>>

ListPrevious(t) ==
    LET c == calls[t]
    IN  /\ At(t, "seed", "previous")
        /\ Goes(t, [c EXCEPT !.at = "next", !.todo = SetToSeq(OwnedBy(PreviousOwner))])
        /\ OnlyCalls

\* The names there are, each with one skill of that name.
ListExisting(t) ==
    LET c == calls[t]
        names == {skills[s].name : s \in OwnedBy(Platform)}
        absent == {Templates[k].name : k \in DOMAIN Templates} \ names
    IN  /\ At(t, "seed", "existing")
        /\ \E found \in [names -> OwnedBy(Platform)] :
              /\ \A name \in names : skills[found[name]].name = name
              /\ Goes(t, [c EXCEPT !.op = "templates", !.at = "next", !.todo = Templates,
                                   !.found = found, !.claims = {NameClaim(n) : n \in absent}])
        /\ OnlyCalls

NextPurge(t) ==
    LET c == calls[t]
    IN  /\ At(t, "seed", "next")
        /\ \/ c.todo = <<>> /\ Move(t, "existing")
           \/ c.todo # <<>> /\ Goes(t, LooksAgain(c, Head(c.todo)))
        /\ OnlyCalls

\* A template that is there is refreshed, another created; an access control it does not
\* state is left as it is, or for a new skill is public.
NextTemplate(t) ==
    LET c == calls[t]
        name == Head(c.todo).name
        access == Head(c.todo).access
        new == [owner |-> Platform, name |-> name, slug |-> <<name, 1>>,
                access |-> IF access = None THEN OpenToAll ELSE access]
    IN  /\ At(t, "templates", "next")
        /\ \/ c.todo = <<>> /\ Goes(t, Answer(c, {}))
           \/ /\ c.todo # <<>> /\ name \in DOMAIN c.found
              /\ Goes(t, [LooksAgain(c, c.found[name]) EXCEPT !.arg = [slug |-> None, access |-> access]])
           \/ /\ c.todo # <<>> /\ name \notin DOMAIN c.found
              /\ Goes(t, [c EXCEPT !.at = "slug", !.arg = new])
        /\ OnlyCalls

-----------------------------------------------------------------------------
(* What happens by itself, and the specification.                          *)

\* A call of Firestore fails, without effect.
Asking == {"read", "reread", "query", "narrow", "default", "rule", "slug", "create", "check",
           "grant", "allow", "previous", "existing"}
Fails(t) ==
    /\ \/ calls[t].at \in Asking
       \/ calls[t].at = "got" /\ calls[t].again
    /\ Goes(t, Raised(calls[t]))
    /\ OnlyCalls

Step(t) ==
    \/ Look(t) \/ Evict(t) \/ Read(t) \/ Fill(t) \/ FindBySlug(t)
    \/ Invalidate(t) \/ QueryPublic(t) \/ SkipRebuild(t) \/ DropTool(t) \/ AddTools(t) \/ Reread(t)
    \/ Serve(t) \/ Query(t) \/ Narrow(t) \/ Default(t) \/ Resume(t) \/ Hit(t) \/ Build(t) \/ Keep(t)
    \/ Permit(t) \/ ReadRule(t) \/ Decide(t)
    \/ FindSlug(t) \/ Create(t) \/ Gate(t) \/ CheckSlug(t) \/ Update(t) \/ Erase(t)
    \/ GrantWildcard(t) \/ ListPrevious(t) \/ ListExisting(t) \/ NextPurge(t) \/ NextTemplate(t)
    \/ Fails(t)

\* An administrator sets or deletes the domain's record; a script sets or deletes a rule.
EditClient ==
    /\ Issues("client")
    /\ client' \in (Clients \union {None}) \ {client}
    /\ Remembers(<<"client", 0>>)
    /\ UNCHANGED <<now, catalogue, rules, local, calls, rivals, synced>>
EditRule ==
    /\ Issues("rule")
    /\ \E level \in Levels : \E rule \in {"allow", "deny", None} \ {rules[level]} :
          /\ rules' = [rules EXCEPT ![level] = rule]
          /\ Remembers(<<"rule", level>>)
    /\ UNCHANGED <<now, catalogue, client, local, calls, rivals, synced>>

\* An instance restarts: its requests are gone and its caches empty; the tools are
\* built anew, unless the query fails.
Restart(i) ==
    /\ Issues("restart")
    /\ calls' = [t \in Thread |-> IF Busy(t) /\ Here(t) = i THEN Idle ELSE calls[t]]
    /\ cache' = [cache EXCEPT ![i] = [s \in SkillId |-> None]]
    /\ permits' = [permits EXCEPT ![i] = None]
    /\ cards' = [cards EXCEPT ![i] = [b \in DOMAIN @ |-> None]]
    /\ \E up \in BOOLEAN :
          /\ tools' = [tools EXCEPT ![i] = IF up THEN Public ELSE {}]
          /\ synced' = [synced EXCEPT ![i] = up]
    /\ UNCHANGED <<now, catalogue, policy, past, rivals>>

\* No request takes longer than Patience.
Tick ==
    /\ Issues("tick") /\ now < MaxTime
    /\ \A t \in Thread : Busy(t) => now - calls[t].since < Patience
    /\ now' = now + 1
    /\ UNCHANGED <<catalogue, policy, local, calls, history>>

SkillsInit ==
    /\ now = 0
    /\ skills = [s \in SkillId |-> IF s \in DOMAIN InitialSkills THEN InitialSkills[s] ELSE None]
    /\ drawn = Len(InitialSkills)
    /\ client = None
    /\ rules = [level \in Levels |-> None]
    /\ cache = [i \in Instance |-> [s \in SkillId |-> None]]
    /\ permits = [i \in Instance |-> None]
    /\ cards = [i \in Instance |-> [b \in 0 .. Bucket(MaxTime) |-> None]]
    /\ tools = [i \in Instance |-> Public]
    /\ calls = [t \in Thread |-> Idle]
    /\ past = [x \in Things |-> {}]
    /\ rivals = {}
    /\ synced = [i \in Instance |-> TRUE]

SkillsNext ==
    \/ \E t \in Thread : Receive(t) \/ Step(t)
    \/ EditClient \/ EditRule \/ Tick
    \/ \E i \in Instance : Restart(i)

-----------------------------------------------------------------------------
(* Properties.                                                             *)

SkillsTypeOK ==
    /\ skills \in [SkillId -> Skill \union {None}] /\ drawn \in 0 .. MaxSkills
    /\ client \in Clients \union {None} /\ rules \in [Levels -> {"allow", "deny", None}]
    /\ tools \in [Instance -> SUBSET (1 .. drawn)]
    /\ \A i \in Instance, s \in SkillId : cache[i][s] # None =>
          /\ s <= drawn /\ cache[i][s].at \in 0 .. now
          /\ cache[i][s].skill \in Skill
    /\ \A t \in Thread : calls[t].id \in 0 .. drawn /\ calls[t].since \in 0 .. now
    /\ \A t \in Thread : Busy(t) => now - calls[t].since <= Patience

\* Two skills of an owner share a slug, or two of the platform's a name, only if both were
\* being claimed at once: unique_slug and the seed look first and write later.
SlugsUnique == \A s, r \in Existing :
    s # r /\ skills[s].owner = skills[r].owner =>
        /\ skills[s].slug = skills[r].slug /\ skills[s].slug # None =>
              SlugClaim(skills[s].owner, skills[s].slug) \in rivals
        /\ skills[s].owner = Platform /\ skills[s].name = skills[r].name =>
              NameClaim(skills[s].name) \in rivals

\* What an answer rests on was so until less than the caches' life and the time a request
\* takes before the request began, whatever was cached, evicted, filled late or
\* invalidated meanwhile and on whichever instance; a rule, which expires later by its
\* comparison, until no longer.
Recently(x, value, since) ==
    \/ value = Value(x)
    \/ \E h \in past[x] :
          /\ h[1] = value
          /\ h[2] > since - TTL - Patience \/ (x[1] = "rule" /\ h[2] = since - TTL - Patience)
AnswersAreRecent == \A t \in Thread :
    calls[t].at = "answer" =>
        \A basis \in calls[t].rests : Recently(basis[1], basis[2], calls[t].since)

\* An instance at rest whose last rebuild was of the present catalogue, and did not
\* overlap another, lists the public skills as tools and no other.
Rebuilding(t) == calls[t].at \in {"invalidate", "public", "sync"}
ToolsMatchPublic == \A i \in Instance :
    synced[i] /\ (\A t \in Thread : ~(Rebuilding(t) /\ Here(t) = i)) => tools[i] = Public
=============================================================================
