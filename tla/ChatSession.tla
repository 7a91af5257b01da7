----------------------------- MODULE ChatSession -----------------------------
(***************************************************************************)
(* A chat session's index row in Firestore and everything that writes it:  *)
(*   - the bootstrap request of a fresh chat                               *)
(*     (protocols/session_bootstrap_routes.py);                            *)
(*   - each turn: _ensure_session_index (skills/skill_processor.py), then, *)
(*     inside the agent run, the session tracker, the document loader and  *)
(*     the after-agent callback (adk/callbacks.py);                        *)
(*   - the owner's PATCH and DELETE (protocols/sessions_route.py).         *)
(*                                                                         *)
(* An instance is one asyncio process: a stretch of code without await runs*)
(* alone on its instance, but not alone in the world.  A handler that reads*)
(* the row and then writes it is therefore two steps, and the instance is  *)
(* Busy between them.  Firestore calls may fail; the code swallows that.   *)
(***************************************************************************)
EXTENDS Integers, Sequences, SequencesExt

CONSTANTS
    Session, User, Doc,
    Shared,         \* the documents whose record carries an accessControl
    Attachments,    \* the document_ids a turn may carry: sequences of Doc
    Instance,       \* Cloud Run instances
    Request,        \* slots for requests in progress; bounds the concurrency
    Store,          \* where "app:" keys live: one per ADK session (Agent
    StoreOf,        \*   Engine), or one for all (InMemorySessionService)
    InMemory,       \* the ADK session service loses its state on a restart
    Failing,        \* Firestore calls that may fail: "look", "create", "update"
    MayRestart,     \* instances may restart
    Delegates,      \* the skill has a sub-agent a turn may be handed to
    FlushInterval,  \* _TURN_FLUSH_INTERVAL
    MaxTurns,       \* bound: no turn begins on a session with so many completed
    None

ASSUME SessionAssumption ==
    /\ Attachments \subseteq Seq(Doc)
    /\ StoreOf \in [User \X Session -> Store]
    /\ Shared \subseteq Doc
    /\ InMemory \in BOOLEAN /\ MayRestart \in BOOLEAN /\ Delegates \in BOOLEAN
    /\ Failing \subseteq {"look", "create", "update"}
    /\ FlushInterval \in Nat \ {0}
    /\ MaxTurns \in Nat

VARIABLES
    index,        \* chat_sessions/{session}: the row or None
    initialized,  \* app:chat_session_initialized, by store
    turnCount,    \* app:chat_session_turn_count, by store
    titleSet,     \* titleSet, by ADK session: a user and a session id
    documentIds,  \* document_ids, by ADK session
    request,      \* the requests in progress
    \* History
    completed     \* turns of the session whose after-agent callback ran

stored == <<initialized, turnCount, titleSet, documentIds>>
vars == <<index, stored, request, completed>>

Access == Doc \union {"private", "custom"}  \* whose accessControl was copied
Title == {None, "user", "auto"}
Row == [owner : User, docs : SUBSET Doc, title : Title, count : Nat,
        archived : BOOLEAN, access : Access]

\* What a run sees of the stored state: the copy it opened, and its own writes.
Seen == [initialized : BOOLEAN, count : Nat, titleSet : BOOLEAN, docs : Seq(Doc)]

ASSUME NoneAssumption == None \notin Row

Idle == [pc |-> "idle"]
Active == [pc : {"bootstrap", "ensure", "ready", "before", "track", "load", "model"},
           instance : Instance, user : User, session : Session, docs : Seq(Doc),
           found : BOOLEAN, delegated : BOOLEAN, seen : Seen]

NewRequest(pc, i, u, s, docs) ==
    [pc |-> pc, instance |-> i, user |-> u, session |-> s, docs |-> docs,
     found |-> index[s] # None, delegated |-> FALSE,
     seen |-> [initialized |-> FALSE, count |-> 0, titleSet |-> FALSE, docs |-> <<>>]]

Key(r) == <<request[r].user, request[r].session>>
At(r) == StoreOf[Key(r)]
Goto(r, pc) == [request EXCEPT ![r].pc = pc]
Done(r) == [request EXCEPT ![r] = Idle]

\* Between a read and the write that depends on it, an instance does nothing else.
Busy(i) ==
    \E r \in Request : request[r].pc \in {"ensure", "track", "bootstrap"}
                       /\ request[r].instance = i

-----------------------------------------------------------------------------
(* The row *)

\* The access control of a new row: the first document's, private without one
\* (or when its record cannot be read).
Inherited(docs) ==
    IF docs # <<>> /\ Head(docs) \in Shared THEN Head(docs) ELSE "private"
Derived(docs) == {Inherited(docs)} \union (IF "look" \in Failing THEN {"private"} ELSE {})

\* create_session_index: sets the whole row, whatever was there.
CreateRow(s, owner, docs, access) ==
    index' = [index EXCEPT ![s] =
                [owner |-> owner, docs |-> ToSet(docs), title |-> None,
                 count |-> 0, archived |-> FALSE, access |-> access]]

\* Mutant of UnionDocs: the write creates the row it does not find.
UnionDocsUpserts(row, docs) ==
    IF row = None THEN [docs |-> docs] ELSE [row EXCEPT !.docs = @ \union docs]

\* add_session_documents: ArrayUnion; on a row that is missing, or with no
\* documents, nothing is written.
UnionDocs(row, docs) ==
    IF row = None THEN None ELSE [row EXCEPT !.docs = @ \union docs]

-----------------------------------------------------------------------------
(* A turn *)

\* process_skill_request begins: _ensure_session_index looks for the row; when
\* the look-up fails it gives up.
Begin(r, i, u, s, docs) ==
    /\ request[r] = Idle
    /\ ~ Busy(i)
    /\ completed[s] < MaxTurns
    /\ \E pc \in {"ensure"} \union (IF "look" \in Failing THEN {"ready"} ELSE {}) :
          request' = [request EXCEPT ![r] = NewRequest(pc, i, u, s, docs)]
    /\ UNCHANGED <<index, stored, completed>>

\* Mutant of Ensure: it creates the row whether or not there is one.
EnsureCreates(r) ==
    /\ request[r].pc = "ensure"
    /\ CreateRow(request[r].session, request[r].user, request[r].docs, "private")
    /\ request' = Goto(r, "ready")
    /\ UNCHANGED <<stored, completed>>

\* _ensure_session_index, on what it found.
Ensure(r) ==
    LET q == request[r] IN
    /\ q.pc = "ensure"
    /\ \/ /\ ~ q.found
          /\ \E access \in Derived(q.docs) : CreateRow(q.session, q.user, q.docs, access)
       \/ /\ q.found
          /\ index' = [index EXCEPT ![q.session] = UnionDocs(@, ToSet(q.docs))]
       \/ /\ (IF q.found THEN "update" ELSE "create") \in Failing
          /\ UNCHANGED index
    /\ request' = Goto(r, "ready")
    /\ UNCHANGED <<stored, completed>>

\* The runner opens the ADK session, a copy of what is stored, with the turn's
\* documents written to its state when it carries any.
Open(r) ==
    LET docs == IF request[r].docs = <<>> THEN documentIds[Key(r)] ELSE request[r].docs IN
    /\ request[r].pc = "ready"
    /\ documentIds' = [documentIds EXCEPT ![Key(r)] = docs]
    /\ request' = [request EXCEPT ![r].pc = "before",
                                  ![r].seen = [initialized |-> initialized[At(r)],
                                               count |-> turnCount[At(r)],
                                               titleSet |-> titleSet[Key(r)],
                                               docs |-> docs]]
    /\ UNCHANGED <<index, initialized, turnCount, titleSet, completed>>

\* The tracker looks for the row, once per store; a failed look-up counts as no
\* row found.
Track(r) ==
    /\ request[r].pc = "before"
    /\ ~ Busy(request[r].instance)
    /\ \/ /\ request[r].seen.initialized
          /\ request' = Goto(r, "load")
       \/ /\ ~ request[r].seen.initialized
          /\ \E found \in {index[request[r].session] # None}
                          \union (IF "look" \in Failing THEN {FALSE} ELSE {}) :
                request' = [request EXCEPT ![r].pc = "track", ![r].found = found]
    /\ UNCHANGED <<index, stored, completed>>

\* The tracker marks the session initialised, with no turn counted.
Initialize(r) ==
    /\ initialized' = [initialized EXCEPT ![At(r)] = TRUE]
    /\ turnCount' = [turnCount EXCEPT ![At(r)] = 0]
    /\ request' = [request EXCEPT ![r].pc = "load", ![r].seen.initialized = TRUE,
                                  ![r].seen.count = 0]

\* The tracker, on what it found.
TrackWrite(r) ==
    LET q == request[r] IN
    /\ q.pc = "track"
    /\ \/ /\ q.found
          /\ Initialize(r)
          /\ UNCHANGED index
       \/ /\ ~ q.found
          /\ \E access \in Derived(q.seen.docs) :
                CreateRow(q.session, q.user, q.seen.docs, access)
          /\ Initialize(r)
       \/ /\ ~ q.found /\ "create" \in Failing
          /\ request' = Goto(r, "load")
          /\ UNCHANGED <<index, initialized, turnCount>>
    /\ UNCHANGED <<titleSet, documentIds, completed>>

\* The document loader: the documents it loads anew (some may fail, some be
\* loaded already) are added to the row.
Load(r) ==
    LET q == request[r] IN
    /\ q.pc = "load"
    /\ ~ Busy(q.instance)
    /\ \/ \E loaded \in SUBSET ToSet(q.seen.docs) :
             index' = [index EXCEPT ![q.session] = UnionDocs(@, loaded)]
       \/ "update" \in Failing /\ UNCHANGED index
    /\ request' = Goto(r, "model")
    /\ UNCHANGED <<stored, completed>>

\* make_after_agent_response, in a session the tracker never initialised.
FinishUntracked(r) ==
    /\ request[r].pc = "model"
    /\ ~ request[r].seen.initialized
    /\ request' = Done(r)
    /\ completed' = [completed EXCEPT ![request[r].session] = @ + 1]
    /\ UNCHANGED <<index, stored>>

\* Mutant of NeedsTitle: later titles do not depend on there being one.
NeedsTitleAgain(n, isSet) == n = 2 \/ n >= 4

NeedsTitle(n, isSet) == n = 2 \/ (n >= 4 /\ ~ isSet)
\* Mutant of Flushes: only a title is a reason to flush.
FlushesTitlesOnly(n, isSet) == NeedsTitle(n, isSet)

Flushes(n, isSet) == n % FlushInterval = 0 \/ NeedsTitle(n, isSet)

\* Mutant of Counted: the count is added to the row's.
Recounted(row, n) == IF row = None THEN None ELSE [row EXCEPT !.count = @ + n]

\* _flush_session_index: the counter.
Counted(row, n) == IF row = None THEN None ELSE [row EXCEPT !.count = n]

Titled(row, title) ==
    IF row = None \/ title = None THEN row ELSE [row EXCEPT !.title = title]

\* make_after_agent_response in a tracked session: counts, and on some counts
\* flushes the count, a generated title and the session's documents to the row.
AfterAgent(r) ==
    LET q == request[r]
        n == q.seen.count + 1
    IN
    /\ ~ Busy(q.instance)
    /\ q.seen.initialized
    /\ turnCount' = [turnCount EXCEPT ![At(r)] = n]
    /\ IF Flushes(n, q.seen.titleSet)
       THEN \E title \in (IF NeedsTitle(n, q.seen.titleSet) THEN {None, "auto"} ELSE {None}) :
               /\ titleSet' = [titleSet EXCEPT ![Key(r)] = @ \/ title # None]
               /\ \E row \in {Titled(Counted(index[q.session], n), title)}
                             \union (IF "update" \in Failing THEN {index[q.session]} ELSE {}) :
                     \/ index' = [index EXCEPT ![q.session] = UnionDocs(row, ToSet(q.seen.docs))]
                     \/ "update" \in Failing /\ index' = [index EXCEPT ![q.session] = row]
       ELSE UNCHANGED <<index, titleSet>>
    /\ UNCHANGED <<initialized, documentIds>>

\* The sub-agent the turn was handed to ends; it has the same callback.  (The
\* third conjunct is a bound: turns that abort after this are not completed.)
FinishSub(r) ==
    /\ Delegates
    /\ request[r].pc = "model"
    /\ request[r].seen.count < 2 * MaxTurns
    /\ ~ request[r].delegated
    /\ AfterAgent(r)
    /\ request' = [request EXCEPT ![r].delegated = TRUE,
                                  ![r].seen.count = turnCount'[At(r)],
                                  ![r].seen.titleSet = titleSet'[Key(r)]]
    /\ UNCHANGED completed

\* The turn ends.
Finish(r) ==
    /\ request[r].pc = "model"
    /\ AfterAgent(r)
    /\ request' = Done(r)
    /\ completed' = [completed EXCEPT ![request[r].session] = @ + 1]

\* The run raises, or its stream is abandoned: no after-agent callback.
Abort(r) ==
    /\ request[r].pc \in {"ready", "before", "load", "model"}
    /\ request' = Done(r)
    /\ UNCHANGED <<index, stored, completed>>

-----------------------------------------------------------------------------
(* The other requests *)

\* bootstrap_session looks for the row, and answers at once when it is there
\* (or belongs to someone else, or the look-up fails).
Bootstrap(r, i, u, s, docs) ==
    /\ request[r] = Idle
    /\ ~ Busy(i)
    /\ index[s] = None
    /\ request' = [request EXCEPT ![r] = NewRequest("bootstrap", i, u, s, docs)]
    /\ UNCHANGED <<index, stored, completed>>

\* It found none: a private row, whatever the documents.
BootstrapWrite(r) ==
    /\ request[r].pc = "bootstrap"
    /\ \/ CreateRow(request[r].session, request[r].user, request[r].docs, "private")
       \/ "create" \in Failing /\ UNCHANGED index
    /\ request' = Done(r)
    /\ UNCHANGED <<stored, completed>>

\* patch_session, by the owner: any of a title, a new access control, and
\* archiving or its opposite.
Patch(u, s) ==
    /\ \E i \in Instance : ~ Busy(i)
    /\ index[s] # None
    /\ index[s].owner = u
    /\ \E title \in {index[s].title, "user"}, access \in {index[s].access, "custom"},
          archived \in BOOLEAN :
          index' = [index EXCEPT ![s].title = title, ![s].access = access,
                                 ![s].archived = archived]
    /\ UNCHANGED <<stored, request, completed>>

\* delete_session, by the owner.
Delete(u, s) ==
    /\ \E i \in Instance : ~ Busy(i)
    /\ index[s] # None
    /\ index[s].owner = u
    /\ index' = [index EXCEPT ![s].archived = TRUE]
    /\ UNCHANGED <<stored, request, completed>>

Fresh ==
    [init |-> [a \in Store |-> FALSE], count |-> [a \in Store |-> 0],
     titled |-> [k \in User \X Session |-> FALSE],
     docs |-> [k \in User \X Session |-> <<>>]]

\* An instance restarts: its requests are gone, and the ADK sessions it kept in
\* memory.
Restart(i) ==
    /\ MayRestart
    /\ request' = [r \in Request |->
                     IF request[r] # Idle /\ request[r].instance = i THEN Idle ELSE request[r]]
    /\ IF InMemory
       THEN /\ initialized' = Fresh.init
            /\ turnCount' = Fresh.count
            /\ titleSet' = Fresh.titled
            /\ documentIds' = Fresh.docs
       ELSE UNCHANGED stored
    /\ UNCHANGED <<index, completed>>

Init ==
    /\ index = [s \in Session |-> None]
    /\ initialized = Fresh.init
    /\ turnCount = Fresh.count
    /\ titleSet = Fresh.titled
    /\ documentIds = Fresh.docs
    /\ request = [r \in Request |-> Idle]
    /\ completed = [s \in Session |-> 0]

Owner == \E u \in User, s \in Session : Patch(u, s) \/ Delete(u, s)

Step(r) ==
    \/ Ensure(r) \/ Open(r) \/ Track(r) \/ TrackWrite(r) \/ Load(r)
    \/ FinishUntracked(r) \/ FinishSub(r) \/ Finish(r) \/ Abort(r) \/ BootstrapWrite(r)

Next ==
    \/ \E r \in Request, i \in Instance, u \in User, s \in Session, docs \in Attachments :
          Begin(r, i, u, s, docs) \/ Bootstrap(r, i, u, s, docs)
    \/ \E r \in Request : Step(r)
    \/ Owner
    \/ \E i \in Instance : Restart(i)

Spec == Init /\ [][Next]_vars

-----------------------------------------------------------------------------
(* Properties *)

TypeOK ==
    /\ index \in [Session -> Row \union {None}]
    /\ initialized \in [Store -> BOOLEAN]
    /\ turnCount \in [Store -> Nat]
    /\ titleSet \in [User \X Session -> BOOLEAN]
    /\ documentIds \in [User \X Session -> Seq(Doc)]
    /\ request \in [Request -> Active \union {Idle}]
    /\ completed \in [Session -> Nat]

\* What the row must keep: it stays, with its owner; no document ever attached is
\* dropped; and only its owner, by PATCH or DELETE, changes who may see it and whether
\* it is archived.
KeepsRow(s) ==
    index[s] # None =>
       /\ index'[s] # None
       /\ index'[s].owner = index[s].owner
       /\ index[s].docs \subseteq index'[s].docs
       /\ Owner \/ /\ index'[s].access = index[s].access
                   /\ index'[s].archived = index[s].archived

\* Request r of session s is about to create a row.
Creating(r, s) ==
    /\ \/ request[r].pc = "bootstrap"
       \/ request[r].pc \in {"ensure", "track"} /\ ~ request[r].found
    /\ request[r].session = s

\* The session has its row, and no request takes it for missing any more.
Settled(s) == index[s] # None /\ \A r \in Request : ~ Creating(r, s)

\* The tracker's look-up fails, and it takes the row for missing.
LooksBlind(r, s) == "look" \in Failing /\ request[r].pc = "before" /\ Creating(r, s)'

\* A row is in danger only from requests that looked before it came.  Once they are
\* done the row is kept for good, whatever overlaps, fails or restarts on whichever
\* instance, until a tracker's look-up of it fails.
RowSettles ==
    [][\A s \in Session :
          Settled(s) => KeepsRow(s) /\ (Settled(s)' \/ \E r \in Request : LooksBlind(r, s))]_vars

\* What the tracker's comment says: when the row is there already, "this callback must
\* NOT re-create the row - that would clobber any title / turnCount / documentIds
\* updates already on it".
TrackerSparesRow ==
    [][\A r \in Request : TrackWrite(r) => KeepsRow(request[r].session)]_vars

\* A row never counts more turns than the session has had.
CountIsOwn ==
    \A s \in Session : index[s] # None => index[s].count <= completed[s]

\* A row's count lags behind by less than a flush interval.
CountFresh ==
    \A s \in Session : index[s] # None => completed[s] - index[s].count < FlushInterval

\* A title the owner gives a session that has already had a generated one is
\* never replaced by another generated one.
TitleSettled ==
    [][\A s \in Session :
          index[s] # None /\ index[s].title = "user" /\ titleSet[<<index[s].owner, s>>]
          => index'[s].title = "user"]_vars
=============================================================================
