--------------------------- MODULE DocumentContext ---------------------------
(***************************************************************************)
(* How documents reach the model: the before-agent callback loads the      *)
(* documents attached to a chat session into artifacts of the session, and *)
(* the before-model callback puts the artifacts in the request             *)
(* (make_document_loader and make_document_injector of                     *)
(* backend/adk/callbacks.py).  One session is modelled, turn by turn, over *)
(* the records of module Documents, which change under it.                 *)
(*                                                                         *)
(* The session's state and its artifacts are kept by services that a       *)
(* restart may or may not empty.  The loader's keys begin with "app:",     *)
(* which the in-memory session service shares among all sessions: with     *)
(* SharedKeys they are overwritten at any time between two turns.          *)
(***************************************************************************)
EXTENDS Documents

CONSTANTS
    MaxTurns,         \* bound on the turns taken
    SessionsSurvive,  \* the session service outlives the process
    ArtifactsSurvive, \* the artifact service does
    SharedKeys        \* other sessions write this one's "app:" keys

ASSUME ContextAssumption ==
    /\ MaxTurns \in Nat
    /\ {SessionsSurvive, ArtifactsSurvive, SharedKeys} \subseteq BOOLEAN

VARIABLES
    stored,    \* the session's state in the session service
    artifact,  \* its artifacts, doc:{id}.json, by document
    turn,      \* the turn in progress
    turns,     \* the turns begun
    \* Histories of the turn, read by properties only:
    readable,  \* the documents that could be read ever since it began
    faulty,    \* the documents a read or a write of the loader failed for
    skipped    \* those whose artifact the injector failed to read

sessionVars == <<stored, artifact, turn, turns, readable, faulty, skipped>>
vars == <<docVars, sessionVars>>

\* document_ids, app:docs_loaded, and the keys of app:doc_load_error.
State == [attached : SUBSET DocIds, loaded : SUBSET DocIds,
          errors : SUBSET DocIds]

\* The copy of the state the turn works on, the documents it has still to load
\* and those put in the model's request.
Turn == [at : {"idle", "loading", "model"}, state : State,
         todo : SUBSET DocIds, context : SUBSET DocIds]

NoState == [attached |-> {}, loaded |-> {}, errors |-> {}]
NoTurn == [at |-> "idle", state |-> NoState, todo |-> {}, context |-> {}]
NoArtifacts == [d \in DocIds |-> None]

\* build_document_context: a record gives its blocks once it is parsed.
HasBlocks(d) == Present(d) /\ docs[d].status = "parsed" /\ docs[d].blocks # None

-----------------------------------------------------------------------------

\* The orphan probe: of the documents said to be loaded, those with an
\* artifact; one whose artifact cannot be read now counts as an orphan.
Verified(unread) == {d \in stored.loaded : artifact[d] # None} \ unread

\* Mutant of ToLoad: a document that failed before is not tried again, as the
\* loader's docstring has it.
ToLoadOnce(attached, loaded) == attached \ (loaded \union stored.errors)

ToLoad(attached, loaded) == attached \ loaded

\* A turn begins: the documents the request names replace those attached
\* before, and the loader finds what it has to load.
TurnBegin(named) ==
    /\ turn.at = "idle" /\ turns < MaxTurns
    /\ \E unread \in SUBSET stored.loaded :
          LET attached == IF named = {} THEN stored.attached ELSE named
              loaded == Verified(unread)
          IN  /\ turn' = [at |-> "loading", context |-> {},
                          state |-> [attached |-> attached, loaded |-> loaded,
                                     errors |-> stored.errors],
                          todo |-> ToLoad(attached, loaded)]
              /\ readable' = {d \in attached : HasBlocks(d)}
              /\ faulty' = {} /\ skipped' = {}
    /\ turns' = turns + 1
    /\ UNCHANGED <<stored, artifact>>

\* The blocks are saved as the session's artifact.
LoadOk(d) ==
    /\ turn.at = "loading" /\ d \in turn.todo
    /\ HasBlocks(d)
    /\ artifact' = [artifact EXCEPT ![d] = docs[d].blocks]
    /\ turn' = [turn EXCEPT !.todo = @ \ {d}, !.state.loaded = @ \union {d},
                            !.state.errors = @ \ {d}]
    /\ UNCHANGED <<stored, turns, readable, faulty, skipped>>

\* Mutant of LoadFailed: the failure ends the loop over the documents.
LoadFailedStops(d) ==
    /\ turn.at = "loading" /\ d \in turn.todo
    /\ faulty' = IF HasBlocks(d) THEN faulty \union {d} ELSE faulty
    /\ turn' = [turn EXCEPT !.todo = {}, !.state.errors = @ \union {d}]
    /\ UNCHANGED <<stored, artifact, turns, readable, skipped>>

\* There are no blocks, or reading the record or saving the artifact raises.
LoadFailed(d) ==
    /\ turn.at = "loading" /\ d \in turn.todo
    /\ faulty' = IF HasBlocks(d) THEN faulty \union {d} ELSE faulty
    /\ turn' = [turn EXCEPT !.todo = @ \ {d}, !.state.errors = @ \union {d}]
    /\ UNCHANGED <<stored, artifact, turns, readable, skipped>>

\* The documents the injector can put in a request.
Injectable == {d \in turn.state.loaded : artifact[d] # None}

\* The loader's keys are written to the session, and the injector reads the
\* artifact of every loaded document into the turn's first model request.  A
\* read that raises or comes back empty is logged and its document skipped.
Inject ==
    /\ turn.at = "loading" /\ turn.todo = {}
    /\ \E unread \in SUBSET Injectable :
          /\ turn' = [turn EXCEPT !.at = "model", !.context = Injectable \ unread]
          /\ skipped' = unread
    /\ stored' = turn.state
    /\ UNCHANGED <<artifact, turns, readable, faulty>>

TurnEnd ==
    /\ turn.at = "model"
    /\ turn' = NoTurn
    /\ readable' = {} /\ faulty' = {} /\ skipped' = {}
    /\ UNCHANGED <<stored, artifact, turns>>

\* Another session of the process writes the shared keys.
OtherSessionWrites ==
    /\ SharedKeys /\ turn.at = "idle"
    /\ \E loaded, errors \in SUBSET DocIds :
          stored' = [stored EXCEPT !.loaded = loaded, !.errors = errors]
    /\ UNCHANGED <<artifact, turn, turns, readable, faulty, skipped>>

\* The restart of the process, as the session sees it.
SessionRestart ==
    /\ turn' = NoTurn
    /\ stored' = IF SessionsSurvive THEN stored ELSE NoState
    /\ artifact' = IF ArtifactsSurvive THEN artifact ELSE NoArtifacts
    /\ readable' = {} /\ faulty' = {} /\ skipped' = {}
    /\ UNCHANGED turns

-----------------------------------------------------------------------------

Init ==
    /\ DocInit
    /\ stored = NoState
    /\ artifact = NoArtifacts
    /\ turn = NoTurn
    /\ turns = 0
    /\ readable = {} /\ faulty = {} /\ skipped = {}

SessionNext ==
    \/ \E named \in SUBSET (1 .. issued) : TurnBegin(named)
    \/ \E d \in DocIds : LoadOk(d) \/ LoadFailed(d)
    \/ Inject
    \/ TurnEnd
    \/ OtherSessionWrites

\* The requests of module Documents go on while the turn is in progress.
Next ==
    \/ SessionNext /\ UNCHANGED docVars
    \/ /\ DocStep
       /\ readable' = {d \in readable : HasBlocks(d)'}
       /\ UNCHANGED <<stored, artifact, turn, turns, faulty, skipped>>
    \/ Restart /\ SessionRestart

Spec == Init /\ [][Next]_vars

-----------------------------------------------------------------------------

\* The session, its artifacts and its turn are well typed.
TypeOK ==
    /\ DocTypeOK
    /\ stored \in State
    /\ artifact \in [DocIds -> Content \union {None}]
    /\ turn \in Turn
    /\ turns \in 0 .. MaxTurns
    /\ {readable, faulty, skipped} \subseteq SUBSET DocIds

\* When the model is called, an attached document that is not in its request
\* has an error on record, or an artifact that failed to be read as the request
\* was made: a document said to be loaded always has an artifact behind it by
\* then (callbacks.py:203-213), and no document is lost by what befell another
\* one, whatever a restart lost and whatever other sessions wrote.
NoSilentLoss ==
    turn.at = "model" =>
       turn.state.attached \subseteq turn.context \union turn.state.errors \union skipped

\* A document that could be read all through the loader's work, and for which
\* no call failed, is in the request, whatever failed for the others: earlier
\* failures, lost artifacts and skipped injections are made good on the next
\* turn (callbacks.py:212-213, :531-536).
SelfHeals ==
    turn.at = "model" =>
       (turn.state.attached \intersect readable) \ (faulty \union skipped)
          \subseteq turn.context
=============================================================================
