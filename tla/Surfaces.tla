------------------------------ MODULE Surfaces ------------------------------
(***************************************************************************)
(* What a user does on a rendered surface, and the agent's turns that read *)
(* it: clicks (surface-action), clicks that start a turn (surface-action-  *)
(* run), pushes of an MCP app's frame (iframe-context) and chat turns, all *)
(* of one thread, with the event stream a turn answers with.               *)
(*                                                                         *)
(* The four endpoints meet in the state of the ADK session, which is kept  *)
(* per thread and user.  A surface's id is a sequence of names, the parts  *)
(* between its dots.  A value is written as the number of the call that    *)
(* brought it, and 0 stands for none.                                      *)
(*                                                                         *)
(* A call a gate refuses changes nothing and is not modelled.  The session *)
(* service and the library that runs the agent are external; the library   *)
(* raises an exception, if at all, before it has ended the run.            *)
(***************************************************************************)
EXTENDS Naturals, Sequences, FiniteSets, SequencesExt

CONSTANTS
    Users,         \* those who may see the thread, each with a session of its own
    Names,         \* the parts of the keys
    SurfaceIds,    \* sequences of names
    FrameIds,      \* an MCP server and its tool, as a pair of names
    Durable,       \* Agent Engine sessions, else in memory
    MaxCalls,      \* bound on the calls of a behaviour
    MaxTurns,      \* bound on those that start a turn
    MaxActive,     \* bound on the calls under way at once
    Configurations,\* what the skill may be changed to allow
    MaxUpsets      \* bound on these changes and on restarts, together

ASSUME SurfacesAssumption ==
    /\ {"action", "frame", "lastAction"} \subseteq Names
    /\ SurfaceIds \subseteq Seq(Names) /\ <<>> \notin SurfaceIds
    /\ FrameIds \subseteq Names \X Names
    /\ "none" \notin Users
    /\ Durable \in BOOLEAN
    /\ Configurations \subseteq SUBSET {"skill", "writes", "runs", "frames"}
    /\ {MaxCalls, MaxTurns, MaxActive, MaxUpsets} \subseteq Nat

Calls == 1 .. MaxCalls
Grants == {"skill", "writes", "runs", "frames"}
Terminals == {"finished", "error"}

\* The key of a surface's last action.
ActionKey(id) == <<"action">> \o id \o <<"lastAction">>
FrameKey(id) == <<"frame">> \o id
Keys == {ActionKey(id) : id \in SurfaceIds} \union {FrameKey(id) : id \in FrameIds}

VARIABLES
    grants,    \* what the skill's configuration allows
    sessions,  \* the ADK sessions of the thread
    calls,     \* the calls
    count,     \* how many were admitted
    upsets,    \* and of changes of the skill and restarts
    answered   \* history: the calls answered, and not forgotten by a restart

bounds == <<count, upsets>>
vars == <<grants, sessions, calls, bounds, answered>>

NoSession == [there |-> FALSE, state |-> [k \in Keys |-> 0], snapshot |-> 0, trigger |-> 0]
NewSession == [NoSession EXCEPT !.there = TRUE]

\* wire is what was sent, less the texts.  queue holds the stage events not yet sent,
\* marked the stages met.  shown, shownSnapshot and triggered are what the prompt says
\* that the model works on.  Histories: before is answered as it was at the call's
\* arrival, after the calls that were over then, due the stages met with a label, owed
\* those that were due when the last event was passed on.
Call == [kind : {"none", "click", "run", "frame", "chat"}, user : Users \union {"none"},
         key : Keys \union {<<>>}, sends : BOOLEAN,
         at : {"off", "get", "create", "append", "build", "open",
               "agent", "prompt", "model", "ended", "done", "failed"},
         queue : Seq({"agent", "model"}), marked : SUBSET {"agent", "model"},
         wire : Seq({"agent", "model"} \union Terminals),
         shown : SUBSET [heading : Seq(Names), field : Seq(Names), from : Calls],
         shownSnapshot : 0 .. MaxCalls, triggered : BOOLEAN,
         before : SUBSET Calls, after : SUBSET Calls, due : SUBSET {"agent", "model"}, owed : SUBSET {"agent", "model"}]

Off == [kind |-> "none", user |-> "none", key |-> <<>>, sends |-> FALSE, at |-> "off",
        queue |-> <<>>, marked |-> {}, wire |-> <<>>, shown |-> {},
        shownSnapshot |-> 0, triggered |-> FALSE, before |-> {}, after |-> {},
        due |-> {}, owed |-> {}]

\* What is left of a call that is over, or has only to be closed.
Left(call) ==
    [Off EXCEPT !.kind = call.kind, !.user = call.user, !.key = call.key,
                !.before = IF call.key = <<>> THEN {} ELSE call.before]
Ended(call) == [Left(call) EXCEPT !.wire = call.wire, !.owed = call.owed, !.at = "ended"]
Done(call) == [Left(call) EXCEPT !.at = "done"]
Failed(call) == [Left(call) EXCEPT !.before = {}, !.at = "failed"]

Active(c) == calls[c].at \notin {"off", "done", "failed"}
Turn(c) == calls[c].kind \in {"run", "chat"}
Streaming(c) == calls[c].at \in {"agent", "prompt", "model"}
Mine(c) == sessions[calls[c].user]
Move(c, place) == calls' = [calls EXCEPT ![c].at = place]
Finish(c) == calls' = [calls EXCEPT ![c] = Done(@)]
Fail(c) == calls' = [calls EXCEPT ![c] = Failed(@)]

-----------------------------------------------------------------------------
(* The gates.  They run without a pause when the call arrives, each call's *)
(* own: the thread's row exists and its reader may see it; what the skill  *)
(* allows is read from its configuration.                                  *)

ClickAllowed == {"skill", "writes"} \subseteq grants
RunAllowed == {"skill", "writes", "runs"} \subseteq grants
FrameAllowed == {"skill", "frames"} \subseteq grants
ChatAllowed == "skill" \in grants

Arrive(call) ==
    /\ count < MaxCalls
    /\ Cardinality({c \in Calls : Active(c)}) < MaxActive
    /\ call.kind \in {"run", "chat"} => Cardinality({c \in Calls : Turn(c)}) < MaxTurns
    /\ count' = count + 1
    /\ calls' = [calls EXCEPT ![count'] =
          [call EXCEPT !.before = answered,
                       !.after = {c \in Calls : call.sends /\ calls[c].at \in {"done", "failed"}}]]
    /\ UNCHANGED <<grants, sessions, upsets, answered>>

\* post_surface_action
Click(u, id) ==
    /\ ClickAllowed
    /\ Arrive([Off EXCEPT !.kind = "click", !.user = u, !.key = ActionKey(id), !.at = "get"])

\* post_surface_action_run, with the surfaces' data if the client sent it.
ClickRun(u, id, sends) ==
    /\ RunAllowed
    /\ Arrive([Off EXCEPT !.kind = "run", !.user = u, !.key = ActionKey(id),
                          !.sends = sends, !.at = "get"])

\* post_iframe_context; a push with no content is answered and writes nothing.
Frame(u, id) ==
    /\ FrameAllowed
    /\ Arrive([Off EXCEPT !.kind = "frame", !.user = u, !.key = FrameKey(id), !.at = "get"])

\* stream_skill and process_skill_request, up to the run of the agent.
Chat(u, sends) ==
    /\ ChatAllowed
    /\ Arrive([Off EXCEPT !.kind = "chat", !.user = u, !.sends = sends, !.at = "open"])

-----------------------------------------------------------------------------
(* The write of a pushed value.                                            *)

\* get_session.  A click or a push that finds no session is answered 404.
GetSession(c) ==
    /\ calls[c].at = "get"
    /\ IF Mine(c).there THEN Move(c, "append")
       ELSE IF calls[c].kind = "run" THEN Move(c, "create") ELSE Fail(c)
    /\ UNCHANGED <<grants, sessions, bounds, answered>>

\* The service refuses a second session of an id.  Mutant: it replaces the first.
CreatedAnew(c) == [ok |-> TRUE, session |-> NewSession]
Created(c) == IF Mine(c).there THEN [ok |-> FALSE, session |-> Mine(c)]
              ELSE [ok |-> TRUE, session |-> NewSession]

CreateSession(c) ==
    /\ calls[c].at = "create"
    /\ sessions' = [sessions EXCEPT ![calls[c].user] = Created(c).session]
    /\ IF Created(c).ok THEN Move(c, "append") ELSE Fail(c)
    /\ UNCHANGED <<grants, bounds, answered>>

\* append_event with the state delta.  A click or a push is then answered.
AppendEvent(c) ==
    /\ calls[c].at = "append"
    /\ sessions' = [sessions EXCEPT ![calls[c].user].state[calls[c].key] = c]
    /\ IF calls[c].kind = "run"
       THEN Move(c, "build") /\ UNCHANGED answered
       ELSE Finish(c) /\ answered' = answered \union {c}
    /\ UNCHANGED <<grants, bounds>>

\* _resolve_agent reads the skill again; with the agent the answer begins.
BuildAgent(c) ==
    /\ calls[c].at = "build"
    /\ IF "skill" \in grants
       THEN Move(c, "open") /\ answered' = answered \union {c}
       ELSE Fail(c) /\ UNCHANGED answered
    /\ UNCHANGED <<grants, sessions, bounds>>

-----------------------------------------------------------------------------
(* A turn of the agent.                                                    *)

\* The run's input becomes part of the session's state, which is made if need be:
\* the data of the surfaces that were sent, and the trigger of a run.  Mutants: data
\* that is there stays; no session is made.
StateKept(c) ==
    [Mine(c) EXCEPT !.there = TRUE,
        !.snapshot = IF calls[c].sends /\ @ = 0 THEN c ELSE @,
        !.trigger = IF calls[c].kind = "run" THEN c ELSE @]
StateUnmade(c) == [Mine(c) EXCEPT !.snapshot = IF calls[c].sends THEN c ELSE @]
StateWith(c) ==
    [Mine(c) EXCEPT !.there = TRUE,
        !.snapshot = IF calls[c].sends THEN c ELSE @,
        !.trigger = IF calls[c].kind = "run" THEN c ELSE @]

OpenRun(c) ==
    /\ calls[c].at = "open"
    /\ sessions' = [sessions EXCEPT ![calls[c].user] = StateWith(c)]
    /\ Move(c, "agent")
    /\ UNCHANGED <<grants, bounds, answered>>

\* LatencyTracker.mark: the first time counts, and is told if it has a label.  Only a
\* chat turn has a tracker.  Mutant: every time counts.
Labelled(call, stage) == [call EXCEPT !.queue = Append(@, stage), !.due = @ \union {stage}]
MarkedAgain(call, stage, label) ==
    IF call.kind = "chat" /\ label THEN Labelled(call, stage) ELSE call
Marked(call, stage, label) ==
    IF call.kind # "chat" \/ stage \in call.marked THEN call
    ELSE [IF label THEN Labelled(call, stage) ELSE call EXCEPT !.marked = @ \union {stage}]

\* before_agent, of the agent or of one it hands over to; it has a label when the
\* loader has loaded documents.
BeginAgent(c, label) ==
    /\ calls[c].at \in {"agent", "model"}
    /\ calls' = [calls EXCEPT ![c] =
          [Marked(@, "agent", label) EXCEPT !.at = "prompt", !.shown = {},
              !.shownSnapshot = 0, !.triggered = FALSE]]
    /\ UNCHANGED <<grants, sessions, bounds, answered>>

\* _collect_surfaces splits what follows the prefix at the first dot.
ShownActions(s) ==
    {[heading |-> <<k[2]>>, field |-> SubSeq(k, 3, Len(k)), from |-> s.state[k]] :
        k \in {j \in Keys : j[1] = "action" /\ s.state[j] # 0}}

\* The block of the frames has the key whole.
ShownFrames(s) ==
    {[heading |-> Tail(k), field |-> <<>>, from |-> s.state[k]] :
        k \in {j \in Keys : j[1] = "frame" /\ s.state[j] # 0}}

\* The instruction is rendered from the session's state, then before_model.
Prompt(c) ==
    /\ calls[c].at = "prompt"
    /\ calls' = [calls EXCEPT ![c] =
          [Marked(@, "model", TRUE) EXCEPT !.at = "model",
              !.shown = ShownActions(Mine(c)) \union ShownFrames(Mine(c)),
              !.shownSnapshot = Mine(c).snapshot, !.triggered = Mine(c).trigger # 0]]
    /\ UNCHANGED <<grants, sessions, bounds, answered>>

-----------------------------------------------------------------------------
(* stream_agui_events.                                                     *)

\* drain_stage_events
Drained(call) == [call EXCEPT !.wire = @ \o call.queue, !.queue = <<>>]

\* An event goes out, and after it the stages that wait.  A terminal event after the
\* first is dropped.  Mutant: it is passed on.
PassedAll(call, event) ==
    IF event \in Terminals THEN Ended(Drained([call EXCEPT !.wire = Append(@, event)]))
    ELSE Drained([call EXCEPT !.owed = call.due])
Passed(call, event) ==
    IF event \in Terminals /\ call.at = "ended" THEN call
    ELSE IF event \in Terminals
    THEN Ended(Drained([call EXCEPT !.wire = Append(@, event), !.owed = call.due]))
    ELSE Drained([call EXCEPT !.owed = call.due])

\* The library may end a run twice.
Emit(c, event) ==
    /\ Streaming(c) \/ (calls[c].at = "ended" /\ event \in Terminals)
    /\ calls' = [calls EXCEPT ![c] = Passed(@, event)]
    /\ UNCHANGED <<grants, sessions, bounds, answered>>

\* An exception becomes an error event: any of them in a run, one of the model's
\* service or the budget's in a chat turn, where any other tears the stream.
Raised(call, known) ==
    IF known \/ call.kind = "run" THEN Ended([call EXCEPT !.wire = Append(@, "error")])
    ELSE Failed(call)

Raise(c, known) ==
    /\ Streaming(c)
    /\ calls' = [calls EXCEPT ![c] = Raised(@, known)]
    /\ UNCHANGED <<grants, sessions, bounds, answered>>

Close(c) ==
    /\ calls[c].at = "ended"
    /\ Finish(c)
    /\ UNCHANGED <<grants, sessions, bounds, answered>>

-----------------------------------------------------------------------------

\* The owner of the skill changes its configuration, or deletes it.
EditSkill ==
    /\ upsets < MaxUpsets
    /\ grants' \in Configurations \ {grants}
    /\ upsets' = upsets + 1
    /\ UNCHANGED <<sessions, calls, count, answered>>

\* Sessions in memory go with the process.
Restart ==
    /\ upsets < MaxUpsets
    /\ upsets' = upsets + 1
    /\ calls' = [c \in Calls |-> IF Active(c) THEN Failed(calls[c]) ELSE calls[c]]
    /\ IF Durable THEN UNCHANGED <<sessions, answered>>
       ELSE sessions' = [u \in Users |-> NoSession] /\ answered' = {}
    /\ UNCHANGED <<grants, count>>

\* The bootstrap makes the owner's session, or fails to; its readers have none.
Init ==
    /\ grants = Grants
    /\ sessions \in [Users -> {NoSession, NewSession}]
    /\ calls = [c \in Calls |-> Off]
    /\ count = 0 /\ upsets = 0
    /\ answered = {}

Step(c) ==
    \/ GetSession(c) \/ CreateSession(c) \/ AppendEvent(c) \/ BuildAgent(c)
    \/ OpenRun(c) \/ Prompt(c)
    \/ \E label \in BOOLEAN : BeginAgent(c, label)
    \/ \E event \in {"text"} \union Terminals : Emit(c, event)
    \/ \E known \in BOOLEAN : Raise(c, known)
    \/ Close(c)

Next ==
    \/ \E u \in Users, id \in SurfaceIds : Click(u, id)
    \/ \E u \in Users, id \in SurfaceIds, sends \in BOOLEAN : ClickRun(u, id, sends)
    \/ \E u \in Users, id \in FrameIds : Frame(u, id)
    \/ \E u \in Users, sends \in BOOLEAN : Chat(u, sends)
    \/ \E c \in Calls : Step(c)
    \/ EditSkill \/ Restart

Spec == Init /\ [][Next]_vars

-----------------------------------------------------------------------------

\* Every variable has its type.
TypeOK ==
    /\ grants \subseteq Grants
    /\ \A u \in Users : /\ sessions[u].there \in BOOLEAN
                       /\ sessions[u].state \in [Keys -> 0 .. MaxCalls]
                       /\ {sessions[u].snapshot, sessions[u].trigger} \subseteq 0 .. MaxCalls
                       /\ ~sessions[u].there => sessions[u] = NoSession
    /\ \A c \in Calls : c > count => calls[c] = Off
    /\ \A c \in Calls : c <= count => calls[c] \in Call
    /\ answered \subseteq 1 .. count

\* The heading of a pushed value, and whether it can be read back: the block of the
\* surfaces loses an id with a dot in it.
Heading(call) == SubSeq(call.key, 2, IF call.kind = "frame" THEN 3 ELSE Len(call.key) - 1)
Plain(call) == call.kind = "frame" \/ Len(call.key) = 3

\* What a user pushed reaches their next turn: a prompt shows, for every push that
\* was answered before the turn was asked for, and for the click that started the
\* turn, its value or one for the same surface that is not older.  Clicks overlap,
\* sessions are made on demand, by two clicks at once, and lost.  (post_surface_action,
\* post_surface_action_run, post_iframe_context, _collect_surfaces)
PushReachesTurn ==
    \A c \in Calls : calls[c].at = "model" =>
       \A d \in calls[c].before \union (IF calls[c].kind = "run" THEN {c} ELSE {}) :
          (calls[d].user = calls[c].user /\ calls[d].kind # "chat" /\ Plain(calls[d])) =>
             \E e \in calls[c].shown :
                /\ e.heading = Heading(calls[d])
                /\ e.field = IF calls[d].kind = "frame" THEN <<>> ELSE <<"lastAction">>
                /\ calls[e.from].key = calls[d].key
                /\ calls[e.from].user = calls[d].user
                /\ e.from \notin calls[d].before

\* A turn that was sent the surfaces' data is shown it, or the data of a turn that
\* was not over when this one was asked for.  (process_skill_request's initial
\* state, _collect_surfaces)
SnapshotIsCurrent ==
    \A c \in Calls : (calls[c].at = "model" /\ calls[c].sends) =>
       calls[c].shownSnapshot \notin calls[c].after \union {0}

\* A run is ended once for its reader: no two terminal events are sent, and a stream
\* that is over has one unless it was torn, whatever the library sends twice or
\* raises.
\* (stream_agui_events, process_skill_request, _sse)
OneTerminal ==
    \A c \in Calls :
       LET terminals == {i \in DOMAIN calls[c].wire : calls[c].wire[i] \in Terminals}
       IN  /\ Cardinality(terminals) <= 1
           /\ calls[c].at = "ended" => terminals # {}

\* The stages a reader is shown are told once, in the order they were met, and none
\* met before the stream's last event is missing, also when an agent hands over to
\* another and meets its stages again.  (LatencyTracker, stream_agui_events)
StagesTold ==
    \A c \in Calls :
       LET wire == calls[c].wire
       IN  /\ \A i, j \in DOMAIN wire : i < j /\ {wire[i], wire[j]} \subseteq {"agent", "model"}
                 => wire[i] = "agent" /\ wire[j] = "model"
           /\ calls[c].owed \subseteq ToSet(wire)

\* "Present only on runs invoked via POST .../surface-action-run; absent on chat
\* turns" (adk/a2ui_surface_context.py:56-58): the clause that tells the model it
\* answers a click is in no prompt of a chat turn.
TriggerOnActionRunsOnly ==
    \A c \in Calls : (calls[c].at = "model" /\ calls[c].kind = "chat") => ~calls[c].triggered
=============================================================================
