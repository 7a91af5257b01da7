# AI Protocol Platform: a TLA+ verification project

The repository is a platform for chat agents: a FastAPI backend built on
Google's Agent Development Kit (ADK), which stores its data in Firestore and
Cloud Storage, and a Next.js frontend that talks to it over the AG-UI event
stream. This directory holds TLA+ models of the parts of it where order,
concurrency and failure matter, the configurations TLC checks them with, and
proofs checked by TLAPS.

- [1. The system](#1-the-system)
- [2. The modules](#2-the-modules)
- [3. What is checked](#3-what-is-checked)
- [4. What is proved](#4-what-is-proved)
- [5. What the code does that its documents do not say](#5-what-the-code-does-that-its-documents-do-not-say)
- [6. What is not modelled, and the plan](#6-what-is-not-modelled-and-the-plan)
- [7. Running it](#7-running-it)

Paths are relative to `src/`; `cbk` is `backend/adk/callbacks.py`.

## 1. The system

### How it runs

The backend is one uvicorn worker per Cloud Run instance, an asyncio event loop.
There may be several instances, and each may restart at any time. So:

- a stretch of a handler without `await` runs alone **on its instance**, not
  alone in the world;
- what lives in a module's variables (budget totals, groups, revocations, rate
  limiter, parse cache, skill cache) is per instance and gone after a restart;
- ADK sessions live in memory (`InMemorySessionService`) or in Vertex Agent
  Engine, artifacts in memory or in a bucket, depending on the environment
  (`adk/session.py`); the four combinations lose different things in a restart;
- most Firestore calls on the chat's path are wrapped in `try/except` that logs
  and goes on.

### Its parts

| Part | State | Operations | Why it is hard | What makes it correct |
|---|---|---|---|---|
| **Budget enforcement** `backend/budget/`, `adk/budget_config.py` | totals per identity and period, holds and a replay cache per turn and identity | `consult` before a model call, `record` after it | turns and sub-agents share an account; calls fail or report no usage; the period rolls over between the two; retries are answered from the cache | the books balance; concurrent turns do not pass the cap together; no turn is charged twice in the window |
| **Group authentication** `auth/group_id_auth.py`, `group_routes.py` | groups, revoked ids, sessions per day; tokens are in students' hands | create, delete, join, verify | four clocks (group, token, day, bucket); revocation must reach tokens already out; a restart forgets it | the daily cap; a refused token stays refused |
| **Join rate limiter** `auth/group_rate_limit.py` | a token bucket per address | `check` | fractions, floats, rounding of the hint | at most a bucket plus the refill per window; who waits as told gets in, or is told once more |
| **Chat session index** `db/chat_sessions.py`, `skills/skill_processor.py`, cbk, `protocols/session*_routes.py` | a Firestore row per session, and `app:` keys of the ADK session | bootstrap, first write of a turn, tracker, loader, after-agent flush, PATCH, DELETE | seven writers of a row, three of which look and then overwrite; failing calls; two services that lose different halves | a row nobody takes for missing is never recreated and drops no document; counts and titles are the session's own |
| **Documents** `tools/documents/`, `db/folders.py` | records, objects in the bucket, parse cache, folder counts | upload, reparse, delete, import by reference, pre-warm | minutes-long awaits with anything in between | no record stays pending; one record per file; the folder's counts |
| **Document context of a turn** cbk, `tools/documents/context.py` | loaded ids and errors in the session, artifacts | the loader before the agent, the injector before the model | session and artifacts outlive restarts independently; records change between turns | nothing is lost silently; what failed heals |
| **Surfaces and frames** `protocols/a2ui_surface_*`, `iframe_context_routes.py`, `adk/a2ui_surface_context.py` | what was clicked and pushed, the snapshot and the trigger, in the ADK session's state | click, click and run, push of a frame, the block of the prompt | calls and turns are separate requests on one session, which any of them may have to make | a prompt shows what was pushed before it, and the surfaces its turn was sent |
| **Event stream** `adk/agui.py`, `protocols/agui.py` | a queue of stages per run | stream the events, end once | stages arrive through a queue beside the events; errors after an end | one terminal event |
| **Messaging channels** `backend/channels/` | identities, settings, attachments and their records | verify, parse, identify, command, attach, select, invoke, send | messages are redelivered until acknowledged, to any instance; any step may fail | one identity; the last choice stands; files reach the turn; what is acknowledged was answered |
| **Skill catalogue** `backend/skills/`, `admin/platform_seed.py`, `db/permissions.py`, `admin/clients_routes.py`, `protocols/mcp_server.py`, `protocols/a2a.py` | skills, rules, a domain's record; on each instance caches of skills and permissions, the agent card and MCP tools | get, list, create, update, delete, fork, seed, the card, a tool's permission | plain functions on a pool of threads, on several instances; slugs are looked up and then written; each instance caches | an answer is no older than the caches allow; a slug names one skill of an owner; the tools are the public skills |
| **Access, buckets and folders** `auth/access_context.py`, `backend/buckets/` | a folder keeps the access in effect | decide; create, update, delete, read | a folder's effective access is computed when it is written, from a bucket read before | it is what was decided for the folder, or else for its bucket |
| **Session listing** `db/chat_sessions.py:130` | none | one page after a cursor | the window is cut before it is filtered | every session is shown, and once |
| **Retrieval corpus** `backend/rag/` | the corpus named in the profile | get or create, import | look-up and creation across awaits | one corpus per user in use |
| **In-memory store** `db/firestore_inmemory.py` | dictionaries of documents | get, set, update, delete, query | threads share the dictionaries, readers copy without the lock | an answer has only what the documents had meanwhile |
| Chat client `frontend/src/hooks/useSkillAgent.ts`, `providers/`, `components/chat/` | messages, tool calls, loading and error state, thread | send, stop, retry, switch thread | a run outlives the view that started it; effects fire in an order React chooses | the view shows its own thread's run |
| Surface registry of the client `providers/SurfaceRegistry.tsx` | the batches each surface shows, the tool calls consumed | deliver, clear, act | clearing races the dispatchers of the old thread | a batch is applied once; a session's surfaces do not outlive it |

`PROJECT.json` lists them with their files, and also the parts that keep no
state of their own: the agent builder, the bridges to other agents and tools,
identity, observability, configuration and scripts.

### How they interact

A chat turn is where most of it meets:

    POST /stream -> process_skill_request
        _ensure_session_index        ChatSession.Begin, Ensure
        open the ADK session         ChatSession.Open
        before agent:  tracker       ChatSession.Track, TrackWrite
                       loader        ChatSession.Load; DocumentContext.TurnBegin,
                                     LoadOk, LoadFailed
        before model:  injector      DocumentContext.Inject
                       budget        BudgetEnforcer.BeforeCharged / BeforeReplayed
        (model call)                 other turns run
        after model:   budget        BudgetEnforcer.AfterMetered / AfterUnmetered
        after agent                  ChatSession.FinishSub, Finish, FinishUntracked
        an exception, a client gone  ChatSession.Abort, BudgetEnforcer.ModelFails
        the event stream             Surfaces.Emit, Raise, Close

Other requests leave in the session's state what its prompts show, and channels
start turns of their own:

    POST /surface-action, /iframe-context   Surfaces.Click, Frame .. AppendEvent
    POST /surface-action-run                Surfaces.ClickRun .. AppendEvent, then a turn
    POST /stream with surfaces              Surfaces.Chat, OpenRun
    before model: the context block         Surfaces.Prompt
    a webhook                               Channels.Deliver .. Invoke .. Acknowledge

The records that the loader reads are written by other requests meanwhile:
`DocumentContext` therefore extends `Documents` and interleaves with all of it.
The rate limiter is called by `join_group`: `GroupAuth` extends `TokenBucket`.
Budget, session index, surfaces and channels share nothing but the turn, and are
separate modules. `Catalogue` composes `Skills`, `Sharing` and `SessionPages`: they share
Firestore and the evaluator of `Access`, and no record. `Records` puts beside it the
stand-in for Firestore, what a step of the catalogue is inside.

## 2. The modules

| Module | Models | Extended by |
|---|---|---|
| `BudgetAdmission` | what any budget enforcer promises: admit only what fits under the cap with what is committed, settle at the real cost | (abstract specification) |
| `BudgetEnforcer` | the in-memory enforcer and its callbacks; implements `BudgetAdmission` | `MCBudgetEnforcer`, `BudgetEnforcerProofs` |
| `TokenBucket` | the limiter | `GroupAuth` |
| `GroupAuth` | groups, joins, tokens, revocation | `MCGroupAuth`, `GroupAuthProofs` |
| `ChatSession` | the row of a session and its writers | `MCChatSession`, `ChatSessionProofs` |
| `Documents` | records, files, cache, counts and the requests on them | `DocumentContext`, `MCDocuments`, `DocumentsProofs` |
| `DocumentContext` | one session's loader and injector, over `Documents` | `MCDocumentContext`, `DocumentsProofs` |
| `Channels` | a message's deliveries, from the webhook to the acknowledgement | `MCChannels`, `ChannelsProofs` |
| `Surfaces` | clicks, pushes and turns on one thread, and a turn's stream | `MCSurfaces`, `SurfacesProofs` |
| `Access` | the evaluator of access controls, as operators | `Skills`, `Sharing`, `SessionPages` |
| `Workload` | how many requests of each kind a behaviour has | `Skills`, `Sharing`, `SessionPages`, `LocalStore` |
| `Skills` | the catalogue, its rules, its caches and everything that reads them | `Catalogue` |
| `Sharing` | buckets, folders, the default folder and the corpus of a user | `Catalogue` |
| `SessionPages` | a client that pages while sessions change | `Catalogue` |
| `Catalogue` | the three together | `Records`, `CatalogueProofs` |
| `LocalStore` | a collection of the in-memory stand-in for Firestore | `Records`, `LocalStoreProofs` |
| `Records` | the catalogue beside the store | `MCRecords` |

The `MC...` modules only give constants values (functions, symmetry sets). Every
other definition names, through `map` in `PROJECT.json`, the lines it stands for.

### BudgetEnforcer

`consult` and `record` hold an asyncio lock and await nothing: one step each.
`spend`, `dedup` and `held` are `_spend`, `_dedup_cache` and `_charged_per_inv`.
A *pair* is the two callbacks of one agent built for one turn; several pairs
(sub-agents) share a turn's invocation id and hence its hold and cache entry. A
blocked call ends its turn, a failing one leaves its hold. `Decide` is the
decision table, `Charge` and `Replay` the two halves of `consult`. `admitted`,
`refused`, `overrun` and `chargedAt` are histories that no action reads: they
say what the books *should* contain. Costs are integers; every identity
has the one cap, `default_cap_usd`, as in the code.

### TokenBucket and GroupAuth

The limiter's level is a float, and the sums and ceilings over it round. In the model a
level counts *grains*, of which 1/`RefillSeconds` of a token has `Grains`; a grain is more
than a rounding, and a refill or a hint comes out any grain within one of its exact value
(`Rounded`). That admits more than any float does, and all that floats do. `granted` counts
what is spent from an arbitrary instant `WindowStart` on, so that the bound speaks of *every*
window; `retryAt` remembers the last hint, `spurned` the refusals in a row of a caller that
waited as told. In `GroupAuth` a token is the record of its claims, held
by a student for ever; signatures are not modelled, only minted tokens are
presented. A code once drawn is not drawn again (a code is one of 32^8). The limiter is asked
first, so a refused join costs a token of the bucket.

### ChatSession

A handler that looks for the row and then writes it without an `await` between
is two steps, `Track` and `TrackWrite`, with the instance `Busy` between them: its
own coroutines do not run, other instances do. `request` holds the turns in
progress, each with the copy of the ADK state it opened (`seen`), because ADK
gives every run a copy and writes back deltas. `Store` and `StoreOf` say where `app:`
keys live: one store per session (Agent Engine) or one for all sessions of
the process. `Failing` lists the kinds of Firestore call that may fail, `InMemory`
and `Delegates` choose the session service and whether the skill has a sub-agent.
Titles are reduced to who set them, access control to where it came from.

### Documents and DocumentContext

Between two awaits a handler is one action: `UploadBegin` writes the pending
record, `UploadStored` the object and starts the parse, `Fetch` is the read of
the file that counts, `ParseOk` and `ParseFailed` finish with whatever the request's
kind writes (`Finish`). A content stands for a version of a file and for the
blocks made of it. An import may name any `gs://` URL, that of an uploaded file too
(`Uploads` and `References` may meet): it finds the record by its URL (`RecordsOf`), where an
upload finds it by folder and name (`FiledOf`), and writes it back without a folder
(`filed`). `Dies` is any exception the handlers do not catch, `Restart` the
loss of the process. `abandoned`, `deletedLate`, `overlapped`, `unfiled` and `smooth` are
histories for the properties: they name the races the code leaves open, so that
the properties can except those and nothing else.

`DocumentContext` follows one session. `Verified` is the orphan probe (does the
artifact of a loaded document still exist), `ToLoad` what remains to be loaded; `Inject` puts
into the request all artifacts of loaded documents it can read, and `skipped` are the others.
With `SharedKeys` the session's `app:` keys are overwritten arbitrarily between
turns, which is what a shared store allows other sessions to do.

### Channels

A delivery is a process of its own: `Deliver` verifies and parses, then identity,
command, files (`Upload`, `StoreFile`, `RegisterFile`), the skill (`Selected`), the
answer (`Invoke`) and its chunks are steps, each a call of Firestore, the bucket, the
skill or the provider. A provider delivers again while none of its
deliveries was answered with 200, so two of one message overlap, on any instance.
The adapters differ where the code does: `...Verifies`, `...Files`, `...Parses`,
`...Sends`. A text is a sequence of numbers, 0 a space, so that `Chunks` is the splitter
of the code and `AckedIsAnswered` compares what the chat shows with what was to be said.
Signatures are a Boolean of the message.

### Surfaces

A call passes its gates when it arrives, reads the session, makes it if there is
none, and appends its event; those that start a turn go on to the agent. A session is
of one user on one thread, and its `state` maps the keys of the code
(`a2ui_surface_<id>_lastAction` and a frame's) to the *number of the call* that wrote
there, so that "newer" is a comparison. A surface's id is a sequence of
names, the parts between its dots, because the prompt splits the key at the first.
`before`, `due`, `owed` and `answered` are histories: what a prompt must show, which
stages were marked, what the call should be answered with. `Restart` loses
in-memory sessions and calls under way, `EditSkill` changes the grants between gates.

### Skills, Sharing, SessionPages and Catalogue

The routes of the catalogue are plain functions on a pool of threads. A step is one
call of Firestore, with the code around it that touches nothing shared, or one access
to a cache; any step of another thread, on this instance or the other, may come between.
`calls[t]` is what a thread is at, and the steps are shared by the requests that make
them (`Look`, `Evict`, `Read`, `Fill` are `get_skill` wherever it is called). A skill
is its owner, name, slug and access control; a slug is a base and a number.
`Fails` is a call of Firestore that raises: it has no effect, and the request ends there.
`past` is every value a thing had with the time it last ceased, `rivals` the slugs and names
that two requests were claiming at once, `synced` the instances whose tools were rebuilt
since the public skills last changed: the properties except exactly those.

In `Sharing` a folder keeps `effective`, computed by `Effective` from its own
access or the bucket's *as the request read it*; `drifted` names the folders whose bucket
changed in between or since. `contested` names what two requests were making
at once. In `SessionPages` `Window` is the query, `NextCursor` what the client is told;
`starved` is a page that came out short of a full window, `touched` the rows written to while
paging, `moved` whether the row that ended a page was, before the next page was asked for.

`Workload` holds how many requests of each kind are still to come. The
configuration lists *loads*, sets of requests on the same records, instead of one
bound on all requests: everything interleaves within a load.

### LocalStore

A document is a dictionary and the collection holds a reference to it; `heap` is the
dictionaries ever made. `set` replaces the reference, `update` writes field by
field into the dictionary, both under the lock. A reader takes its references under the
lock (`Take`), then compares (`Match`, `Cut`) and copies (`Snapshot`, `Copy`) without it; iteration raises
when the dictionary grew since it began. A sentinel is applied to the value
found (`ChangedValue`). `latest` is the documents as if every write were made at once when
it begins, `before` a document before its update, `seen` the versions of documents
during a read. The order of a query's rows is left out. `Records` interleaves it with
`Catalogue` over one `Workload`: a load is either of requests to the catalogue or of calls of the
store, since to the catalogue's handlers a call of Firestore is a step.

## 3. What is checked

| Run | Shows | Bounds, and why they are enough |
|---|---|---|
| `budget` | books balance, cap, one charge per window, implements `BudgetAdmission` | Two turns, one with a sub-agent, on one account: two holds at once and a shared one. Projections {2,3} and costs {1,4} are below and above each other; cap 5 and threshold 4 are reached by two calls; window 1, two periods and four instants let entries expire, periods roll over under a hold, and both again after a restart. |
| `group_auth` | daily cap, limiter bounds, hint, revocation | Two groups of two teachers with lifetimes shorter and longer than a token's, a day boundary inside the clock, capacity 2 refilled in 5 s (neither divides the other), two grains to a fifth of a token, three tokens for caps of one and two, a window that starts late. |
| `chat_session` | who recreates a row, and when; counts are the session's own | Two requests at once on two instances that restart and lose their ADK sessions, while look-ups, creations and updates may fail. Two turns suffice: every violation we know needs a first and a second writer. |
| `chat_tracker` | a comment refuted, see 5 | One request at a time on one instance, two turns, look-ups that may fail. |
| `chat_sequential` | the count lags less than a flush interval, a title settles | Seven turns, one more than the interval of five and the title turns 2 and 4, some handed to a sub-agent; one at a time, nothing fails. |
| `documents` | pending records, one record per file, counts, pending settles | Three requests on two uploads (one not parseable, and imported by its own URL as well) and a reference, one content, two ids. The constraint `Shared` has one request only upload or parse again, one only import and one do either (a request's kind never changes, so this leaves out whole behaviours and cuts none short): every pair of operations overlaps, some with a third, with deletions, expiry, pre-warming and restarts at any point. |
| `documents_reupload` | a document's claim refuted, see 5 | Two uploads of one file. |
| `document_context` | no silent loss, healing | Two turns (attach or lose, heal) over two documents, so that one can fail and the other not, in the loader and in the injector; two requests that change them meanwhile, sessions that outlive artifacts, shared keys. The two files and the two requests are interchangeable, and histories no property of this run reads are left out of the view. |
| `channels` | one identity, choices, files and answers under redelivery | Two messages, each delivered twice and two deliveries at once: a redelivery of one, or two messages of a sender, overlap. Four senders, one per channel; six pairs of messages, one for each branch of the pipeline, two of them with a malformed file. Chats take 2, the answer has 5 with a space: it is cut within a word and at the space. |
| `surfaces` | a prompt shows what was pushed, a turn its own snapshot, a stream ends once | Three calls of which two start turns, two at once, one restart or change of the skill; two surfaces, one with a dot in its id, and a frame. A violation needs a writer, an overlapping turn and at most one more. |
| `surfaces_trigger` | a comment refuted, see 5 | Two calls in turn. |
| `records` | staleness, duplicates, tools, effective access, paging; answers of gets and queries under concurrent writes | Two threads, two instances, up to four skills; TTL 1, a request of at most one tick, a clock of two: an entry is filled, expires and is filled again. One bucket and folder; seven session rows with a page of one, hence a window of four, which rows the viewer may not see fill exactly. For the store, two or three writes with a get, or two with a query (limit 1 and 2); two documents, one not there at first; three fields, one absent at first, so that an update grows the dictionary. 27 loads of two to five requests, calls and ticks, each of operations that meet on a record. |

The constants *without* a bound in the code that are capped: the clocks
(`MaxTime`), tokens minted (`MaxTokens`), turns (`MaxTurns`), document ids (`MaxDocs`),
request slots (`Request`, `Requests`, `Thread`), deliveries (`MaxDeliveries`, `MaxActive`), calls on a thread
(`MaxCalls`, `MaxTurns`, `MaxUpsets`), identifiers drawn (`MaxSkills`, `MaxBuckets`, `MaxFolders`,
`MaxRows`), requests (`Loads`) and the time a request takes (`Patience`). All guards that use them are at the begin of an
operation, so an operation once begun is never cut short. Deadlock is not
checked in any run: every model really stops at those bounds, and a server with no
requests is at rest.

**Fairness.** The modules state safety properties of `Init /\ [][Next]_vars`, with one
exception. `PendingSettles` (a pending record leaves that status unless its writer
died) assumes weak fairness of `Serve(r)` for each request: the event loop resumes
every coroutine whose awaited call has returned, and each such call
returns because the parser's client has a time limit of 60 s and
the storage client its own. Nothing is assumed of users, other requests, deletions,
restarts or expiry.

**Assumptions some properties carry.**

- `CapRespected` bounds by the cap *plus what calls cost beyond their
  projection*: a call admitted at 2 that costs 4 cannot be undone.
- `RefusalIsFinal` (a token is refused from the step in which it expires or its group is
  deleted, and stays so) excepts the restart step itself.
- `RowSettles` speaks of a row from when no request is left that looked for it before it came;
  until then one of those may overwrite it, and after a tracker's look-up that fails the
  tracker does (`LooksBlind`; see 5).
- `RetryHonoured` allows one more refusal after the wait a refusal named, because the hint
  may round to a second too few (see 5), and no second one.
- `CountIsOwn` needs a store per session and no sub-agent; `CountFresh` is checked
  for sequential turns without failures.
- `OneRecordPerFile` excepts `deletedLate`, `overlapped` and `unfiled`; `FolderCounts` is
  exact only while `smooth`, and counts records that an import took out of the folder.
- `NoSilentLoss` and `SelfHeals` except documents the injector could not read (`skipped`).
- `AnswersAreRecent`: an answer is of a value the thing had within the life of a cache
  entry plus the time a request takes (`TTL + Patience`), which is the bound the code gives:
  a value is read, and may be cached later.
- `NoDuplicates` excepts the slugs and names two requests were claiming at once (`rivals`)
  and what two were making at once (`contested`): the look-ups are not transactions.
- `ToolsMatchPublic` speaks of `synced` instances with no rebuild under way; another
  instance learns of a change at its own next one.
- `EffectiveIsInherited` excepts `drifted` folders. `PagesComplete` excepts windows `starved` by
  rows the viewer may not see, and rows `touched` while paging from those that must be shown;
  that none is shown twice holds of touched rows too, unless the list has `moved` under its
  cursor.
- `PushReachesTurn` demands the heading of a surface only for an id without a dot.
- `UploadsReachTurn` and `AckedIsAnswered` say what the delivery that is acknowledged does itself,
  not what another of the message did; that a message may be answered twice is in the model and is
  not excluded.
- `AnswersAreRegular` is of each field, not of the document: a reader may see an
  update half made (see 5).

Every property of a passing run has, in `PROJECT.json`, a mutant of the definition
it depends on (operators named in the modules with the comment "Mutant of ...") under
which TLC finds the property violated by the same configuration.

## 4. What is proved

TLAPS checks these for every value of the constants, hence any number of turns,
requests, instances, documents and instants.

| Theorem | Property | Argument |
|---|---|---|
| `BudgetEnforcerProofs!TypeCorrect` | `TypeOK` | inductive as it stands |
| `BudgetEnforcerProofs!CapTheorem` | `CapRespected` | Inductive invariant `CapInv`: the books never understate what was admitted and refused (`LedgerCovers`). Only this half of `LedgerExact` is needed, and only it survives the clamp of `record` without an argument about which holds are still out. A decision is taken on `spend`, hence on at least `admitted`. |
| `BudgetEnforcerProofs!ChargeOncePerWindow` | `NoDoubleCharge` | `WindowInv`: every charge younger than the window is still in the cache with its own time stamp, so a second consultation is a replay |
| `BudgetEnforcerProofs!AdmissionTheorem` | `ImplementsAdmission` | Refinement with `committed <- admitted`, using `CapInv`: admitted charges and settlements are steps of `BudgetAdmission`, the rest stutters. Assumes `Cap > 0`; a cap of 0 means no budget is configured. |
| `BudgetEnforcerProofs!LedgerTheorem` | `LedgerExact` | `LedgerInv` adds `HoldsFit`: the holds of an account can be laid side by side within its spend (a witness `place` stands for their sum), so reconciling one never meets the clamp at zero of `record` |
| `GroupAuthProofs!TypeCorrect` | (`BucketTypeOK`) | with `GrantInv` |
| `GroupAuthProofs!GrantTheorem` | `GrantBound` | `GrantInv`: what was granted since the start of the window plus what the bucket holds fits under a full bucket plus the refill, each second's rounded up, and no bucket was touched in the future |
| `GroupAuthProofs!RetryTheorem` | `RetryHonoured` | `HintInv`: a hint that is out is for an address whose bucket will hold a token by then or be a rounding short of it, and after one more refusal hold it; with `GrantInv` |
| `GroupAuthProofs!GroupGrantTheorem` | `GrantBound` | the same, of the limiter as `join_group` calls it and restarts empty it |
| `GroupAuthProofs!GroupTypeCorrect` | `TypeOK` | `MintedInv`: a token's uid is its number, and there are finitely many |
| `GroupAuthProofs!DailyCapTheorem` | `DailyCap` | `CapInv`: the counter of a group that is there is at least what was minted for it, a code being drawn once, and its tokens agree on the cap |
| `GroupAuthProofs!RefusalTheorem` | `RefusalIsFinal` | but for a restart, time goes on, what is revoked stays so, and a group that goes is revoked |
| `ChatSessionProofs!TypeCorrect` | `TypeOK` | one lemma per action |
| `ChatSessionProofs!RowSettlesTheorem` | `RowSettles` | Every action is shown to keep the row of a settled session, and to leave it settled unless a tracker looks in vain: a bootstrap or a first write that looks now finds the row, and one that failed to look writes nothing. Assumes nothing of instances, stores or failures. |
| `ChatSessionProofs!CountCorrect` | `CountIsOwn` | `CountInv`: the counter in a store, and the copy in any running turn, are themselves bounded by the turns completed. Assumes own stores and no sub-agents; any number of instances, any failures, restarts. |
| `ChatSessionProofs!FreshCorrect` | `CountFresh` | `FreshInv`: what each request saw is the store's counter, and every turn that was due a flush is in the row. Assumes own stores and one user whose turns follow one another, with no failing call and no restart; any sub-agents, sessions and interval. Overlap, failure and a restart each break it. |
| `ChatSessionProofs!TitleCorrect` | `TitleSettled` | `TitleInv`: there is a generated title from the second turn on only, and a run knows whether there is. Assumes the same. |
| `DocumentsProofs!TypeCorrect` | `DocTypeOK` | `TypedInv` adds that a request in progress knows its file and, unless it imports, its record |
| `DocumentsProofs!OneRecord` | `OneRecordPerFile` | `RecordInv`: what a request found when it began still holds, or a deletion, an import that unfiled the record or an overlapping import is on record. Each action is shown to overwrite at most one record, and the invariant to survive any such write. |
| `DocumentsProofs!PendingHasWriterAlways` | `PendingHasWriter` | inductive with `TypedInv` |
| `DocumentsProofs!FolderTheorem` | `FolderCounts` | `FolderInv`: what was counted and what first uploads under way have still to count are documents that were given an id, distinct ones (`BooksInv`); while all goes well, the records that owe nothing are those counted, each with the status its file leads to. With `RecordInv` and `PendingHasWriter`. |
| `DocumentsProofs!ContextTypeCorrect` | `TypeOK` | with `TypedInv` of `Documents` |
| `DocumentsProofs!NothingLostSilently` | `NoSilentLoss` | `LoaderInv`: while the loader works, an attached document is backed by an artifact the injector can read or skip, in error or still to be loaded |
| `DocumentsProofs!Heals` | `SelfHeals` | the second half of `LoaderInv`: one readable throughout and without a fault is backed or still to be loaded |
| `SurfacesProofs!TypeCorrect` | `TypeOK` | `TypeInv` and `CallsInv`, one lemma per action |
| `SurfacesProofs!PushTheorem` | `PushReachesTurn` | `PushInv` (`ValuesInv`, `EarlierInv`, `KeptInv`): what a session holds for a push that was written is that push or one that was not over before it came |
| `SurfacesProofs!SnapshotTheorem` | `SnapshotIsCurrent` | `SnapInv`: the session of a turn that was sent data is there and holds a snapshot of none of the turns that were over when it came |
| `SurfacesProofs!TerminalTheorem` | `OneTerminal` | from what a stream's wire and queue may hold at each place of the producer and the consumer |
| `SurfacesProofs!StagesTheorem` | `StagesTold` | from the same: what was told, what is queued and what is owed make up the stages met, in order |
| `ChannelsProofs!IdentityTheorem` | `OneIdentity` | `RequestInv` with `Owned`: a delivery past the look-up runs under the uid on record |
| `ChannelsProofs!ChoiceTheorem` | `ChoiceStands` | `ChoiceInv`: choices running at once are contested, and an uncontested one that ran is the default |
| `ChannelsProofs!TypeCorrect` | `TypeOK` | `TellInv`, below: what is still to be sent is typed because the pieces of an answer are |
| `ChannelsProofs!AnsweredTheorem` | `AckedIsAnswered` | `TellInv`, of each delivery: what was sent followed by what is still to be sent are the pieces of the answer, until a call fails. That the pieces spell the text (`PiecesSpell`) is shown from its end: of the places from which the cut would not spell the rest, take the last; the cut after its first chunk does, hence so does this one. |
| `ChannelsProofs!UploadsTheorem` | `UploadsReachTurn` | `Filed`: an attachment is waiting, stored, given up or registered, exactly one of these |
| `CatalogueProofs!InheritanceTheorem` | `EffectiveIsInherited` | `FolderInv`: what a request knows of its parent is the bucket's, unless the bucket changed since |
| `CatalogueProofs!PagesTheorem` | `PagesComplete` | `PagesInv`: what nothing was written to and is not yet shown is older than where the next page begins, and, unless the list `moved`, what was shown is no older, whatever was written to it. The list of a window is in order because the number of newer rows is a different one for each row (`EveryPlace`). |
| `CatalogueProofs!TypeCorrect` | `TypeOK` | `TypedInv` over `SkillsInv`: what a request carries at each place is what the code there writes (`Typed`), and what it found in a list, a cache or a query was drawn. The number of a slug is not bounded by the skills there are: `unique_slug` asks for its candidates one by one, and a skill renamed meanwhile is met again. |
| `CatalogueProofs!MadeOnceTheorem` | in `NoDuplicates` | `MadeInv`: two of one kind were being made at once |
| `CatalogueProofs!AnswersTheorem` | `AnswersAreRecent` | `SkillsInv`: `Based`, of every call, and `CacheRecent`, `PermitsRecent` and `CardsRecent`, of every cache: a copy, wherever it is held, was so at the time it is stamped with. The bound adds the life of an entry to a request's own time. |
| `CatalogueProofs!ToolsTheorem` | `ToolsMatchPublic` | `RebuildsAlone`: while a rebuild that met no other runs, no other runs on its instance, and every tool there is one it read as public or is about to drop |
| `CatalogueProofs!SlugsTheorem` | in `NoDuplicates` | `Claimed`: what a call found free is free still, unless it is on record as lost to another |
| `CatalogueProofs!NoDuplicatesTheorem` | `NoDuplicates` | the two halves together |
| `LocalStoreProofs!RegularAnswers` | `AnswersAreRegular` | `StoreInv`: an update has the lock, and the dictionary it writes is field by field what it was (`before`) or what it is to be (`latest`); a reader has seen both (`Noted`), and holds dictionaries of its document or of none (`Held`). Whatever the values of fields are. Assumes that `None` is not a document. |

The proofs rest on the named assumptions on constants in the modules
(`ConstantsAssumption`, `BucketAssumption`, `SessionAssumption`, ...), which TLC
evaluates in every run, and on nothing else. Four are worth naming.
`CatalogueAssumption` has the catalogue begin without duplicates, no author with
the platform's own uid, and the templates under distinct names, as the seven of
`backend/skills/templates` are. `ContentsAssumption` has every value that a request, the seed or a list of
sessions brings be of the kind the collections hold; the two access controls the code itself sets
are among those. `SurfacesAssumption` has surface ids that are
not empty, as an id is what an action is stored under. `StoreAssumption` has documents that are
no numbers, as a reference is one, and changes that name a field once, as a dictionary does. The theorems that need more name
it as a hypothesis: `AdmissionTheorem`, `CountCorrect`, `FreshCorrect`, `TitleCorrect`
and `RegularAnswers`; the last asks that the value for a missing document is no dictionary
(`NoneIsNoDocument`), which TLC cannot be asked of a model value.

**Model-checked only.** `PendingSettles`, which is liveness under fairness, beyond the
prover. Every other property of a passing run is stated by a theorem above.

An induction principle that takes an operator cannot be used here. Where a proof
needs one (how a reply is cut, a greatest number), it takes the least element of
a set of counterexamples instead (`LeastNumber`, from `WFMin`), which the library
states of sets.

## 5. What the code does that its documents do not say

Three runs refute a sentence of the repository:

- `documents_reupload`: "no stale content after re-upload"
  (`docs/design/v6.1.0/implemented/document-to-ai-pipeline.md:92`). The parse cache is
  keyed by URL alone and an upload does not clear its entry (`ailang_parse.py:410`).
- `surfaces_trigger`: "Present only on runs invoked via POST .../surface-action-run;
  absent on chat turns" (`backend/adk/a2ui_surface_context.py:56-58`). The trigger is part of the
  state the session is opened with (`a2ui_surface_action_run_routes.py:250`), stays there, and the
  prompts of later chat turns carry its clause.
- `chat_tracker`: "this callback must NOT re-create the row — that would clobber any title /
  turnCount / documentIds updates already on it" (cbk:603-605). A look-up that raises is taken
  for one that found nothing (cbk:608-610), and the row is created over the one that is there.

Others were met while modelling. They are in the models (or named as the exception
of a property) and have no run of their own:

- *Budget.* A blocked consultation keeps its projection charged and held
  (`in_memory_enforcer.py:108`, docstring :118). After the cap is reached, later
  calls of a turn consulted before it pass from the cache (:93;
  `docs/integrations/budget-enforcement.md:244`). The first `record` of a turn pops the
  hold, and later consultations in the window are replays that make none, so the cost of
  every model call of the turn but the first is dropped (:123, against "records the
  realised cost afterwards", `enforcer.py:4-5`).
- *Limiter.* A full bucket plus the refill grants nearly twice the capacity in one
  refill period (`group_rate_limit.py:10`): `GrantBound` is the bound that holds. The hint
  is computed in floats and may round to a second too few: with the defaults, a bucket drained at 0
  refuses at 1 with a hint of 5 and holds 0.9999999999999999 tokens at 6, so it refuses again
  (:88-104; "the time until ONE token is back", :99-100). `RetryHonoured` is what holds.
- *Groups.* A token may outlive its group's expiry (`group_id_auth.py:383`,
  `docs/design/v6.2.0/implemented/anonymous-group-id-auth.md:318`).
- *Chat rows.* Two look-ups at once on different instances both find no row, and the second
  write overwrites what the first made (`skill_processor.py:275`, cbk:607); bootstrap does so too
  (`session_bootstrap_routes.py:65` against "the call is a no-op", :11) and always makes it private
  (:69); the count goes back after an in-memory restart (cbk:613); a turn handed
  to a sub-agent is counted twice (cbk:714 against :697-698); with
  `InMemorySessionService` all sessions of the app share the counter (cbk:566-576); a
  reader's turn writes the owner's row (`skill_processor.py:305`). At turn 2 a generated
  title is written over the owner's (cbk:721, against
  `docs/design/v6.0.0/implemented/chat-history.md:159`).
- *Documents.* Two overlapping imports make two records
  (`import_by_reference.py:115-117`); an import of an uploaded file by its own URL, while its
  record is not parsed, takes the record out of its folder (:134, :180), so that the next upload of
  the name finds none (`upload.py:247-255`) and makes a second record, and the folder counts both; an upload that ends after its record was
  deleted revives it, beside a newer one if the file was uploaded again
  (`upload.py:309`); a reparse of a record deleted meanwhile leaves one without an
  owner (`routes.py:211`); an upload killed by a restart stays pending; a first
  upload that fails is never counted even when a later one succeeds
  (`upload.py:323`), and deletions never count down.
- *Loader.* The docstring says a failed document is not retried (cbk:288-289), the
  code retries every turn (cbk:212-213), which is what `SelfHeals` relies on. The
  injector skips a document whose artifact cannot be read at that moment, with a line in the log
  and no error in the session (cbk:523-539): this turn the model does not see it and nobody is told.
- *Surfaces.* A snapshot stays in the session and is shown in later turns that send
  none ("refreshed every turn", `a2ui_surface_context.py:76-77`). The key of a surface whose id has a
  dot is split at the first dot, so its action is shown under another heading. Two calls
  that make the session at once: the second's `create_session` raises, where the comment says
  it "is idempotent for the same id" (:184-186). A skill deleted
  between two gates answers 403 after the action was stored. Each viewer's pushes go
  to a session of that viewer's own. A stage may be told after the terminal event; the
  drain before the run starts finds nothing. `app:resumed_session` is never reset, and in
  memory all sessions share it. A document list that `forwardedProps` empties falls back to the
  one that made a round trip through the state. For a read-only viewer the run is started with an
  empty message, though the docstring says "Agent is not invoked" (`fast_api_app.py:548`). In the default
  shell `useSkillAgent` is called above the provider of the surface registry
  (`ChatShell.tsx:330`, :722), so no snapshot is sent.
- *Channels.* A message delivered twice is answered twice: no delivery is remembered
  (`docs/design/v6.0.0/implemented/chat-history.md:217-235` calls retries free). The
  documents made of attachments stay pending, since `_trigger_parse` only logs
  (`attachments.py:3-8`). An error of the run after some text sends that text as the
  whole answer, before any text "(no response)". A photo without text whose `getFile` fails
  is acknowledged and skipped; an answer of white space sends nothing. A first message
  overwrites the e-mail of a migrated identity. A bracketed command in an e-mail sets the skill and its
  body is not run. `start_gateway`, `send_streaming` and `register_slash_commands` are
  called nowhere.
- *Skills.* Two rebuilds at once may put back the tool of a skill deleted or made private
  meanwhile, until the instance's next one; other instances learn of a change only at
  their own (`skill_config.py:87-88`). An expired entry evicted by two threads, and a tool removed by
  two, raise `KeyError`: the request fails, the second after the document was written. A read
  that was under way when a skill changed may fill the cache behind the invalidation. A
  marketplace query that fails caches an empty agent card until the bucket of time ends. `unique_slug`
  and the seed look first and write later: two at once make the same slug, or two platform
  skills; the seed's wildcard rule may overwrite one written in between. The seed says existing
  templates are "skipped" and refreshes them; a purge that fails ends it. A fork
  drops the welcome text, the shell and the slug. `enabled_skills` is compared with slugs
  whoever owns the skill. A permission is cached until it expires whatever happens to its
  rules, and its three levels are read one after the other. `/api/clients/me` reads the record twice.
  `default_skill` is not validated.
- *Sharing.* A bucket's change is not carried to its folders (the code says it is
  deferred), and no PUT makes a folder inherit again. Deleting a bucket leaves its folders.
  A failure between creating a corpus and recording it leaves one nobody names; overlapping
  first uses leave documents in a corpus the profile does not name.
- *Listing.* A window of which less than a page passes the filter ends the list. The cursor is a
  row, read again when the next page is asked for (`chat_sessions.py:148-152`): if it was written to
  meanwhile it has moved to the front, and rows already shown are shown again.
- *In-memory store.* A get or a query may return some fields of before an update and some of
  after it, and raises `RuntimeError` when the update adds a field during the copy, though "one
  lock ... correctness wins over contention" (`firestore_inmemory.py:14-16`). A row may have ceased to match
  the query when it is copied. `set(merge=True)` applies an Increment as if there were no value.
  `update` of a missing document raises `KeyError`. A cursor that is not among the rows starts at the first.
- *Peers.* Files a peer sends are taken out of its message and saved as artifacts, and the
  root agent that answers has no loader for them (`file_extraction.py:37-38`); the state that
  would name them is passed as `Event(state_delta=...)` (:469-476), which is not the field ADK
  reads; a failure is only logged (:483).
- *Signed URLs.* `docs/design/v6.0.0/implemented/resource-access-control.md:315` and :405 say a turn's
  documents get signed URLs; neither caller of `create_agent_with_thinking` passes the access
  context they need (`skill_processor.py:129`, `a2ui_surface_action_run_routes.py:158`).

Reading the client showed the following; what decides them is the order of React's
commits, the router and the AG-UI client library, so they are not modelled:

- opening a past conversation, then a new one, then the past one again leaves its history
  blank: `lastSessionId` is not reset (`useSessionMessages.ts:143-154`; `ChatShell.tsx:459-462` resets
  its own; `docs/design/v6.1.0/implemented/chat-history-deep-fixes-2.md:85`);
- switching sessions clears the session-scoped surfaces, and the old bubbles'
  dispatchers fill them again in the same commit (`SurfaceRegistry.tsx:534-541`,
  `MessageBubble.tsx:299`); from no session to one nothing is cleared;
- the end of a run that was left resets loading and error of the thread shown; the error
  banner and the last user message survive a switch; Stop reaches the new agent only;
- "New conversation" in a live chat: the write-back effect fires with the old messages
  (`ChatShell.tsx:486-490`) and pins the URL to a session with nothing in it;
- the old history is shown until the new thread's is fetched.

## 6. What is not modelled, and the plan

Not modelled in the parts that are:

- *Budget*: the currency and the price tables, the texts of warnings and blocks, the
  truncation of the retry hint; which streamed chunk carries the usage.
- *Groups*: HMAC signatures, code alphabets, the HTTP layer.
- *Chat*: how titles are made, the retrieval of messages.
- *Documents*: several instances (a first upload of one name on two instances can
  find no record twice), previews, chunk retrieval, files from A2A peers.
- *Channels*: Discord's gateway and streaming edits, which nothing calls; formats.
- *Surfaces*: the contents of snapshots and values; the event stream's probe.
- *Catalogue*: the cuts of the skill and bucket listings, listing a Cloud Storage
  bucket, an administrator's token.
- *Firestore*: everywhere but in `LocalStore` a document's get, set and update are
  atomic, ArrayUnion and Increment are applied on the server, and queries see committed
  writes. Of the in-memory stand-in this holds for writes only; `LocalStore` says what its
  reads give. Order and cursors of its queries, and the fixture's data, are left out.

Not modelled at all:

- *Chat client, surface registry, shells*: see the end of section 5. The backend's half of the
  exchange, calls that overlap, repeat and come late, is in `Surfaces`.
- *Agent construction*: a recursion over stored configurations with a check for
  cycles; it keeps nothing and its result is used as given (`Surfaces.BuildAgent`,
  `BudgetEnforcer`'s pairs).
- *Extraction and data tools, observability*: a call to a service and a transformation of
  its answer, or lines written and never read back by the program.
- *Signed URLs*: the code that makes them is not reached.
- *Scripts run by hand*: but for the two whose writes other modules meet
  (`Skills.EditRule`, `Channels.Migrate`).

The two hazards of `PROJECT.json` without a property are the client's. Of the safety properties
the runs check, all are proved. What a further round would add: the client's thread switch,
with a module of its own, for the two hazards.

No module declares a recursive operator, so none is barred from the prover.

## 7. Running it

    tlc -workers 2 -config MCBudgetEnforcer.cfg MCBudgetEnforcer
    tlapm BudgetEnforcerProofs.tla

`PROJECT.json` lists for each run the module, the configuration and the
properties, for each property its mutant, for each definition the lines of the
code it models, the hazards with the properties that cover them, and the
theorems. Most runs end within a minute or two, `documents` and `records` in about two;
proofs within a few minutes, those of the catalogue in about a quarter of an hour.
