-------------------------- MODULE ChatSessionProofs --------------------------
(***************************************************************************)
(* What holds of every session, for any number of sessions, users,         *)
(* documents, requests and turns.                                          *)
(***************************************************************************)
EXTENDS ChatSession, TLAPS

-----------------------------------------------------------------------------
(* Type correctness *)

LEMMA ActiveRequest ==
    ASSUME TypeOK, NEW r \in Request, request[r].pc # "idle"
    PROVE  request[r] \in Active
  BY DEF TypeOK, Idle

LEMMA InheritedType ==
    ASSUME NEW docs \in Seq(Doc)
    PROVE  /\ Inherited(docs) \in Access
           /\ Derived(docs) \subseteq Access
           /\ ToSet(docs) \in SUBSET Doc
  <1>1. ToSet(docs) \in SUBSET Doc
    BY DEF ToSet
  <1>2. Inherited(docs) \in Access
    <2>1. CASE docs # <<>> /\ Head(docs) \in Shared
      BY <2>1, SessionAssumption DEF Inherited, Access
    <2>2. CASE ~ (docs # <<>> /\ Head(docs) \in Shared)
      BY <2>2 DEF Inherited, Access
    <2> QED BY <2>1, <2>2
  <1>3. Derived(docs) \subseteq Access
    BY <1>2 DEF Derived, Access
  <1> QED BY <1>1, <1>2, <1>3

LEMMA NewRequestType ==
    ASSUME NEW pc \in {"bootstrap", "ensure", "ready"}, NEW i \in Instance, NEW u \in User,
           NEW s \in Session, NEW docs \in Seq(Doc)
    PROVE  NewRequest(pc, i, u, s, docs) \in Active
  BY DEF NewRequest, Active, Seen

LEMMA CreateRowType ==
    ASSUME TypeOK, NEW s \in Session, NEW u \in User, NEW docs \in Seq(Doc),
           NEW access \in Access, CreateRow(s, u, docs, access)
    PROVE  index' \in [Session -> Row \union {None}]
  <1>1. ToSet(docs) \in SUBSET Doc
    BY InheritedType
  <1>2. [owner |-> u, docs |-> ToSet(docs), title |-> None, count |-> 0,
         archived |-> FALSE, access |-> access] \in Row
    BY <1>1 DEF Row, Title
  <1> QED BY <1>2 DEF TypeOK, CreateRow

LEMMA UnionDocsType ==
    ASSUME NEW row \in Row \union {None}, NEW docs \in SUBSET Doc
    PROVE  UnionDocs(row, docs) \in Row \union {None}
  <1>1. CASE row = None
    BY <1>1 DEF UnionDocs
  <1>2. CASE row # None
    BY <1>2 DEF UnionDocs, Row
  <1> QED BY <1>1, <1>2

LEMMA CountedType ==
    ASSUME NEW row \in Row \union {None}, NEW n \in Nat, NEW title \in Title
    PROVE  Titled(Counted(row, n), title) \in Row \union {None}
  <1>1. Counted(row, n) \in Row \union {None}
    BY DEF Counted, Row
  <1> QED BY <1>1 DEF Titled, Row

\* The types of what a request holds, where an action reads it.
LEMMA RequestType ==
    ASSUME TypeOK, NEW r \in Request, request[r].pc # "idle"
    PROVE  /\ request[r].instance \in Instance
           /\ request[r].user \in User
           /\ request[r].session \in Session
           /\ request[r].docs \in Seq(Doc)
           /\ request[r].seen \in Seen
           /\ Key(r) \in User \X Session
           /\ At(r) \in Store
  BY ActiveRequest, SessionAssumption DEF Active, Key, At

LEMMA GotoType ==
    ASSUME TypeOK, NEW r \in Request, request[r].pc # "idle",
           NEW pc \in {"ready", "load", "model"}
    PROVE  Goto(r, pc) \in [Request -> Active \union {Idle}]
  BY ActiveRequest DEF Goto, TypeOK, Active

LEMMA DoneType ==
    ASSUME TypeOK, NEW r \in Request
    PROVE  Done(r) \in [Request -> Active \union {Idle}]
  BY DEF Done, TypeOK


LEMMA InitType == Init => TypeOK
  BY SessionAssumption DEF Init, TypeOK, Fresh

LEMMA BeginType ==
    ASSUME TypeOK, NEW r \in Request, NEW i \in Instance, NEW u \in User,
           NEW s \in Session, NEW docs \in Attachments,
           Begin(r, i, u, s, docs) \/ Bootstrap(r, i, u, s, docs)
    PROVE  TypeOK'
  <1>1. docs \in Seq(Doc)
    BY SessionAssumption
  <1>2. CASE Begin(r, i, u, s, docs)
    <2>1. request' \in [Request -> Active \union {Idle}]
      BY <1>1, <1>2, NewRequestType DEF Begin, TypeOK
    <2> QED BY <1>2, <2>1 DEF Begin, TypeOK, stored
  <1>3. CASE Bootstrap(r, i, u, s, docs)
    <2>1. request' \in [Request -> Active \union {Idle}]
      BY <1>1, <1>3, NewRequestType DEF Bootstrap, TypeOK
    <2> QED BY <1>3, <2>1 DEF Bootstrap, TypeOK, stored
  <1> QED BY <1>2, <1>3

LEMMA EnsureType ==
    ASSUME TypeOK, NEW r \in Request, Ensure(r)
    PROVE  TypeOK'
  <1>1. request[r].pc # "idle"
    BY DEF Ensure
  <1>2. request' \in [Request -> Active \union {Idle}]
    BY <1>1, GotoType DEF Ensure
  <1>3. index' \in [Session -> Row \union {None}]
    <2>1. CASE \E access \in Derived(request[r].docs) :
                  CreateRow(request[r].session, request[r].user, request[r].docs, access)
      BY <1>1, <2>1, RequestType, InheritedType, CreateRowType
    <2>2. CASE index' = [index EXCEPT ![request[r].session] =
                           UnionDocs(@, ToSet(request[r].docs))]
      BY <1>1, <2>2, RequestType, InheritedType, UnionDocsType DEF TypeOK
    <2>3. CASE UNCHANGED index
      BY <2>3 DEF TypeOK
    <2> QED BY <2>1, <2>2, <2>3 DEF Ensure
  <1> QED BY <1>2, <1>3 DEF Ensure, TypeOK, stored

LEMMA OpenType ==
    ASSUME TypeOK, NEW r \in Request, Open(r)
    PROVE  TypeOK'
  <1>1. request[r].pc # "idle" /\ request[r] \in Active
    BY ActiveRequest DEF Open
  <1> DEFINE docs == IF request[r].docs = <<>> THEN documentIds[Key(r)] ELSE request[r].docs
  <1>2. docs \in Seq(Doc)
    BY <1>1, RequestType DEF TypeOK
  <1>3. [initialized |-> initialized[At(r)], count |-> turnCount[At(r)],
         titleSet |-> titleSet[Key(r)], docs |-> docs] \in Seen
    BY <1>1, <1>2, RequestType DEF TypeOK, Seen
  <1>4. request' \in [Request -> Active \union {Idle}]
    BY <1>1, <1>3 DEF Open, TypeOK, Active
  <1>5. documentIds' \in [User \X Session -> Seq(Doc)]
    BY <1>1, <1>2, RequestType DEF Open, TypeOK
  <1> QED BY <1>4, <1>5 DEF Open, TypeOK

LEMMA TrackType ==
    ASSUME TypeOK, NEW r \in Request, Track(r)
    PROVE  TypeOK'
  <1>1. request[r].pc # "idle" /\ request[r] \in Active
    BY ActiveRequest DEF Track
  <1>2. request' \in [Request -> Active \union {Idle}]
    <2>1. CASE request' = Goto(r, "load")
      BY <1>1, <2>1, GotoType
    <2>2. ASSUME NEW found \in BOOLEAN,
                 request' = [request EXCEPT ![r].pc = "track", ![r].found = found]
          PROVE  request' \in [Request -> Active \union {Idle}]
      <3>1. [request[r] EXCEPT !.pc = "track", !.found = found] \in Active
        BY <1>1 DEF Active
      <3>2. request' = [request EXCEPT ![r] = [request[r] EXCEPT !.pc = "track", !.found = found]]
        BY <1>1, <2>2 DEF TypeOK
      <3> QED BY <3>1, <3>2 DEF TypeOK
    <2>3. PICK found \in BOOLEAN :
             \/ request' = Goto(r, "load")
             \/ request' = [request EXCEPT ![r].pc = "track", ![r].found = found]
      BY DEF Track
    <2> QED BY <2>1, <2>2, <2>3
  <1> QED BY <1>2 DEF Track, TypeOK, stored

LEMMA InitializeType ==
    ASSUME TypeOK, NEW r \in Request, request[r].pc # "idle", Initialize(r)
    PROVE  /\ initialized' \in [Store -> BOOLEAN]
           /\ turnCount' \in [Store -> Nat]
           /\ request' \in [Request -> Active \union {Idle}]
  <1>1. request[r] \in Active /\ At(r) \in Store
    BY ActiveRequest, RequestType
  <1>2. request' \in [Request -> Active \union {Idle}]
    BY <1>1 DEF Initialize, TypeOK, Active, Seen
  <1> QED BY <1>1, <1>2 DEF Initialize, TypeOK

LEMMA TrackWriteType ==
    ASSUME TypeOK, NEW r \in Request, TrackWrite(r)
    PROVE  TypeOK'
  <1>1. request[r].pc # "idle" /\ request[r] \in Active /\ request[r].seen.docs \in Seq(Doc)
    BY ActiveRequest DEF TrackWrite, Active, Seen
  <1>2. index' \in [Session -> Row \union {None}]
    <2>1. CASE \E access \in Derived(request[r].seen.docs) :
                 CreateRow(request[r].session, request[r].user, request[r].seen.docs, access)
      BY <1>1, <2>1, RequestType, InheritedType, CreateRowType
    <2>2. CASE UNCHANGED index
      BY <2>2 DEF TypeOK
    <2> QED BY <2>1, <2>2 DEF TrackWrite
  <1>3. /\ initialized' \in [Store -> BOOLEAN]
        /\ turnCount' \in [Store -> Nat]
        /\ request' \in [Request -> Active \union {Idle}]
    <2>1. CASE Initialize(r)
      BY <1>1, <2>1, InitializeType
    <2>2. CASE request' = Goto(r, "load") /\ UNCHANGED <<initialized, turnCount>>
      BY <1>1, <2>2, GotoType DEF TypeOK
    <2> QED BY <2>1, <2>2 DEF TrackWrite
  <1> QED BY <1>2, <1>3 DEF TrackWrite, TypeOK

LEMMA LoadType ==
    ASSUME TypeOK, NEW r \in Request, Load(r)
    PROVE  TypeOK'
  <1>1. request[r].pc # "idle" /\ request[r] \in Active /\ request[r].seen.docs \in Seq(Doc)
    BY ActiveRequest DEF Load, Active, Seen
  <1>2. index' \in [Session -> Row \union {None}]
    <2>1. CASE \E loaded \in SUBSET ToSet(request[r].seen.docs) :
                 index' = [index EXCEPT ![request[r].session] = UnionDocs(@, loaded)]
      <3>1. ToSet(request[r].seen.docs) \subseteq Doc
        BY <1>1, InheritedType
      <3>2. PICK loaded \in SUBSET ToSet(request[r].seen.docs) :
               index' = [index EXCEPT ![request[r].session] =
                           UnionDocs(index[request[r].session], loaded)]
        BY <1>1, <2>1, RequestType DEF TypeOK
      <3>3. UnionDocs(index[request[r].session], loaded) \in Row \union {None}
        BY <1>1, <3>1, RequestType, UnionDocsType DEF TypeOK
      <3> QED BY <3>2, <3>3 DEF TypeOK
    <2>2. CASE UNCHANGED index
      BY <2>2 DEF TypeOK
    <2> QED BY <2>1, <2>2 DEF Load
  <1>3. request' \in [Request -> Active \union {Idle}]
    BY <1>1, GotoType DEF Load
  <1> QED BY <1>2, <1>3 DEF Load, TypeOK, stored

\* What an after-agent callback may leave in place of a row.
AfterRows(row, n, docs) ==
    LET counted == {Titled(Counted(row, n), title) : title \in {None, "auto"}} \union {row} IN
    counted \union {UnionDocs(c, docs) : c \in counted}

LEMMA AfterAgentIndex ==
    ASSUME TypeOK, NEW r \in Request, request[r].pc # "idle", AfterAgent(r)
    PROVE  \E row \in AfterRows(index[request[r].session], request[r].seen.count + 1,
                               ToSet(request[r].seen.docs)) :
              index' = [index EXCEPT ![request[r].session] = row]
  <1> DEFINE s == request[r].session
             n == request[r].seen.count + 1
             D == ToSet(request[r].seen.docs)
  <1>1. s \in Session
    BY RequestType
  <1>2. CASE UNCHANGED index
    <2>1. index' = [index EXCEPT ![s] = index[s]]
      BY <1>2 DEF TypeOK
    <2> QED BY <2>1 DEF AfterRows
  <1>3. CASE ~ UNCHANGED index
    <2>1. PICK title \in {None, "auto"} :
             \E row \in {Titled(Counted(index[s], n), title)}
                       \union (IF "update" \in Failing THEN {index[s]} ELSE {}) :
                \/ index' = [index EXCEPT ![s] = UnionDocs(row, D)]
                \/ "update" \in Failing /\ index' = [index EXCEPT ![s] = row]
      BY <1>1, <1>3 DEF AfterAgent, TypeOK
    <2>2. PICK row \in {Titled(Counted(index[s], n), title), index[s]} :
                \/ index' = [index EXCEPT ![s] = UnionDocs(row, D)]
                \/ index' = [index EXCEPT ![s] = row]
      BY <2>1
    <2> QED BY <2>2 DEF AfterRows
  <1> QED BY <1>2, <1>3

LEMMA AfterRowsKeep ==
    ASSUME NEW row \in Row, NEW n \in Nat, NEW docs \in SUBSET Doc,
           NEW after \in AfterRows(row, n, docs)
    PROVE  /\ after \in Row
           /\ after.owner = row.owner
           /\ row.docs \subseteq after.docs
           /\ after.access = row.access
           /\ after.archived = row.archived
           /\ after.count \in {row.count, n}
  <1> DEFINE Keeps(a) == /\ a \in Row
                         /\ a.owner = row.owner
                         /\ row.docs \subseteq a.docs
                         /\ a.access = row.access
                         /\ a.archived = row.archived
                         /\ a.count \in {row.count, n}
  <1>0. row # None
    BY NoneAssumption
  <1>1. Keeps(row)
    OBVIOUS
  <1>2. ASSUME NEW title \in {None, "auto"}
        PROVE  Keeps(Titled(Counted(row, n), title))
    <2>1. Keeps(Counted(row, n))
      BY <1>0 DEF Counted, Row
    <2>2. Counted(row, n) # None
      BY <2>1, NoneAssumption
    <2>3. CASE title = None
      BY <2>1, <2>3 DEF Titled
    <2>4. CASE title = "auto" /\ title # None
      BY <2>1, <2>2, <2>4 DEF Titled, Row, Title
    <2> QED BY <2>3, <2>4
  <1>3. ASSUME NEW a, Keeps(a)
        PROVE  Keeps(UnionDocs(a, docs))
    <2>1. a # None
      BY <1>3, NoneAssumption
    <2> QED BY <1>3, <2>1 DEF UnionDocs, Row
  <1> HIDE DEF Keeps
  <1>4. Keeps(after)
    BY <1>1, <1>2, <1>3 DEF AfterRows
  <1> QED BY <1>4 DEF Keeps

LEMMA AfterRowsNone ==
    ASSUME NEW n, NEW docs, NEW after \in AfterRows(None, n, docs)
    PROVE  after = None
  BY DEF AfterRows, Counted, Titled, UnionDocs

LEMMA AfterAgentType ==
    ASSUME TypeOK, NEW r \in Request, request[r].pc # "idle", AfterAgent(r)
    PROVE  /\ index' \in [Session -> Row \union {None}]
           /\ turnCount' \in [Store -> Nat]
           /\ turnCount'[At(r)] = request[r].seen.count + 1
           /\ titleSet' \in [User \X Session -> BOOLEAN]
           /\ UNCHANGED <<initialized, documentIds>>
  <1> DEFINE s == request[r].session
  <1>1. /\ s \in Session /\ At(r) \in Store /\ Key(r) \in User \X Session
        /\ request[r].seen.count + 1 \in Nat
        /\ ToSet(request[r].seen.docs) \in SUBSET Doc
    BY RequestType, InheritedType DEF Seen
  <1>2. index' \in [Session -> Row \union {None}]
    <2>1. PICK row \in AfterRows(index[s], request[r].seen.count + 1,
                                 ToSet(request[r].seen.docs)) :
             index' = [index EXCEPT ![s] = row]
      BY AfterAgentIndex
    <2>2. row \in Row \union {None}
      BY <1>1, AfterRowsKeep, AfterRowsNone DEF TypeOK
    <2> QED BY <1>1, <2>1, <2>2 DEF TypeOK
  <1>3. turnCount' \in [Store -> Nat] /\ turnCount'[At(r)] = request[r].seen.count + 1
    BY <1>1 DEF AfterAgent, TypeOK
  <1>4. titleSet' \in [User \X Session -> BOOLEAN]
    BY <1>1 DEF AfterAgent, TypeOK
  <1> QED BY <1>2, <1>3, <1>4 DEF AfterAgent

LEMMA FinishType ==
    ASSUME TypeOK, NEW r \in Request, FinishUntracked(r) \/ FinishSub(r) \/ Finish(r)
    PROVE  TypeOK'
  <1>1. request[r].pc # "idle" /\ request[r] \in Active
    BY ActiveRequest DEF FinishUntracked, FinishSub, Finish
  <1>2. request[r].session \in Session /\ Done(r) \in [Request -> Active \union {Idle}]
    BY <1>1, RequestType, DoneType
  <1>3. CASE FinishUntracked(r)
    BY <1>2, <1>3 DEF FinishUntracked, TypeOK, stored
  <1>4. CASE Finish(r)
    <2>1. AfterAgent(r) /\ request' = Done(r)
          /\ completed' = [completed EXCEPT ![request[r].session] = @ + 1]
      BY <1>4 DEF Finish
    <2>2. completed' \in [Session -> Nat]
      BY <1>2, <2>1 DEF TypeOK
    <2>3. request' \in [Request -> Active \union {Idle}]
      BY <1>2, <2>1
    <2> QED BY <1>1, <2>1, <2>2, <2>3, AfterAgentType DEF TypeOK
  <1>5. CASE FinishSub(r)
    <2>1. AfterAgent(r) /\ UNCHANGED completed
      BY <1>5 DEF FinishSub
    <2>2. turnCount'[At(r)] \in Nat /\ titleSet'[Key(r)] \in BOOLEAN
      BY <1>1, <2>1, AfterAgentType, RequestType
    <2>3. request' \in [Request -> Active \union {Idle}]
      <3>1. request' = [request EXCEPT ![r].delegated = TRUE,
                                       ![r].seen.count = turnCount'[At(r)],
                                       ![r].seen.titleSet = titleSet'[Key(r)]]
        BY <1>5 DEF FinishSub
      <3> QED BY <1>1, <2>2, <3>1 DEF TypeOK, Active, Seen
    <2>4. completed' \in [Session -> Nat]
      BY <2>1 DEF TypeOK
    <2> QED BY <1>1, <2>1, <2>3, <2>4, AfterAgentType DEF TypeOK
  <1> QED BY <1>3, <1>4, <1>5

LEMMA OtherRequestType ==
    ASSUME TypeOK, NEW r \in Request, Abort(r) \/ BootstrapWrite(r)
    PROVE  TypeOK'
  <1>1. request[r].pc # "idle" /\ Done(r) \in [Request -> Active \union {Idle}]
    BY DoneType DEF Abort, BootstrapWrite
  <1>2. CASE Abort(r)
    BY <1>1, <1>2 DEF Abort, TypeOK, stored
  <1>3. CASE BootstrapWrite(r)
    <2>1. index' \in [Session -> Row \union {None}]
      <3>1. CASE CreateRow(request[r].session, request[r].user, request[r].docs, "private")
        BY <1>1, <3>1, RequestType, CreateRowType DEF Access
      <3>2. CASE UNCHANGED index
        BY <3>2 DEF TypeOK
      <3> QED BY <1>3, <3>1, <3>2 DEF BootstrapWrite
    <2> QED BY <1>1, <1>3, <2>1 DEF BootstrapWrite, TypeOK, stored
  <1> QED BY <1>2, <1>3

LEMMA OwnerType ==
    ASSUME TypeOK, Owner
    PROVE  TypeOK'
  <1>1. PICK u \in User, s \in Session : Patch(u, s) \/ Delete(u, s)
    BY DEF Owner
  <1>2. index[s] \in Row
    BY <1>1 DEF Patch, Delete, TypeOK
  <1>3. index' \in [Session -> Row \union {None}]
    <2>1. CASE Patch(u, s)
      <3>1. PICK title \in {index[s].title, "user"}, access \in {index[s].access, "custom"},
                 archived \in BOOLEAN :
               index' = [index EXCEPT ![s].title = title, ![s].access = access,
                                      ![s].archived = archived]
        BY <2>1 DEF Patch
      <3>2. [index[s] EXCEPT !.title = title, !.access = access, !.archived = archived] \in Row
        BY <1>2 DEF Row, Title, Access
      <3>3. index' = [index EXCEPT ![s] = [index[s] EXCEPT !.title = title, !.access = access,
                                                           !.archived = archived]]
        BY <3>1 DEF TypeOK
      <3> QED BY <3>2, <3>3 DEF TypeOK
    <2>2. CASE Delete(u, s)
      BY <1>2, <2>2 DEF Delete, TypeOK, Row
    <2> QED BY <1>1, <2>1, <2>2
  <1> QED BY <1>1, <1>3 DEF Patch, Delete, TypeOK, stored

LEMMA RestartType ==
    ASSUME TypeOK, NEW i \in Instance, Restart(i)
    PROVE  TypeOK'
  <1>1. request' \in [Request -> Active \union {Idle}]
    BY DEF Restart, TypeOK
  <1>2. CASE InMemory
    <2>1. /\ initialized' = [a \in Store |-> FALSE] /\ turnCount' = [a \in Store |-> 0]
          /\ titleSet' = [k \in User \X Session |-> FALSE]
          /\ documentIds' = [k \in User \X Session |-> <<>>]
      BY <1>2 DEF Restart, Fresh
    <2> QED BY <1>1, <2>1 DEF Restart, TypeOK
  <1>3. CASE ~ InMemory
    BY <1>1, <1>3 DEF Restart, TypeOK, stored
  <1> QED BY <1>2, <1>3

LEMMA NextType == TypeOK /\ [Next]_vars => TypeOK'
  <1> SUFFICES ASSUME TypeOK, [Next]_vars
               PROVE  TypeOK'
    OBVIOUS
  <1>1. ASSUME NEW r \in Request, Step(r)
        PROVE  TypeOK'
    BY <1>1, EnsureType, OpenType, TrackType, TrackWriteType, LoadType, FinishType,
       OtherRequestType DEF Step
  <1>2. CASE UNCHANGED vars
    BY <1>2 DEF vars, stored, TypeOK
  <1> QED BY <1>1, <1>2, BeginType, OwnerType, RestartType DEF Next

\* Every variable keeps its type.
THEOREM TypeCorrect == Spec => []TypeOK
  BY InitType, NextType, PTL DEF Spec

-----------------------------------------------------------------------------
(* A row that nobody takes for missing is kept *)

\* A step keeps the row of s, and brings nobody to take it for missing but a tracker
\* whose look-up fails.
Spares(s) ==
    /\ KeepsRow(s)
    /\ \A q \in Request : Creating(q, s)' => Creating(q, s) \/ LooksBlind(q, s)

\* A step of one request: the others take for missing what they did.
LEMMA OneMoves ==
    ASSUME NEW r \in Request, NEW s \in Session, KeepsRow(s),
           \A q \in Request : q # r => request'[q] = request[q],
           Creating(r, s)' => Creating(r, s) \/ LooksBlind(r, s)
    PROVE  Spares(s)
  <1>1. ASSUME NEW q \in Request, q # r, Creating(q, s)' PROVE Creating(q, s)
    BY <1>1 DEF Creating
  <1> QED BY <1>1 DEF Spares

LEMMA CreateKeeps ==
    ASSUME TypeOK, NEW s \in Session, NEW x \in Session, x # s,
           NEW u, NEW docs, NEW access, CreateRow(x, u, docs, access)
    PROVE  KeepsRow(s)
  BY DEF CreateRow, KeepsRow, TypeOK

LEMMA ReplaceKeeps ==
    ASSUME TypeOK, NEW s \in Session, NEW row \in Row \union {None},
           index' = [index EXCEPT ![s] = row],
           index[s] # None => /\ row # None
                              /\ row.owner = index[s].owner
                              /\ index[s].docs \subseteq row.docs
                              /\ row.access = index[s].access
                              /\ row.archived = index[s].archived
    PROVE  \A t \in Session : KeepsRow(t)
  BY DEF KeepsRow, TypeOK

LEMMA UnionKeeps ==
    ASSUME TypeOK, NEW s \in Session, NEW docs \in SUBSET Doc,
           index' = [index EXCEPT ![s] = UnionDocs(@, docs)]
    PROVE  \A t \in Session : KeepsRow(t)
  <1>1. index' = [index EXCEPT ![s] = UnionDocs(index[s], docs)]
    BY DEF TypeOK
  <1>2. UnionDocs(index[s], docs) \in Row \union {None}
    BY UnionDocsType DEF TypeOK
  <1> DEFINE row == UnionDocs(index[s], docs)
  <1>3. ASSUME index[s] # None
        PROVE  /\ row # None
               /\ row.owner = index[s].owner
               /\ index[s].docs \subseteq row.docs
               /\ row.access = index[s].access
               /\ row.archived = index[s].archived
    <2>1. index[s] \in Row
      BY <1>3 DEF TypeOK
    <2>2. row = [index[s] EXCEPT !.docs = @ \union docs]
      BY <1>3 DEF UnionDocs
    <2>3. row \in Row
      BY <2>1, <2>2 DEF Row
    <2>4. row # None
      BY <2>3, NoneAssumption
    <2> QED BY <2>1, <2>2, <2>4 DEF Row
  <1> HIDE DEF row
  <1> QED BY <1>1, <1>2, <1>3, ReplaceKeeps DEF row

LEMMA SameKeeps ==
    ASSUME UNCHANGED index
    PROVE  \A t \in Session : KeepsRow(t)
  BY DEF KeepsRow

LEMMA AfterAgentKeeps ==
    ASSUME TypeOK, NEW r \in Request, request[r].pc # "idle", AfterAgent(r)
    PROVE  \A t \in Session : KeepsRow(t)
  <1> DEFINE s == request[r].session
             n == request[r].seen.count + 1
             D == ToSet(request[r].seen.docs)
  <1>1. s \in Session /\ n \in Nat /\ D \in SUBSET Doc
    BY RequestType, InheritedType DEF Seen
  <1>2. PICK row \in AfterRows(index[s], n, D) : index' = [index EXCEPT ![s] = row]
    BY AfterAgentIndex
  <1>3. CASE index[s] = None
    <2>1. row = None
      BY <1>2, <1>3, AfterRowsNone
    <2> QED BY <1>1, <1>2, <1>3, <2>1, ReplaceKeeps
  <1>4. CASE index[s] # None
    <2>1. index[s] \in Row
      BY <1>1, <1>4 DEF TypeOK
    <2>2. /\ row \in Row
          /\ row.owner = index[s].owner
          /\ index[s].docs \subseteq row.docs
          /\ row.access = index[s].access
          /\ row.archived = index[s].archived
      BY <1>1, <1>2, <2>1, AfterRowsKeep
    <2>3. row # None
      BY <2>2, NoneAssumption
    <2> QED BY <1>1, <1>2, <2>2, <2>3, ReplaceKeeps
  <1> QED BY <1>3, <1>4

LEMMA BeginSpares ==
    ASSUME TypeOK, NEW t \in Session, Settled(t), NEW r \in Request, NEW i \in Instance,
           NEW u \in User, NEW s \in Session, NEW docs \in Attachments,
           Begin(r, i, u, s, docs) \/ Bootstrap(r, i, u, s, docs)
    PROVE  Spares(t)
  <1>1. PICK pc \in {"bootstrap", "ensure", "ready"} :
           /\ request' = [request EXCEPT ![r] = NewRequest(pc, i, u, s, docs)]
           /\ pc = "bootstrap" => index[s] = None
    BY DEF Begin, Bootstrap
  <1>2. request'[r] = NewRequest(pc, i, u, s, docs)
        /\ \A q \in Request : q # r => request'[q] = request[q]
    BY <1>1 DEF TypeOK
  <1>3. /\ request'[r].pc = pc /\ request'[r].session = s
        /\ request'[r].found = (index[s] # None)
    BY <1>2 DEF NewRequest
  <1>4. ~ Creating(r, t)'
    BY <1>1, <1>3 DEF Creating, Settled
  <1>5. KeepsRow(t)
    BY SameKeeps DEF Begin, Bootstrap
  <1> QED BY <1>2, <1>4, <1>5, OneMoves

LEMMA TrackSpares ==
    ASSUME TypeOK, NEW t \in Session, Settled(t), NEW r \in Request, Track(r)
    PROVE  Spares(t)
  <1>1. request[r].pc = "before" /\ request[r] \in Active /\ KeepsRow(t)
    BY ActiveRequest, SameKeeps DEF Track
  <1>2. CASE request' = Goto(r, "load")
    <2>1. \A q \in Request : q # r => request'[q] = request[q]
      BY <1>2 DEF Goto, TypeOK
    <2>2. request'[r].pc = "load"
      BY <1>1, <1>2 DEF Goto, TypeOK, Active
    <2> QED BY <1>1, <2>1, <2>2, OneMoves DEF Creating
  <1>3. ASSUME NEW found \in {index[request[r].session] # None}
                                \union (IF "look" \in Failing THEN {FALSE} ELSE {}),
               request' = [request EXCEPT ![r].pc = "track", ![r].found = found]
        PROVE  Spares(t)
    <2>1. /\ \A q \in Request : q # r => request'[q] = request[q]
          /\ request'[r].session = request[r].session
          /\ request'[r].found = found
      BY <1>1, <1>3 DEF TypeOK, Active
    <2>2. ASSUME Creating(r, t)' PROVE LooksBlind(r, t)
      <3>1. request[r].session = t /\ ~ found
        BY <1>1, <1>3, <2>1, <2>2 DEF Creating, TypeOK, Active
      <3>2. index[request[r].session] # None
        BY <3>1 DEF Settled
      <3>3. "look" \in Failing
        BY <1>3, <3>1, <3>2
      <3> QED BY <1>1, <2>2, <3>3 DEF LooksBlind
    <2> QED BY <1>1, <2>1, <2>2, OneMoves
  <1> QED BY <1>2, <1>3 DEF Track

LEMMA EnsureSpares ==
    ASSUME TypeOK, NEW t \in Session, Settled(t), NEW r \in Request, Ensure(r)
    PROVE  Spares(t)
  <1>1. /\ request[r].pc = "ensure" /\ request[r].session \in Session
        /\ ToSet(request[r].docs) \in SUBSET Doc /\ request[r] \in Active
    BY RequestType, InheritedType, ActiveRequest DEF Ensure
  <1>2. request'[r].pc = "ready" /\ \A q \in Request : q # r => request'[q] = request[q]
    BY <1>1 DEF Ensure, Goto, TypeOK, Active
  <1>3. KeepsRow(t)
    <2>1. CASE ~ request[r].found /\ \E access \in Derived(request[r].docs) :
                  CreateRow(request[r].session, request[r].user, request[r].docs, access)
      <3>1. request[r].session # t
        BY <1>1, <2>1 DEF Settled, Creating
      <3> QED BY <1>1, <2>1, <3>1, CreateKeeps
    <2>2. CASE index' = [index EXCEPT ![request[r].session] =
                           UnionDocs(@, ToSet(request[r].docs))]
      BY <1>1, <2>2, UnionKeeps
    <2>3. CASE UNCHANGED index
      BY <2>3, SameKeeps
    <2> QED BY <2>1, <2>2, <2>3 DEF Ensure
  <1> QED BY <1>2, <1>3, OneMoves DEF Creating

LEMMA TrackWriteSpares ==
    ASSUME TypeOK, NEW t \in Session, Settled(t), NEW r \in Request, TrackWrite(r)
    PROVE  Spares(t)
  <1>1. request[r].pc = "track" /\ request[r].session \in Session /\ request[r] \in Active
    BY RequestType, ActiveRequest DEF TrackWrite
  <1>2. request'[r].pc = "load" /\ \A q \in Request : q # r => request'[q] = request[q]
    <2>1. CASE Initialize(r)
      BY <1>1, <2>1 DEF Initialize, TypeOK, Active, Seen
    <2>2. CASE request' = Goto(r, "load")
      BY <1>1, <2>2 DEF Goto, TypeOK, Active
    <2> QED BY <2>1, <2>2 DEF TrackWrite
  <1>3. KeepsRow(t)
    <2>1. CASE ~ request[r].found /\ \E access \in Derived(request[r].seen.docs) :
               CreateRow(request[r].session, request[r].user, request[r].seen.docs, access)
      <3>1. request[r].session # t
        BY <1>1, <2>1 DEF Settled, Creating
      <3> QED BY <1>1, <2>1, <3>1, CreateKeeps
    <2>2. CASE UNCHANGED index
      BY <2>2, SameKeeps
    <2> QED BY <2>1, <2>2 DEF TrackWrite
  <1> QED BY <1>2, <1>3, OneMoves DEF Creating

LEMMA BootstrapWriteSpares ==
    ASSUME TypeOK, NEW t \in Session, Settled(t), NEW r \in Request, BootstrapWrite(r)
    PROVE  Spares(t)
  <1>1. request[r].pc = "bootstrap" /\ request[r].session \in Session
    BY RequestType DEF BootstrapWrite
  <1>2. request'[r].pc = "idle" /\ \A q \in Request : q # r => request'[q] = request[q]
    BY DEF BootstrapWrite, Done, Idle, TypeOK
  <1>3. request[r].session # t
    BY <1>1 DEF Settled, Creating
  <1>4. KeepsRow(t)
    <2>1. CASE CreateRow(request[r].session, request[r].user, request[r].docs, "private")
      BY <1>1, <1>3, <2>1, CreateKeeps
    <2>2. CASE UNCHANGED index
      BY <2>2, SameKeeps
    <2> QED BY <2>1, <2>2 DEF BootstrapWrite
  <1> QED BY <1>2, <1>4, OneMoves DEF Creating

\* The steps of a turn that create no row.
LEMMA TurnSpares ==
    ASSUME TypeOK, NEW t \in Session, Settled(t), NEW r \in Request,
           Open(r) \/ Load(r) \/ FinishUntracked(r) \/ FinishSub(r) \/ Finish(r) \/ Abort(r)
    PROVE  Spares(t)
  <1>1. request[r].pc # "idle"
    BY DEF Open, Load, FinishUntracked, FinishSub, Finish, Abort
  <1>2. request[r] \in Active /\ request[r].session \in Session /\ request[r].seen.docs \in Seq(Doc)
    BY <1>1, ActiveRequest, RequestType DEF Seen
  <1>3. /\ \A q \in Request : q # r => request'[q] = request[q]
        /\ request'[r].pc \in {"before", "model", "idle"}
    <2>1. CASE Open(r)
      BY <1>2, <2>1 DEF Open, TypeOK, Active
    <2>2. CASE Load(r)
      BY <1>2, <2>2 DEF Load, Goto, TypeOK, Active
    <2>3. CASE FinishSub(r)
      BY <1>2, <2>3 DEF FinishSub, TypeOK, Active, Seen
    <2>4. CASE FinishUntracked(r) \/ Finish(r) \/ Abort(r)
      BY <2>4 DEF Abort, Finish, FinishUntracked, Done, Idle, TypeOK
    <2> QED BY <2>1, <2>2, <2>3, <2>4
  <1>4. KeepsRow(t)
    <2>1. CASE AfterAgent(r)
      BY <1>1, <2>1, AfterAgentKeeps
    <2>2. CASE UNCHANGED index
      BY <2>2, SameKeeps
    <2>3. CASE \E loaded \in SUBSET ToSet(request[r].seen.docs) :
                 index' = [index EXCEPT ![request[r].session] = UnionDocs(@, loaded)]
      <3>1. PICK loaded \in SUBSET Doc :
               index' = [index EXCEPT ![request[r].session] = UnionDocs(@, loaded)]
        BY <1>2, <2>3, InheritedType
      <3> QED BY <1>2, <3>1, UnionKeeps
    <2> QED BY <2>1, <2>2, <2>3 DEF Open, Load, FinishUntracked, FinishSub, Finish, Abort
  <1> QED BY <1>3, <1>4, OneMoves DEF Creating

LEMMA OwnerSpares ==
    ASSUME TypeOK, NEW t \in Session, Owner
    PROVE  Spares(t)
  <1>1. PICK u \in User, s \in Session : Patch(u, s) \/ Delete(u, s)
    BY DEF Owner
  <1>2. UNCHANGED request /\ index[s] \in Row
    BY <1>1 DEF Patch, Delete, TypeOK
  <1>3. /\ index'[s] \in Row
        /\ index'[s].owner = index[s].owner
        /\ index'[s].docs = index[s].docs
        /\ \A x \in Session : x # s => index'[x] = index[x]
    <2>1. CASE Patch(u, s)
      <3>1. PICK title \in {index[s].title, "user"}, access \in {index[s].access, "custom"},
                 archived \in BOOLEAN :
               index' = [index EXCEPT ![s].title = title, ![s].access = access,
                                      ![s].archived = archived]
        BY <2>1 DEF Patch
      <3>2. [index[s] EXCEPT !.title = title, !.access = access, !.archived = archived] \in Row
        BY <1>2 DEF Row, Title, Access
      <3>3. index' = [index EXCEPT ![s] = [index[s] EXCEPT !.title = title, !.access = access,
                                                           !.archived = archived]]
        BY <3>1 DEF TypeOK
      <3> QED BY <1>2, <3>2, <3>3 DEF TypeOK, Row
    <2>2. CASE Delete(u, s)
      BY <1>2, <2>2 DEF Delete, TypeOK, Row
    <2> QED BY <1>1, <2>1, <2>2
  <1>4. KeepsRow(t)
    BY <1>3, NoneAssumption DEF KeepsRow
  <1> QED BY <1>2, <1>4 DEF Spares, Creating

LEMMA RestartSpares ==
    ASSUME TypeOK, NEW t \in Session, NEW i \in Instance, Restart(i)
    PROVE  Spares(t)
  <1>1. KeepsRow(t)
    BY SameKeeps DEF Restart
  <1>2. \A q \in Request : request'[q] \in {Idle, request[q]}
    BY DEF Restart
  <1> QED BY <1>1, <1>2 DEF Spares, Creating, Idle

LEMMA NextSpares ==
    ASSUME TypeOK, NEW t \in Session, Settled(t), [Next]_vars
    PROVE  Spares(t)
  <1>1. ASSUME NEW r \in Request, Step(r)
        PROVE  Spares(t)
    BY <1>1, EnsureSpares, TrackSpares, TrackWriteSpares, BootstrapWriteSpares, TurnSpares DEF Step
  <1>2. CASE UNCHANGED vars
    BY <1>2, SameKeeps DEF vars, Spares, Creating
  <1> QED BY <1>1, <1>2, BeginSpares, OwnerSpares, RestartSpares DEF Next

\* Once a session has its row and the requests that looked before it came are done, the
\* row is kept for good (RowSettles), for any number of instances and requests that
\* overlap, whatever fails, and through restarts; what can undo it is a tracker's look-up
\* that fails, and nothing else.
THEOREM RowSettlesTheorem == Spec => RowSettles
  <1>1. ASSUME TypeOK, [Next]_vars, NEW s \in Session, Settled(s)
        PROVE  KeepsRow(s) /\ (Settled(s)' \/ \E r \in Request : LooksBlind(r, s))
    <2>1. Spares(s)
      BY <1>1, NextSpares
    <2>2. index'[s] # None
      BY <1>1, <2>1 DEF Spares, KeepsRow, Settled
    <2>3. CASE \A r \in Request : ~ Creating(r, s)'
      BY <2>1, <2>2, <2>3 DEF Spares, Settled
    <2>4. CASE \E r \in Request : Creating(r, s)'
      BY <1>1, <2>1, <2>4 DEF Spares, Settled
    <2> QED BY <2>3, <2>4
  <1>2. TypeOK /\ [Next]_vars
           => [\A s \in Session :
                 Settled(s) => KeepsRow(s) /\ (Settled(s)' \/ \E r \in Request : LooksBlind(r, s))]_vars
    BY <1>1
  <1> QED BY <1>2, TypeCorrect, PTL DEF Spec, RowSettles

-----------------------------------------------------------------------------
(* A count never runs ahead of the turns *)

\* Sessions do not share a store of "app:" keys.
OwnStores ==
    \A k, l \in User \X Session : StoreOf[k] = StoreOf[l] => k[2] = l[2]

StoresCount ==
    \A u \in User, s \in Session : turnCount[StoreOf[<<u, s>>]] <= completed[s]

RequestsCount ==
    \A r \in Request :
       request[r].pc # "idle" => request[r].seen.count <= completed[request[r].session]

\* CountIsOwn, strengthened by the two places a row's count comes from.
CountInv == StoresCount /\ RequestsCount /\ CountIsOwn

\* Steps that write no row with a count of its own.
LEMMA RowCount ==
    ASSUME TypeOK, CountIsOwn, UNCHANGED completed, NEW s \in Session, NEW row,
           index' = [index EXCEPT ![s] = row],
           row # None => row.count = 0 \/ (index[s] # None /\ row.count = index[s].count)
    PROVE  CountIsOwn'
  BY DEF CountIsOwn, TypeOK

LEMMA CreateCount ==
    ASSUME TypeOK, CountIsOwn, UNCHANGED completed, NEW s \in Session,
           NEW u, NEW docs, NEW access, CreateRow(s, u, docs, access)
    PROVE  CountIsOwn'
  <1> DEFINE row == [owner |-> u, docs |-> ToSet(docs), title |-> None, count |-> 0,
                     archived |-> FALSE, access |-> access]
  <1>1. index' = [index EXCEPT ![s] = row] /\ row.count = 0
    BY DEF CreateRow
  <1> HIDE DEF row
  <1> QED BY <1>1, RowCount

LEMMA UnionCount ==
    ASSUME TypeOK, CountIsOwn, UNCHANGED completed, NEW s \in Session,
           NEW docs, index' = [index EXCEPT ![s] = UnionDocs(@, docs)]
    PROVE  CountIsOwn'
  <1> DEFINE row == UnionDocs(index[s], docs)
  <1>1. index' = [index EXCEPT ![s] = row]
    BY DEF TypeOK
  <1>2. ASSUME row # None
        PROVE  index[s] # None /\ row.count = index[s].count
    BY <1>2 DEF UnionDocs, TypeOK, Row
  <1> HIDE DEF row
  <1> QED BY <1>1, <1>2, RowCount

LEMMA SameCount ==
    ASSUME CountIsOwn, UNCHANGED <<index, completed>>
    PROVE  CountIsOwn'
  BY DEF CountIsOwn

\* The owner's changes, and an after-agent callback's on no row, are of this kind.
LEMMA OwnerCount ==
    ASSUME TypeOK, CountInv, Owner
    PROVE  CountInv'
  <1>1. PICK u \in User, s \in Session : Patch(u, s) \/ Delete(u, s)
    BY DEF Owner
  <1>2. /\ UNCHANGED <<stored, request, completed>> /\ index[s] \in Row /\ index[s] # None
    BY <1>1 DEF Patch, Delete, TypeOK
  <1>3. \E row : index' = [index EXCEPT ![s] = row] /\ row.count = index[s].count
    <2>1. CASE Patch(u, s)
      <3>1. PICK title, access, archived :
               index' = [index EXCEPT ![s].title = title, ![s].access = access,
                                      ![s].archived = archived]
        BY <2>1 DEF Patch
      <3> DEFINE row == [index[s] EXCEPT !.title = title, !.access = access,
                                         !.archived = archived]
      <3>2. index' = [index EXCEPT ![s] = row]
        BY <3>1 DEF TypeOK
      <3>3. row.count = index[s].count
        BY <1>2 DEF Row
      <3> QED BY <3>2, <3>3
    <2>2. CASE Delete(u, s)
      <3> DEFINE row == [index[s] EXCEPT !.archived = TRUE]
      <3>1. index' = [index EXCEPT ![s] = row]
        BY <2>2 DEF Delete, TypeOK
      <3>2. row.count = index[s].count
        BY <1>2 DEF Row
      <3> QED BY <3>1, <3>2
    <2> QED BY <1>1, <2>1, <2>2
  <1>4. CountIsOwn'
    BY <1>2, <1>3, RowCount DEF CountInv
  <1> QED BY <1>2, <1>4 DEF CountInv, StoresCount, RequestsCount, stored

LEMMA BeginCount ==
    ASSUME TypeOK, CountInv, NEW r \in Request, NEW i \in Instance,
           NEW u \in User, NEW s \in Session, NEW docs \in Attachments,
           Begin(r, i, u, s, docs) \/ Bootstrap(r, i, u, s, docs)
    PROVE  CountInv'
  <1>1. UNCHANGED <<index, stored, completed>>
    BY DEF Begin, Bootstrap
  <1>2. PICK pc : request' = [request EXCEPT ![r] = NewRequest(pc, i, u, s, docs)]
    BY DEF Begin, Bootstrap
  <1>3. /\ request'[r].seen.count = 0 /\ request'[r].session = s
        /\ \A q \in Request : q # r => request'[q] = request[q]
    BY <1>2 DEF TypeOK, NewRequest
  <1>4. 0 <= completed[s]
    BY DEF TypeOK
  <1>5. RequestsCount'
    BY <1>1, <1>3, <1>4 DEF CountInv, RequestsCount
  <1> QED BY <1>1, <1>5, SameCount DEF CountInv, StoresCount, stored

\* Steps of one request that leave the stores and the turns alone.
LEMMA RequestsCountKept ==
    ASSUME RequestsCount, UNCHANGED completed, NEW r \in Request,
           \A q \in Request : q # r => request'[q] = request[q],
           request'[r].pc # "idle" =>
              /\ request[r].pc # "idle"
              /\ request'[r].session = request[r].session
              /\ request'[r].seen.count = request[r].seen.count
    PROVE  RequestsCount'
  BY DEF RequestsCount

LEMMA QuietCount ==
    ASSUME TypeOK, CountInv, NEW r \in Request,
           Ensure(r) \/ Track(r) \/ Load(r) \/ Abort(r) \/ BootstrapWrite(r)
    PROVE  CountInv'
  <1>1. request[r].pc # "idle" /\ UNCHANGED <<stored, completed>>
    BY DEF Ensure, Track, Load, Abort, BootstrapWrite
  <1>2. request[r] \in Active /\ request[r].session \in Session
    BY <1>1, ActiveRequest, RequestType
  <1>3. /\ \A q \in Request : q # r => request'[q] = request[q]
        /\ request'[r].pc # "idle" => /\ request'[r].session = request[r].session
                                      /\ request'[r].seen = request[r].seen
    <2>1. CASE \E pc : request' = Goto(r, pc)
      BY <1>2, <2>1 DEF Goto, TypeOK, Active
    <2>2. CASE \E found : request' = [request EXCEPT ![r].pc = "track", ![r].found = found]
      BY <1>2, <2>2 DEF TypeOK, Active
    <2>3. CASE request' = Done(r)
      BY <2>3 DEF Done, Idle, TypeOK
    <2> QED BY <2>1, <2>2, <2>3 DEF Ensure, Track, Load, Abort, BootstrapWrite
  <1>4. RequestsCount'
    BY <1>1, <1>3, RequestsCountKept DEF CountInv
  <1>5. CountIsOwn'
    <2>1. CASE UNCHANGED index
      BY <1>1, <2>1, SameCount DEF CountInv
    <2>2. CASE \E u, docs, access : CreateRow(request[r].session, u, docs, access)
      BY <1>1, <1>2, <2>2, CreateCount DEF CountInv
    <2>3. CASE \E docs : index' = [index EXCEPT ![request[r].session] = UnionDocs(@, docs)]
      BY <1>1, <1>2, <2>3, UnionCount DEF CountInv
    <2> QED BY <2>1, <2>2, <2>3 DEF Ensure, Track, Load, Abort, BootstrapWrite
  <1> QED BY <1>1, <1>4, <1>5 DEF CountInv, StoresCount, stored

LEMMA OpenCount ==
    ASSUME TypeOK, CountInv, NEW r \in Request, Open(r)
    PROVE  CountInv'
  <1>1. /\ request[r].pc # "idle" /\ request[r] \in Active
        /\ UNCHANGED <<index, turnCount, completed>>
    BY ActiveRequest DEF Open
  <1>2. /\ \A q \in Request : q # r => request'[q] = request[q]
        /\ request'[r].session = request[r].session
        /\ request'[r].seen.count = turnCount[At(r)]
    BY <1>1 DEF Open, TypeOK, Active
  <1>3. turnCount[At(r)] <= completed[request[r].session]
    BY <1>1, RequestType DEF CountInv, StoresCount, At, Key
  <1>4. RequestsCount'
    BY <1>1, <1>2, <1>3 DEF CountInv, RequestsCount
  <1> QED BY <1>1, <1>4, SameCount DEF CountInv, StoresCount

LEMMA TrackWriteCount ==
    ASSUME TypeOK, CountInv, NEW r \in Request, TrackWrite(r)
    PROVE  CountInv'
  <1>1. /\ request[r].pc # "idle" /\ request[r] \in Active /\ request[r].session \in Session
        /\ At(r) \in Store /\ UNCHANGED completed
    BY ActiveRequest, RequestType DEF TrackWrite
  <1>2. CountIsOwn'
    <2>1. CASE UNCHANGED index
      BY <1>1, <2>1, SameCount DEF CountInv
    <2>2. CASE \E u, docs, access : CreateRow(request[r].session, u, docs, access)
      BY <1>1, <2>2, CreateCount DEF CountInv
    <2> QED BY <2>1, <2>2 DEF TrackWrite
  <1>3. CASE Initialize(r)
    <2>1. turnCount' = [turnCount EXCEPT ![At(r)] = 0]
      BY <1>3 DEF Initialize
    <2>2. ASSUME NEW u \in User, NEW s \in Session
          PROVE  turnCount'[StoreOf[<<u, s>>]] <= completed'[s]
      <3>1. StoreOf[<<u, s>>] \in Store
        BY SessionAssumption
      <3> QED BY <1>1, <2>1, <3>1 DEF TypeOK, CountInv, StoresCount
    <2>3. /\ \A q \in Request : q # r => request'[q] = request[q]
          /\ request'[r].session = request[r].session
          /\ request'[r].seen.count = 0
      BY <1>1, <1>3 DEF Initialize, TypeOK, Active, Seen
    <2>4. 0 <= completed[request[r].session]
      BY <1>1 DEF TypeOK
    <2>5. RequestsCount'
      BY <1>1, <2>3, <2>4 DEF CountInv, RequestsCount
    <2> QED BY <1>2, <2>2, <2>5 DEF CountInv, StoresCount
  <1>4. CASE request' = Goto(r, "load") /\ UNCHANGED turnCount
    <2>1. /\ \A q \in Request : q # r => request'[q] = request[q]
          /\ request'[r].session = request[r].session
          /\ request'[r].seen.count = request[r].seen.count
      BY <1>1, <1>4 DEF Goto, TypeOK, Active
    <2>2. RequestsCount'
      BY <1>1, <2>1, RequestsCountKept DEF CountInv
    <2> QED BY <1>1, <1>2, <1>4, <2>2 DEF CountInv, StoresCount
  <1> QED BY <1>3, <1>4 DEF TrackWrite

LEMMA FinishCount ==
    ASSUME TypeOK, CountInv, OwnStores, NEW r \in Request, Finish(r)
    PROVE  CountInv'
  <1> DEFINE s == request[r].session
             n == request[r].seen.count + 1
             D == ToSet(request[r].seen.docs)
  <1>1. /\ request[r].pc # "idle" /\ AfterAgent(r) /\ request' = Done(r)
        /\ completed' = [completed EXCEPT ![s] = @ + 1]
    BY DEF Finish
  <1>2. /\ s \in Session /\ request[r].user \in User /\ At(r) \in Store
        /\ n \in Nat /\ D \in SUBSET Doc /\ n <= completed[s] + 1
    BY <1>1, RequestType, InheritedType DEF Seen, CountInv, RequestsCount, TypeOK
  <1>3. /\ completed'[s] = completed[s] + 1
        /\ \A t \in Session : completed[t] <= completed'[t]
        /\ \A t \in Session : completed[t] \in Nat /\ completed'[t] \in Nat
    BY <1>1, <1>2 DEF TypeOK
  <1>4. ASSUME NEW u \in User, NEW t \in Session
        PROVE  turnCount'[StoreOf[<<u, t>>]] <= completed'[t]
    <2>1. StoreOf[<<u, t>>] \in Store /\ turnCount' = [turnCount EXCEPT ![At(r)] = n]
      BY <1>1, SessionAssumption DEF AfterAgent
    <2>2. CASE StoreOf[<<u, t>>] = At(r)
      <3>1. t = s
        BY <1>2, <2>2 DEF OwnStores, At, Key
      <3>2. turnCount'[At(r)] = n
        BY <1>2, <2>1 DEF TypeOK
      <3> QED BY <1>2, <1>3, <2>2, <3>1, <3>2
    <2>3. CASE StoreOf[<<u, t>>] # At(r)
      <3>1. /\ turnCount'[StoreOf[<<u, t>>]] = turnCount[StoreOf[<<u, t>>]]
            /\ turnCount[StoreOf[<<u, t>>]] \in Nat
            /\ turnCount[StoreOf[<<u, t>>]] <= completed[t]
        BY <2>1, <2>3 DEF TypeOK, CountInv, StoresCount
      <3> QED BY <1>3, <3>1
    <2> QED BY <2>2, <2>3
  <1>5. RequestsCount'
    <2>1. ASSUME NEW q \in Request, request'[q].pc # "idle"
          PROVE  request'[q].seen.count <= completed'[request'[q].session]
      <3>1. request'[q] = request[q]
        BY <1>1, <2>1 DEF Done, Idle, TypeOK
      <3>2. /\ request[q].session \in Session /\ request[q].seen.count \in Nat
            /\ request[q].seen.count <= completed[request[q].session]
        BY <2>1, <3>1, RequestType DEF CountInv, RequestsCount, Seen
      <3> QED BY <1>3, <3>1, <3>2
    <2> QED BY <2>1 DEF RequestsCount
  <1>6. ASSUME NEW t \in Session, index'[t] # None
        PROVE  index'[t].count <= completed'[t]
    <2>1. PICK row \in AfterRows(index[s], n, D) : index' = [index EXCEPT ![s] = row]
      BY <1>1, AfterAgentIndex
    <2>2. CASE t # s
      <3>1. index'[t] = index[t] /\ index[t] \in Row
        BY <1>6, <2>1, <2>2 DEF TypeOK
      <3> QED BY <1>3, <1>6, <3>1 DEF CountInv, CountIsOwn, Row
    <2>3. CASE t = s
      <3>1. index'[t] = row /\ row # None
        BY <1>2, <1>6, <2>1, <2>3 DEF TypeOK
      <3>2. index[s] \in Row
        BY <1>2, <2>1, <3>1, AfterRowsNone DEF TypeOK
      <3>3. row.count \in {index[s].count, n}
        BY <1>2, <2>1, <3>2, AfterRowsKeep
      <3>4. index[s].count <= completed[s] /\ index[s].count \in Nat
        BY <1>2, <3>2, NoneAssumption DEF CountInv, CountIsOwn, Row
      <3> QED BY <1>2, <1>3, <2>3, <3>1, <3>3, <3>4
    <2> QED BY <2>2, <2>3
  <1> QED BY <1>4, <1>5, <1>6 DEF CountInv, StoresCount, CountIsOwn

LEMMA UntrackedCount ==
    ASSUME TypeOK, CountInv, NEW r \in Request, FinishUntracked(r)
    PROVE  CountInv'
  <1>1. /\ request[r].session \in Session /\ request' = Done(r)
        /\ completed' = [completed EXCEPT ![request[r].session] = @ + 1]
        /\ UNCHANGED <<index, turnCount>>
    BY RequestType DEF FinishUntracked, stored
  <1>2. \A t \in Session : /\ completed[t] <= completed'[t]
                           /\ completed[t] \in Nat /\ completed'[t] \in Nat
    BY <1>1 DEF TypeOK
  <1>3. StoresCount'
    <2>1. ASSUME NEW u \in User, NEW t \in Session
          PROVE  turnCount[StoreOf[<<u, t>>]] <= completed'[t]
      <3>1. StoreOf[<<u, t>>] \in Store
        BY SessionAssumption
      <3>2. turnCount[StoreOf[<<u, t>>]] \in Nat
        BY <3>1 DEF TypeOK
      <3>3. turnCount[StoreOf[<<u, t>>]] <= completed[t]
        BY DEF CountInv, StoresCount
      <3> QED BY <1>2, <3>2, <3>3
    <2> QED BY <1>1, <2>1 DEF StoresCount
  <1>4. RequestsCount'
    <2>1. ASSUME NEW q \in Request, request'[q].pc # "idle"
          PROVE  request'[q].seen.count <= completed'[request'[q].session]
      <3>1. request'[q] = request[q]
        BY <1>1, <2>1 DEF Done, Idle, TypeOK
      <3>2. /\ request[q].session \in Session /\ request[q].seen.count \in Nat
            /\ request[q].seen.count <= completed[request[q].session]
        BY <2>1, <3>1, RequestType DEF CountInv, RequestsCount, Seen
      <3> QED BY <1>2, <3>1, <3>2
    <2> QED BY <2>1 DEF RequestsCount
  <1>5. CountIsOwn'
    <2>1. ASSUME NEW t \in Session, index[t] # None
          PROVE  index[t].count <= completed'[t]
      <3>1. index[t].count \in Nat /\ index[t].count <= completed[t]
        BY <2>1 DEF TypeOK, Row, CountInv, CountIsOwn
      <3> QED BY <1>2, <3>1
    <2> QED BY <1>1, <2>1 DEF CountIsOwn
  <1> QED BY <1>3, <1>4, <1>5 DEF CountInv

LEMMA RestartCount ==
    ASSUME TypeOK, CountInv, NEW i \in Instance, Restart(i)
    PROVE  CountInv'
  <1>1. UNCHANGED <<index, completed>> /\ \A q \in Request : request'[q] \in {Idle, request[q]}
    BY DEF Restart
  <1>2. RequestsCount'
    BY <1>1 DEF CountInv, RequestsCount, Idle
  <1>3. StoresCount'
    <2>1. CASE InMemory
      <3>1. turnCount' = [a \in Store |-> 0]
        BY <2>1 DEF Restart, Fresh
      <3>2. \A u \in User, s \in Session : StoreOf[<<u, s>>] \in Store /\ 0 <= completed[s]
        BY SessionAssumption DEF TypeOK
      <3> QED BY <1>1, <3>1, <3>2 DEF StoresCount
    <2>2. CASE ~ InMemory
      BY <1>1, <2>2 DEF Restart, stored, CountInv, StoresCount
    <2> QED BY <2>1, <2>2
  <1> QED BY <1>1, <1>2, <1>3, SameCount DEF CountInv

LEMMA CountInit == Init => CountInv
  <1> SUFFICES ASSUME Init PROVE CountInv
    OBVIOUS
  <1>1. \A u \in User, s \in Session : StoreOf[<<u, s>>] \in Store
    BY SessionAssumption
  <1>2. turnCount = [a \in Store |-> 0] /\ completed = [s \in Session |-> 0]
    BY DEF Init, Fresh
  <1>3. ASSUME NEW u \in User, NEW s \in Session
        PROVE  turnCount[StoreOf[<<u, s>>]] <= completed[s]
    <2>1. turnCount[StoreOf[<<u, s>>]] = 0 /\ completed[s] = 0
      BY <1>1, <1>2
    <2> QED BY <2>1
  <1> QED BY <1>3 DEF Init, CountInv, StoresCount, RequestsCount, CountIsOwn, Idle

LEMMA CountNext ==
    ASSUME TypeOK, CountInv, OwnStores, ~ Delegates, [Next]_vars
    PROVE  CountInv'
  <1>1. ASSUME NEW r \in Request, Step(r)
        PROVE  CountInv'
    BY <1>1, QuietCount, OpenCount, TrackWriteCount, FinishCount, UntrackedCount
    DEF Step, FinishSub
  <1>2. CASE UNCHANGED vars
    BY <1>2 DEF vars, stored, CountInv, StoresCount, RequestsCount, CountIsOwn
  <1> QED BY <1>1, <1>2, BeginCount, OwnerCount, RestartCount DEF Next

\* In a skill without sub-agents, whose sessions do not share their "app:" keys,
\* a row never counts more turns than its session has had (CountIsOwn), on any
\* number of instances, whichever Firestore calls fail, and through restarts.
THEOREM CountCorrect ==
    ASSUME OwnStores, ~ Delegates
    PROVE  Spec => []CountIsOwn
  <1>1. CountInv => CountIsOwn
    BY DEF CountInv
  <1> QED BY <1>1, CountInit, CountNext, TypeCorrect, PTL DEF Spec

-----------------------------------------------------------------------------
(* How far a row lags behind, where requests come one after another.       *)

\* One request at a time, of one user, and nothing fails or restarts.
Sequential ==
    /\ \A r, q \in Request : r = q
    /\ \A u, v \in User : u = v
    /\ Failing = {} /\ ~ MayRestart

\* Every turn at which a flush was due is counted in the row.
Flushed(row, n) == \A k \in Nat : row.count < k /\ k <= n => k % FlushInterval # 0

SessionFresh(u, s) ==
    LET a == StoreOf[<<u, s>>]
    IN  /\ ~ initialized[a] \/ index[s] = None => turnCount[a] = 0
        /\ completed[s] <= turnCount[a]
        /\ index[s] # None => Flushed(index[s], turnCount[a])

RequestFresh(r) ==
    LET q == request[r]
    IN  /\ q.pc \in {"ensure", "track", "bootstrap"} => q.found = (index[q.session] # None)
        /\ q.pc \in {"ready", "before", "track", "load", "model"} => index[q.session] # None
        /\ q.pc \in {"before", "track", "load", "model"} =>
              q.seen.count = turnCount[At(r)] /\ q.seen.initialized = initialized[At(r)]
        /\ q.pc \in {"load", "model"} => q.seen.initialized
        /\ q.pc = "track" => ~ q.seen.initialized
        /\ q.pc = "bootstrap" => ~ q.found

FreshInv ==
    /\ \A u \in User, s \in Session : SessionFresh(u, s)
    /\ \A r \in Request : RequestFresh(r)

LEMMA Multiple ==
    ASSUME NEW F \in Nat \ {0}, NEW q \in Int
    PROVE  (F * q) % F = 0
  <1>1. PICK r, d : r = (F * q) % F /\ d = (F * q) \div F
    OBVIOUS
  <1>2. r \in 0 .. F - 1 /\ d \in Int /\ F * q = F * d + r
    BY <1>1
  <1>3. r = F * (q - d)
    BY <1>2
  <1>4. CASE q - d >= 1
    <2>1. F * (q - d) >= F
      BY <1>2, <1>4
    <2> QED BY <1>2, <1>3, <2>1
  <1>5. CASE q - d <= -1
    <2>1. F * (q - d) <= -F
      BY <1>2, <1>5
    <2> QED BY <1>2, <1>3, <2>1
  <1>6. CASE q - d = 0
    BY <1>1, <1>2, <1>3, <1>6
  <1> QED BY <1>2, <1>4, <1>5, <1>6

\* Among as many numbers as an interval is long there is a multiple of it.
LEMMA NextMultiple ==
    ASSUME NEW c \in Nat, NEW F \in Nat \ {0}, NEW k, k = c + F - (c % F)
    PROVE  k \in c + 1 .. c + F /\ k % F = 0
  <1>1. c % F \in 0 .. F - 1 /\ c = F * (c \div F) + (c % F)
    OBVIOUS
  <1>2. PICK q \in Int : q = c \div F + 1
    OBVIOUS
  <1>3. k = F * q
    BY <1>1, <1>2
  <1>4. k % F = 0
    BY <1>3, Multiple
  <1> QED BY <1>1, <1>4

LEMMA FlushedFresh ==
    ASSUME NEW row \in Row, NEW n \in Nat, Flushed(row, n)
    PROVE  n - row.count < FlushInterval
  <1>1. row.count \in Nat /\ FlushInterval \in Nat \ {0}
    BY SessionAssumption DEF Row
  <1>2. PICK k : k = row.count + FlushInterval - (row.count % FlushInterval)
    OBVIOUS
  <1>3. k \in row.count + 1 .. row.count + FlushInterval /\ k % FlushInterval = 0
    BY <1>1, <1>2, NextMultiple
  <1> QED BY <1>1, <1>3 DEF Flushed

\* What writes that are not a count's or a creation's do to the rows.
CountsStay ==
    \A s \in Session : /\ index'[s] = None <=> index[s] = None
                       /\ index[s] # None => index'[s].count = index[s].count

LEMMA SessionsStayFresh ==
    ASSUME FreshInv, CountsStay, UNCHANGED <<initialized, turnCount, completed>>
    PROVE  \A u \in User, s \in Session : SessionFresh(u, s)'
  BY DEF FreshInv, SessionFresh, CountsStay, Flushed

LEMMA UnionStays ==
    ASSUME TypeOK, NEW s \in Session, NEW docs \in SUBSET Doc,
           index' = [index EXCEPT ![s] = UnionDocs(@, docs)]
    PROVE  CountsStay
  <1>1. index'[s] = UnionDocs(index[s], docs) /\ \A t \in Session \ {s} : index'[t] = index[t]
    BY DEF TypeOK
  <1>2. CASE index[s] = None
    BY <1>1, <1>2 DEF CountsStay, UnionDocs
  <1>3. CASE index[s] # None
    <2>1. index[s] \in Row
      BY <1>3 DEF TypeOK
    <2>2. index'[s] = [index[s] EXCEPT !.docs = @ \union docs]
      BY <1>1, <1>3 DEF UnionDocs
    <2>3. index'[s] \in Row /\ index'[s].count = index[s].count
      BY <2>1, <2>2 DEF Row
    <2>4. index'[s] # None
      BY <2>3, NoneAssumption
    <2> QED BY <1>1, <1>3, <2>3, <2>4 DEF CountsStay
  <1> QED BY <1>2, <1>3

\* A row made where there was none counts nothing, and there is nothing to count.
LEMMA CreateStays ==
    ASSUME TypeOK, FreshInv, NEW s \in Session, index[s] = None, NEW u \in User,
           NEW docs \in Seq(Doc), NEW access \in Access, CreateRow(s, u, docs, access),
           UNCHANGED <<initialized, turnCount, completed>>
    PROVE  index'[s] # None /\ \A v \in User, t \in Session : SessionFresh(v, t)'
  <1>1. PICK row : /\ row = [owner |-> u, docs |-> ToSet(docs), title |-> None, count |-> 0,
                             archived |-> FALSE, access |-> access]
                   /\ index' = [index EXCEPT ![s] = row]
    BY DEF CreateRow
  <1>2. index'[s] = row /\ row.count = 0 /\ \A t \in Session \ {s} : index'[t] = index[t]
    BY <1>1 DEF TypeOK
  <1>3. row # None
    <2>1. ToSet(docs) \in SUBSET Doc
      BY InheritedType
    <2>2. row \in Row
      BY <1>1, <2>1 DEF Row, Title
    <2> QED BY <2>2, NoneAssumption
  <1>4. ASSUME NEW v \in User PROVE SessionFresh(v, s)'
    <2>1. SessionFresh(v, s) /\ turnCount[StoreOf[<<v, s>>]] = 0
      BY DEF FreshInv, SessionFresh
    <2> QED BY <1>2, <1>3, <2>1 DEF SessionFresh, Flushed
  <1>5. ASSUME NEW v \in User, NEW t \in Session \ {s} PROVE SessionFresh(v, t)'
    BY <1>2 DEF FreshInv, SessionFresh, Flushed
  <1> QED BY <1>2, <1>3, <1>4, <1>5

\* The one request: nobody else is under way.
LEMMA OneRequest ==
    ASSUME Sequential, NEW r \in Request, RequestFresh(r)'
    PROVE  \A q \in Request : RequestFresh(q)'
  BY DEF Sequential

LEMMA OwnerFresh ==
    ASSUME TypeOK, FreshInv, Owner
    PROVE  FreshInv'
  <1>1. PICK u \in User, s \in Session : Patch(u, s) \/ Delete(u, s)
    BY DEF Owner
  <1>2. UNCHANGED <<stored, request, completed>> /\ index[s] \in Row
    BY <1>1 DEF Patch, Delete, TypeOK
  <1>3. CountsStay
    <2>1. PICK title \in Title, access \in Access, archived \in BOOLEAN :
             \/ index' = [index EXCEPT ![s].title = title, ![s].access = access,
                                      ![s].archived = archived]
             \/ index' = [index EXCEPT ![s].archived = archived]
      BY <1>1, <1>2 DEF Patch, Delete, Row, Title, Access
    <2>2. PICK row : /\ \/ row = [index[s] EXCEPT !.title = title, !.access = access,
                                                  !.archived = archived]
                        \/ row = [index[s] EXCEPT !.archived = archived]
                     /\ index'[s] = row /\ \A t \in Session \ {s} : index'[t] = index[t]
      BY <2>1 DEF TypeOK
    <2>3. row.count = index[s].count /\ row \in Row
      BY <1>2, <2>2 DEF Row
    <2> QED BY <1>2, <2>2, <2>3, NoneAssumption DEF CountsStay
  <1>4. \A v \in User, t \in Session : SessionFresh(v, t)'
    BY <1>2, <1>3, SessionsStayFresh DEF stored
  <1>5. ASSUME NEW r \in Request PROVE RequestFresh(r)'
    <2>1. request[r].pc # "idle" => request[r].session \in Session
      BY RequestType
    <2> QED BY <1>2, <1>3, <2>1 DEF FreshInv, RequestFresh, CountsStay, stored, At, Key
  <1> QED BY <1>4, <1>5 DEF FreshInv

LEMMA BeginFresh ==
    ASSUME TypeOK, FreshInv, Sequential, NEW r \in Request, NEW i \in Instance,
           NEW u \in User, NEW s \in Session, NEW docs \in Attachments,
           Begin(r, i, u, s, docs) \/ Bootstrap(r, i, u, s, docs)
    PROVE  FreshInv'
  <1>1. UNCHANGED <<index, stored, completed>>
    BY DEF Begin, Bootstrap
  <1>2. PICK pc \in {"ensure", "bootstrap"} :
           request' = [request EXCEPT ![r] = NewRequest(pc, i, u, s, docs)]
    BY DEF Begin, Bootstrap, Sequential
  <1>3. /\ request'[r].pc \in {"ensure", "bootstrap"} /\ request'[r].session = s
        /\ request'[r].found = (index[s] # None)
        /\ request'[r].pc = "bootstrap" => index[s] = None
    BY <1>2 DEF TypeOK, NewRequest, Begin, Bootstrap
  <1>4. RequestFresh(r)'
    BY <1>1, <1>3 DEF RequestFresh
  <1>5. \A v \in User, t \in Session : SessionFresh(v, t)'
    BY <1>1 DEF FreshInv, SessionFresh, stored
  <1> QED BY <1>4, <1>5, OneRequest DEF FreshInv

\* A request that goes on with what it saw.
LEMMA GoesOnFresh ==
    ASSUME NEW r \in Request, RequestFresh(r), UNCHANGED <<initialized, turnCount>>,
           request'[r].session = request[r].session, request'[r].user = request[r].user,
           request'[r].seen = request[r].seen,
           index'[request[r].session] # None,
           \/ request'[r].pc = "ready"
           \/ request[r].pc \in {"before", "load"} /\ request'[r].pc \in {"load", "model"}
              /\ request[r].seen.initialized
    PROVE  RequestFresh(r)'
  BY DEF RequestFresh, At, Key

LEMMA EnsureFresh ==
    ASSUME TypeOK, FreshInv, Sequential, NEW r \in Request, Ensure(r)
    PROVE  FreshInv'
  <1>1. request[r].pc # "idle" /\ request[r] \in Active /\ UNCHANGED <<stored, completed>>
    BY ActiveRequest DEF Ensure
  <1> DEFINE s == request[r].session
             docs == request[r].docs
  <1>2. /\ s \in Session /\ docs \in Seq(Doc) /\ ToSet(docs) \in SUBSET Doc
        /\ request[r].found = (index[s] # None) /\ request[r].user \in User
        /\ Derived(docs) \subseteq Access
    BY <1>1, RequestType, InheritedType DEF Ensure, FreshInv, RequestFresh
  <1>3. index'[s] # None /\ \A u \in User, t \in Session : SessionFresh(u, t)'
    <2>1. CASE ~ request[r].found
      <3>1. PICK access \in Derived(docs) : CreateRow(s, request[r].user, docs, access)
        BY <2>1 DEF Ensure, Sequential
      <3> HIDE DEF s, docs
      <3> QED BY <1>1, <1>2, <2>1, <3>1, CreateStays DEF stored
    <2>2. CASE request[r].found
      <3>1. index' = [index EXCEPT ![s] = UnionDocs(@, ToSet(docs))]
        BY <2>2 DEF Ensure, Sequential
      <3>2. CountsStay
        BY <1>2, <3>1, UnionStays
      <3>3. index'[s] # None
        BY <1>2, <2>2, <3>2 DEF CountsStay
      <3> QED BY <1>1, <3>2, <3>3, SessionsStayFresh DEF stored
    <2> QED BY <2>1, <2>2
  <1>4. /\ request'[r].session = s /\ request'[r].user = request[r].user
        /\ request'[r].seen = request[r].seen /\ request'[r].pc = "ready"
    BY <1>1 DEF Ensure, Goto, TypeOK, Active
  <1>5. RequestFresh(r)'
    BY <1>1, <1>3, <1>4, GoesOnFresh DEF FreshInv, stored
  <1> QED BY <1>3, <1>5, OneRequest DEF FreshInv

LEMMA OpenFresh ==
    ASSUME TypeOK, FreshInv, Sequential, NEW r \in Request, Open(r)
    PROVE  FreshInv'
  <1>1. /\ request[r].pc = "ready" /\ request[r] \in Active
        /\ UNCHANGED <<index, initialized, turnCount, completed>>
    BY ActiveRequest DEF Open
  <1>2. /\ request'[r].pc = "before" /\ request'[r].session = request[r].session
        /\ request'[r].user = request[r].user
        /\ request'[r].seen.count = turnCount[At(r)]
        /\ request'[r].seen.initialized = initialized[At(r)]
    BY <1>1 DEF Open, TypeOK, Active
  <1>3. RequestFresh(r)'
    BY <1>1, <1>2 DEF FreshInv, RequestFresh, At, Key
  <1>4. \A u \in User, s \in Session : SessionFresh(u, s)'
    BY <1>1 DEF FreshInv, SessionFresh
  <1> QED BY <1>3, <1>4, OneRequest DEF FreshInv

LEMMA TrackFresh ==
    ASSUME TypeOK, FreshInv, Sequential, NEW r \in Request, Track(r)
    PROVE  FreshInv'
  <1>1. /\ request[r].pc = "before" /\ request[r] \in Active
        /\ UNCHANGED <<index, stored, completed>>
    BY ActiveRequest DEF Track
  <1>2. /\ request'[r].session = request[r].session /\ request'[r].user = request[r].user
        /\ request'[r].seen = request[r].seen
        /\ \/ request'[r].pc = "load" /\ request[r].seen.initialized
           \/ request'[r].pc = "track" /\ ~ request[r].seen.initialized
              /\ request'[r].found = (index[request[r].session] # None)
    <2>1. CASE request[r].seen.initialized
      BY <1>1, <2>1 DEF Track, Goto, TypeOK, Active
    <2>2. CASE ~ request[r].seen.initialized
      <3>1. PICK found \in {index[request[r].session] # None} :
               request' = [request EXCEPT ![r].pc = "track", ![r].found = found]
        BY <2>2 DEF Track, Sequential
      <3>2. /\ request'[r].session = request[r].session /\ request'[r].user = request[r].user
            /\ request'[r].seen = request[r].seen /\ request'[r].pc = "track"
            /\ request'[r].found = found
        BY <1>1, <3>1 DEF TypeOK, Active
      <3> QED BY <2>2, <3>2
    <2> QED BY <2>1, <2>2
  <1>3. RequestFresh(r)'
    BY <1>1, <1>2 DEF FreshInv, RequestFresh, At, Key, stored
  <1>4. \A u \in User, s \in Session : SessionFresh(u, s)'
    BY <1>1 DEF FreshInv, SessionFresh, stored
  <1> QED BY <1>3, <1>4, OneRequest DEF FreshInv

LEMMA TrackWriteFresh ==
    ASSUME TypeOK, FreshInv, Sequential, NEW r \in Request, TrackWrite(r)
    PROVE  FreshInv'
  <1> DEFINE a == At(r)
             s == request[r].session
  <1>1. /\ request[r].pc = "track" /\ request[r] \in Active /\ request[r].user \in User
        /\ s \in Session /\ a \in Store /\ a = StoreOf[<<request[r].user, s>>]
    BY ActiveRequest, RequestType DEF TrackWrite, At, Key
  <1>2. /\ request[r].found /\ index[s] # None
        /\ request[r].seen.count = turnCount[a] /\ request[r].seen.initialized = initialized[a]
    BY <1>1 DEF FreshInv, RequestFresh
  <1>3. Initialize(r) /\ UNCHANGED <<index, completed>>
    BY <1>2 DEF TrackWrite
  <1>4. ~ initialized[a] /\ turnCount[a] = 0
    BY <1>1, <1>2 DEF FreshInv, RequestFresh, SessionFresh
  <1>5. /\ turnCount' = turnCount /\ initialized' = [initialized EXCEPT ![a] = TRUE]
        /\ request' = [request EXCEPT ![r].pc = "load", ![r].seen.initialized = TRUE,
                                      ![r].seen.count = 0]
    BY <1>1, <1>3, <1>4 DEF Initialize, TypeOK
  <1>6. /\ request'[r].session = s /\ request'[r].user = request[r].user /\ request'[r].pc = "load"
        /\ request'[r].seen.count = 0 /\ request'[r].seen.initialized = TRUE
    BY <1>1, <1>5 DEF TypeOK, Active, Seen
  <1>7. RequestFresh(r)'
    BY <1>1, <1>2, <1>3, <1>4, <1>5, <1>6 DEF RequestFresh, TypeOK, At, Key
  <1>8. ASSUME NEW u \in User, NEW t \in Session PROVE SessionFresh(u, t)'
    <2>1. StoreOf[<<u, t>>] \in Store /\ SessionFresh(u, t)
      BY SessionAssumption DEF FreshInv
    <2>2. initialized'[StoreOf[<<u, t>>]] \/ initialized'[StoreOf[<<u, t>>]] = initialized[StoreOf[<<u, t>>]]
      BY <1>1, <1>5, <2>1 DEF TypeOK
    <2> QED BY <1>3, <1>5, <2>1, <2>2 DEF SessionFresh
  <1> QED BY <1>7, <1>8, OneRequest DEF FreshInv

LEMMA LoadFresh ==
    ASSUME TypeOK, FreshInv, Sequential, NEW r \in Request, Load(r)
    PROVE  FreshInv'
  <1>1. /\ request[r].pc = "load" /\ request[r] \in Active /\ request[r].session \in Session
        /\ UNCHANGED <<stored, completed>> /\ request[r].seen.docs \in Seq(Doc)
    BY ActiveRequest DEF Load, Active, Seen
  <1>2. CountsStay
    <2>1. PICK loaded \in SUBSET ToSet(request[r].seen.docs) :
             index' = [index EXCEPT ![request[r].session] = UnionDocs(@, loaded)]
      BY DEF Load, Sequential
    <2>2. loaded \in SUBSET Doc
      BY <1>1, InheritedType
    <2> QED BY <1>1, <2>1, <2>2, UnionStays
  <1>3. /\ request'[r].session = request[r].session /\ request'[r].user = request[r].user
        /\ request'[r].seen = request[r].seen /\ request'[r].pc = "model"
    BY <1>1 DEF Load, Goto, TypeOK, Active
  <1>4. index'[request[r].session] # None /\ request[r].seen.initialized
    BY <1>1, <1>2 DEF FreshInv, RequestFresh, CountsStay
  <1>5. RequestFresh(r)'
    BY <1>1, <1>3, <1>4, GoesOnFresh DEF FreshInv, stored
  <1> QED BY <1>1, <1>2, <1>5, SessionsStayFresh, OneRequest DEF FreshInv, stored

\* An after-agent callback counts one more, in the row too where a flush is due.
LEMMA CallbackFresh ==
    ASSUME TypeOK, FreshInv, Sequential, OwnStores, NEW r \in Request, request[r].pc = "model",
           AfterAgent(r), NEW more \in {0, 1},
           completed' = [completed EXCEPT ![request[r].session] = @ + more]
    PROVE  /\ \A u \in User, t \in Session : SessionFresh(u, t)'
           /\ index'[request[r].session] # None /\ UNCHANGED initialized
           /\ turnCount'[At(r)] = request[r].seen.count + 1 /\ initialized[At(r)]
  <1>0. PICK a, s, D : a = At(r) /\ s = request[r].session /\ D = ToSet(request[r].seen.docs)
    OBVIOUS
  <1>1. /\ request[r] \in Active /\ s \in Session /\ a \in Store
        /\ a = StoreOf[<<request[r].user, s>>] /\ request[r].user \in User /\ D \in SUBSET Doc
    BY <1>0, ActiveRequest, RequestType, InheritedType DEF At, Key, Seen
  <1>2. /\ index[s] # None /\ index[s] \in Row
        /\ request[r].seen.count = turnCount[a] /\ initialized[a]
    BY <1>0, <1>1 DEF FreshInv, RequestFresh, TypeOK
  <1>3. PICK n : n = turnCount[a] + 1
    OBVIOUS
  <1>4. /\ n \in Nat /\ turnCount' = [turnCount EXCEPT ![a] = n] /\ initialized' = initialized
    BY <1>0, <1>1, <1>2, <1>3 DEF AfterAgent, TypeOK
  <1>5. PICK row : /\ row \in Row /\ index' = [index EXCEPT ![s] = row]
                   /\ row.count \in {index[s].count, n}
                   /\ n % FlushInterval = 0 => row.count = n
    <2>1. CASE Flushes(n, request[r].seen.titleSet)
      <3>1. PICK title \in {None, "auto"} :
               index' = [index EXCEPT ![s] = UnionDocs(Titled(Counted(index[s], n), title), D)]
        BY <1>0, <1>1, <1>2, <1>3, <2>1 DEF AfterAgent, Sequential, TypeOK
      <3>2. Titled(Counted(index[s], n), title) \in Row
            /\ Titled(Counted(index[s], n), title).count = n
        <4>1. PICK row : row = Counted(index[s], n)
          OBVIOUS
        <4>2. row \in Row /\ row.count = n
          BY <1>2, <1>4, <4>1 DEF Counted, Row
        <4>3. CASE title = None
          BY <4>1, <4>2, <4>3 DEF Titled
        <4>4. CASE title = "auto" /\ title # None
          BY <4>1, <4>2, <4>4, NoneAssumption DEF Titled, Row, Title
        <4> QED BY <4>3, <4>4
      <3>3. PICK row : row = Titled(Counted(index[s], n), title)
        OBVIOUS
      <3>4. PICK new : new = UnionDocs(row, D)
        OBVIOUS
      <3>5. new \in Row /\ new.count = n
        BY <1>1, <3>2, <3>3, <3>4, NoneAssumption DEF UnionDocs, Row
      <3>6. index' = [index EXCEPT ![s] = new]
        BY <3>1, <3>3, <3>4
      <3> QED BY <3>5, <3>6
    <2>2. CASE ~ Flushes(n, request[r].seen.titleSet)
      <3>1. index' = index /\ n % FlushInterval # 0
        BY <1>0, <1>2, <1>3, <2>2 DEF AfterAgent, Flushes
      <3>2. index' = [index EXCEPT ![s] = index[s]]
        BY <3>1 DEF TypeOK
      <3> QED BY <1>2, <3>1, <3>2
    <2> QED BY <2>1, <2>2
  <1>6. index'[s] = row /\ row # None /\ turnCount'[a] = n
    BY <1>1, <1>4, <1>5, NoneAssumption DEF TypeOK
  <1>7. ASSUME NEW u \in User PROVE SessionFresh(u, s)'
    <2>1. StoreOf[<<u, s>>] = a
      BY <1>1 DEF Sequential
    <2>2. SessionFresh(u, s)
      BY <1>1 DEF FreshInv
    <2>3. completed'[s] <= n
      BY <1>0, <1>1, <1>3, <1>4, <2>1, <2>2 DEF SessionFresh, TypeOK
    <2>4. Flushed(row, n)
      <3> SUFFICES ASSUME NEW k \in Nat, row.count < k, k <= n
                   PROVE  k % FlushInterval # 0
        BY DEF Flushed
      <3>1. CASE k = n
        BY <3>1, <1>5
      <3>2. CASE k # n
        <4>1. k <= turnCount[a] /\ row.count # n /\ turnCount[a] \in Nat
          BY <3>2, <1>1, <1>3, <1>4 DEF TypeOK
        <4> QED BY <4>1, <1>2, <1>5, <2>1, <2>2 DEF SessionFresh, Flushed
      <3> QED BY <3>1, <3>2
    <2>5. initialized'[a] /\ turnCount'[StoreOf[<<u, s>>]] = n /\ initialized'[StoreOf[<<u, s>>]]
      BY <1>2, <1>4, <1>6, <2>1
    <2> QED BY <1>6, <2>3, <2>4, <2>5 DEF SessionFresh, Flushed
  <1>8. ASSUME NEW u \in User, NEW t \in Session \ {s} PROVE SessionFresh(u, t)'
    <2>1. StoreOf[<<u, t>>] \in Store /\ StoreOf[<<u, t>>] # a
      BY <1>1, SessionAssumption DEF OwnStores
    <2>2. /\ index'[t] = index[t] /\ completed'[t] = completed[t]
          /\ turnCount'[StoreOf[<<u, t>>]] = turnCount[StoreOf[<<u, t>>]]
      BY <1>0, <1>1, <1>4, <1>5, <2>1 DEF TypeOK
    <2>3. SessionFresh(u, t)
      BY DEF FreshInv
    <2> QED BY <1>4, <2>2, <2>3 DEF SessionFresh, Flushed
  <1>9. \A u \in User, t \in Session : SessionFresh(u, t)'
    BY <1>7, <1>8
  <1> QED BY <1>0, <1>2, <1>3, <1>4, <1>6, <1>9

LEMMA FinishFresh ==
    ASSUME TypeOK, FreshInv, Sequential, OwnStores, NEW r \in Request,
           FinishUntracked(r) \/ FinishSub(r) \/ Finish(r)
    PROVE  FreshInv'
  <1>1. request[r].pc = "model" /\ request[r] \in Active /\ At(r) \in Store /\ Key(r) \in User \X Session
    BY ActiveRequest, RequestType DEF FinishUntracked, FinishSub, Finish
  <1>2. ~ FinishUntracked(r)
    BY <1>1 DEF FinishUntracked, FreshInv, RequestFresh
  <1>3. CASE Finish(r)
    <2>1. AfterAgent(r) /\ completed' = [completed EXCEPT ![request[r].session] = @ + 1]
      BY <1>3 DEF Finish
    <2>2. \A u \in User, t \in Session : SessionFresh(u, t)'
      BY <1>1, <2>1, CallbackFresh
    <2>3. request'[r] = Idle
      BY <1>3 DEF Finish, Done, TypeOK
    <2>4. RequestFresh(r)'
      BY <2>3 DEF RequestFresh, Idle
    <2> QED BY <2>2, <2>4, OneRequest DEF FreshInv
  <1>4. CASE FinishSub(r)
    <2>1. AfterAgent(r) /\ completed' = [completed EXCEPT ![request[r].session] = @ + 0]
      BY <1>1, <1>4, RequestType DEF FinishSub, TypeOK
    <2>2. /\ \A u \in User, t \in Session : SessionFresh(u, t)'
          /\ index'[request[r].session] # None /\ UNCHANGED initialized
          /\ turnCount'[At(r)] = request[r].seen.count + 1 /\ initialized[At(r)]
      BY <1>1, <2>1, CallbackFresh
    <2>3. PICK count, titled : count = turnCount'[At(r)] /\ titled = titleSet'[Key(r)]
      OBVIOUS
    <2>4. request' = [request EXCEPT ![r].delegated = TRUE, ![r].seen.count = count,
                                     ![r].seen.titleSet = titled]
      BY <1>4, <2>3 DEF FinishSub
    <2>5. /\ request'[r].pc = "model" /\ request'[r].session = request[r].session
          /\ request'[r].user = request[r].user /\ request'[r].seen.count = count
          /\ request'[r].seen.initialized = request[r].seen.initialized
      BY <1>1, <2>4 DEF TypeOK, Active, Seen
    <2>6. RequestFresh(r)'
      BY <1>1, <2>2, <2>3, <2>5 DEF FreshInv, RequestFresh, At, Key
    <2> QED BY <2>2, <2>6, OneRequest DEF FreshInv
  <1> QED BY <1>2, <1>3, <1>4

LEMMA LeaveFresh ==
    ASSUME TypeOK, FreshInv, Sequential, NEW r \in Request, Abort(r) \/ BootstrapWrite(r)
    PROVE  FreshInv'
  <1>1. request[r].pc # "idle" /\ UNCHANGED <<stored, completed>> /\ request' = Done(r)
    BY DEF Abort, BootstrapWrite
  <1>2. request'[r] = Idle
    BY <1>1 DEF Done, TypeOK
  <1>3. RequestFresh(r)'
    BY <1>2 DEF RequestFresh, Idle
  <1>4. \A u \in User, t \in Session : SessionFresh(u, t)'
    <2>1. CASE Abort(r)
      BY <1>1, <2>1 DEF Abort, FreshInv, SessionFresh, stored
    <2>2. CASE BootstrapWrite(r)
      <3>1. CreateRow(request[r].session, request[r].user, request[r].docs, "private")
        BY <2>2 DEF BootstrapWrite, Sequential
      <3>2. request[r].pc = "bootstrap" /\ index[request[r].session] = None
        BY <2>2 DEF BootstrapWrite, FreshInv, RequestFresh
      <3>3. /\ request[r].session \in Session /\ request[r].user \in User
            /\ request[r].docs \in Seq(Doc) /\ "private" \in Access
        BY <1>1, RequestType DEF Access
      <3> QED BY <1>1, <3>1, <3>2, <3>3, CreateStays DEF stored
    <2> QED BY <2>1, <2>2
  <1> QED BY <1>3, <1>4, OneRequest DEF FreshInv

LEMMA FreshInit == Init => FreshInv
  <1> SUFFICES ASSUME Init PROVE FreshInv
    OBVIOUS
  <1>1. \A u \in User, s \in Session : StoreOf[<<u, s>>] \in Store
    BY SessionAssumption
  <1>2. /\ turnCount = [a \in Store |-> 0] /\ completed = [s \in Session |-> 0]
        /\ index = [s \in Session |-> None] /\ request = [r \in Request |-> Idle]
    BY DEF Init, Fresh
  <1>3. ASSUME NEW u \in User, NEW s \in Session PROVE SessionFresh(u, s)
    <2>1. turnCount[StoreOf[<<u, s>>]] = 0 /\ completed[s] = 0 /\ index[s] = None
      BY <1>1, <1>2
    <2> QED BY <2>1 DEF SessionFresh
  <1>4. \A r \in Request : RequestFresh(r)
    BY <1>2 DEF RequestFresh, Idle
  <1> QED BY <1>3, <1>4 DEF FreshInv

LEMMA FreshNext ==
    ASSUME TypeOK, FreshInv, OwnStores, Sequential, [Next]_vars
    PROVE  FreshInv'
  <1>1. ASSUME NEW r \in Request, Step(r)
        PROVE  FreshInv'
    BY <1>1, EnsureFresh, OpenFresh, TrackFresh, TrackWriteFresh, LoadFresh, FinishFresh, LeaveFresh
    DEF Step
  <1>2. CASE UNCHANGED vars
    BY <1>2 DEF vars, stored, FreshInv, SessionFresh, RequestFresh, Flushed, At, Key
  <1>3. \A i \in Instance : ~ Restart(i)
    BY DEF Restart, Sequential
  <1> QED BY <1>1, <1>2, <1>3, BeginFresh, OwnerFresh DEF Next

\* Where a user's requests come one at a time and nothing fails, with or without
\* sub-agents, for any flush interval and any number of sessions and turns: a row lags
\* behind its session by less than an interval (adk/callbacks.py, _TURN_FLUSH_INTERVAL).
THEOREM FreshCorrect ==
    ASSUME OwnStores, Sequential
    PROVE  Spec => []CountFresh
  <1>1. TypeOK /\ FreshInv => CountFresh
    <2> SUFFICES ASSUME TypeOK, FreshInv, NEW s \in Session, index[s] # None
                 PROVE  completed[s] - index[s].count < FlushInterval
      BY DEF CountFresh
    <2>1. PICK u \in User : TRUE
      BY DEF TypeOK, Row
    <2>2. SessionFresh(u, s) /\ StoreOf[<<u, s>>] \in Store /\ index[s] \in Row
      BY SessionAssumption DEF FreshInv, TypeOK
    <2>3. turnCount[StoreOf[<<u, s>>]] - index[s].count < FlushInterval
      BY <2>2, FlushedFresh DEF SessionFresh, TypeOK
    <2>4. /\ completed[s] <= turnCount[StoreOf[<<u, s>>]] /\ completed[s] \in Nat
          /\ turnCount[StoreOf[<<u, s>>]] \in Nat /\ index[s].count \in Nat
          /\ FlushInterval \in Nat
      BY <2>2, SessionAssumption DEF SessionFresh, TypeOK, Row
    <2> QED BY <2>3, <2>4
  <1> QED BY <1>1, FreshInit, FreshNext, TypeCorrect, PTL DEF Spec

-----------------------------------------------------------------------------
(* A title its owner gives.                                                *)

\* There is a generated title from the second turn on, and a run knows whether there is.
TitleInv ==
    /\ \A k \in User \X Session : titleSet[k] => turnCount[StoreOf[k]] >= 2
    /\ \A r \in Request : request[r].pc \in {"before", "track", "load", "model"} =>
          request[r].seen.titleSet = titleSet[Key(r)]

TitlesStay ==
    \A s \in Session :
       index[s] # None /\ index[s].title = "user" /\ titleSet[<<index[s].owner, s>>]
       => index'[s].title = "user"

\* The rest of a request is still of the same session and has seen the same title.
SameRun(r) ==
    /\ request'[r].session = request[r].session /\ request'[r].user = request[r].user
    /\ request'[r].seen.titleSet = request[r].seen.titleSet

LEMMA GoesOnTitled ==
    ASSUME TitleInv, Sequential, NEW r \in Request, UNCHANGED <<turnCount, titleSet>>,
           \/ request'[r].pc \notin {"before", "track", "load", "model"}
           \/ request[r].pc \in {"before", "track", "load", "model"} /\ SameRun(r)
    PROVE  TitleInv'
  <1>1. request'[r].pc \in {"before", "track", "load", "model"} =>
           request'[r].seen.titleSet = titleSet'[Key(r)']
    BY DEF TitleInv, SameRun, Key
  <1>2. \A q \in Request : q = r
    BY DEF Sequential
  <1>3. \A q \in Request : request'[q].pc \in {"before", "track", "load", "model"} =>
           request'[q].seen.titleSet = titleSet'[Key(q)']
    BY <1>1, <1>2
  <1> QED BY <1>3 DEF TitleInv

LEMMA UnionTitles ==
    ASSUME TypeOK, NEW s \in Session, NEW docs \in SUBSET Doc,
           index' = [index EXCEPT ![s] = UnionDocs(@, docs)]
    PROVE  TitlesStay
  <1>1. \A t \in Session : index[t] # None => index[t] \in Row
    BY DEF TypeOK
  <1>2. ASSUME NEW t \in Session, index[t] # None PROVE index'[t].title = index[t].title
    <2>1. PICK row : row = UnionDocs(index[s], docs) /\ index'[s] = row
      BY DEF TypeOK
    <2>2. CASE t = s
      BY <1>1, <1>2, <2>1, <2>2 DEF UnionDocs, Row
    <2>3. CASE t # s
      BY <2>3 DEF TypeOK
    <2> QED BY <2>2, <2>3
  <1> QED BY <1>2 DEF TitlesStay

\* A row is only made where there is none.
LEMMA CreateTitles ==
    ASSUME TypeOK, NEW s \in Session, index[s] = None, NEW row, index' = [index EXCEPT ![s] = row]
    PROVE  TitlesStay
  BY DEF TypeOK, TitlesStay

LEMMA OwnerTitled ==
    ASSUME TypeOK, TitleInv, Owner
    PROVE  TitleInv' /\ TitlesStay
  <1>1. PICK u \in User, s \in Session : Patch(u, s) \/ Delete(u, s)
    BY DEF Owner
  <1>2. UNCHANGED <<stored, request, completed>> /\ index[s] \in Row
    BY <1>1 DEF Patch, Delete, TypeOK
  <1>3. TitleInv'
    BY <1>2 DEF TitleInv, stored, Key
  <1>4. PICK row : /\ row.title \in {index[s].title, "user"}
                   /\ index'[s] = row /\ \A t \in Session \ {s} : index'[t] = index[t]
    <2>1. CASE Patch(u, s)
      <3>1. PICK title \in {index[s].title, "user"}, access \in {index[s].access, "custom"},
                 archived \in BOOLEAN :
               index' = [index EXCEPT ![s].title = title, ![s].access = access,
                                      ![s].archived = archived]
        BY <2>1 DEF Patch
      <3>2. PICK row : row = [index[s] EXCEPT !.title = title, !.access = access, !.archived = archived]
        OBVIOUS
      <3>3. row.title = title
        BY <1>2, <3>2 DEF Row
      <3>4. index'[s] = row /\ \A t \in Session \ {s} : index'[t] = index[t]
        BY <3>1, <3>2 DEF TypeOK
      <3> QED BY <3>3, <3>4
    <2>2. CASE Delete(u, s)
      <3>1. PICK row : row = [index[s] EXCEPT !.archived = TRUE]
        OBVIOUS
      <3>2. row.title = index[s].title
        BY <1>2, <3>1 DEF Row
      <3>3. index'[s] = row /\ \A t \in Session \ {s} : index'[t] = index[t]
        BY <2>2, <3>1 DEF Delete, TypeOK
      <3> QED BY <3>2, <3>3
    <2> QED BY <1>1, <2>1, <2>2
  <1>5. TitlesStay
    BY <1>4 DEF TitlesStay
  <1> QED BY <1>3, <1>5

LEMMA BeginTitled ==
    ASSUME TypeOK, TitleInv, Sequential, NEW r \in Request, NEW i \in Instance,
           NEW u \in User, NEW s \in Session, NEW docs \in Attachments,
           Begin(r, i, u, s, docs) \/ Bootstrap(r, i, u, s, docs)
    PROVE  TitleInv' /\ TitlesStay
  <1>1. UNCHANGED <<index, stored, completed>>
    BY DEF Begin, Bootstrap
  <1>2. PICK pc \in {"ensure", "bootstrap"} :
           request' = [request EXCEPT ![r] = NewRequest(pc, i, u, s, docs)]
    BY DEF Begin, Bootstrap, Sequential
  <1>3. request'[r].pc \in {"ensure", "bootstrap"}
    BY <1>2 DEF TypeOK, NewRequest
  <1>4. TitleInv'
    BY <1>1, <1>3, GoesOnTitled DEF stored
  <1> QED BY <1>1, <1>4 DEF TitlesStay

LEMMA EnsureTitled ==
    ASSUME TypeOK, FreshInv, TitleInv, Sequential, NEW r \in Request, Ensure(r)
    PROVE  TitleInv' /\ TitlesStay
  <1>1. /\ request[r] \in Active /\ UNCHANGED stored /\ request[r].session \in Session
        /\ ToSet(request[r].docs) \in SUBSET Doc
        /\ request[r].found = (index[request[r].session] # None)
    BY ActiveRequest, RequestType, InheritedType DEF Ensure, FreshInv, RequestFresh
  <1>2. request'[r].pc = "ready"
    BY <1>1 DEF Ensure, Goto, TypeOK, Active
  <1>3. TitleInv'
    BY <1>1, <1>2, GoesOnTitled DEF stored
  <1>4. TitlesStay
    <2>1. CASE request[r].found
      <3>1. index' = [index EXCEPT ![request[r].session] = UnionDocs(@, ToSet(request[r].docs))]
        BY <2>1 DEF Ensure, Sequential
      <3> QED BY <1>1, <3>1, UnionTitles
    <2>2. CASE ~ request[r].found
      <3>1. PICK row : index' = [index EXCEPT ![request[r].session] = row]
        BY <2>2 DEF Ensure, Sequential, CreateRow
      <3> QED BY <1>1, <2>2, <3>1, CreateTitles
    <2> QED BY <2>1, <2>2
  <1> QED BY <1>3, <1>4

LEMMA OpenTitled ==
    ASSUME TypeOK, TitleInv, Sequential, NEW r \in Request, Open(r)
    PROVE  TitleInv' /\ TitlesStay
  <1>1. request[r] \in Active /\ UNCHANGED <<index, turnCount, titleSet>>
    BY ActiveRequest DEF Open
  <1>2. /\ request'[r].session = request[r].session /\ request'[r].user = request[r].user
        /\ request'[r].seen.titleSet = titleSet[Key(r)]
    BY <1>1 DEF Open, TypeOK, Active
  <1>3. \A q \in Request : q = r
    BY DEF Sequential
  <1>4. \A q \in Request : request'[q].seen.titleSet = titleSet'[Key(q)']
    BY <1>1, <1>2, <1>3 DEF Key
  <1>5. TitleInv'
    BY <1>1, <1>4 DEF TitleInv
  <1> QED BY <1>1, <1>5 DEF TitlesStay

LEMMA TrackTitled ==
    ASSUME TypeOK, TitleInv, Sequential, NEW r \in Request, Track(r)
    PROVE  TitleInv' /\ TitlesStay
  <1>1. /\ request[r].pc = "before" /\ request[r] \in Active /\ UNCHANGED <<index, stored>>
    BY ActiveRequest DEF Track
  <1>2. SameRun(r)
    <2>1. CASE request' = Goto(r, "load")
      BY <1>1, <2>1 DEF Goto, TypeOK, Active, SameRun
    <2>2. CASE \E found \in BOOLEAN : request' = [request EXCEPT ![r].pc = "track", ![r].found = found]
      BY <1>1, <2>2 DEF TypeOK, Active, SameRun
    <2> QED BY <2>1, <2>2 DEF Track
  <1>3. TitleInv'
    BY <1>1, <1>2, GoesOnTitled DEF stored
  <1> QED BY <1>1, <1>3 DEF TitlesStay

LEMMA TrackWriteTitled ==
    ASSUME TypeOK, FreshInv, TitleInv, Sequential, NEW r \in Request, TrackWrite(r)
    PROVE  TitleInv' /\ TitlesStay
  <1>1. /\ request[r].pc = "track" /\ request[r] \in Active /\ request[r].seen \in Seen
        /\ request[r].user \in User /\ request[r].session \in Session
        /\ At(r) \in Store /\ At(r) = StoreOf[<<request[r].user, request[r].session>>]
    BY ActiveRequest, RequestType DEF TrackWrite, At, Key
  <1>2. /\ request[r].found /\ ~ request[r].seen.initialized
        /\ request[r].seen.initialized = initialized[At(r)]
    BY <1>1 DEF FreshInv, RequestFresh
  <1>3. Initialize(r) /\ UNCHANGED <<index, titleSet>>
    BY <1>2 DEF TrackWrite
  <1>4. turnCount[At(r)] = 0
    BY <1>1, <1>2 DEF FreshInv, SessionFresh
  <1>5. turnCount' = turnCount
    BY <1>1, <1>3, <1>4 DEF Initialize, TypeOK
  <1>6. SameRun(r)
    BY <1>1, <1>3 DEF Initialize, TypeOK, Active, Seen, SameRun
  <1>7. TitleInv'
    BY <1>1, <1>3, <1>5, <1>6, GoesOnTitled
  <1> QED BY <1>3, <1>7 DEF TitlesStay

LEMMA LoadTitled ==
    ASSUME TypeOK, TitleInv, Sequential, NEW r \in Request, Load(r)
    PROVE  TitleInv' /\ TitlesStay
  <1>1. /\ request[r].pc = "load" /\ request[r] \in Active /\ request[r].session \in Session
        /\ UNCHANGED stored /\ request[r].seen.docs \in Seq(Doc)
    BY ActiveRequest DEF Load, Active, Seen
  <1>2. PICK loaded \in SUBSET ToSet(request[r].seen.docs) :
           index' = [index EXCEPT ![request[r].session] = UnionDocs(@, loaded)]
    BY DEF Load, Sequential
  <1>3. loaded \in SUBSET Doc
    BY <1>1, InheritedType
  <1>4. SameRun(r)
    BY <1>1 DEF Load, Goto, TypeOK, Active, SameRun
  <1> QED BY <1>1, <1>2, <1>3, <1>4, UnionTitles, GoesOnTitled DEF stored

\* The callback gives a title on the second turn, or later where there is none.
LEMMA CallbackTitled ==
    ASSUME TypeOK, FreshInv, TitleInv, Sequential, OwnStores, NEW r \in Request,
           request[r].pc = "model", AfterAgent(r)
    PROVE  /\ \A k \in User \X Session : titleSet'[k] => turnCount'[StoreOf[k]] >= 2
           /\ TitlesStay
  <1>1. /\ request[r] \in Active /\ request[r].session \in Session /\ request[r].user \in User
        /\ Key(r) = <<request[r].user, request[r].session>> /\ Key(r) \in User \X Session
        /\ At(r) = StoreOf[Key(r)] /\ At(r) \in Store
        /\ ToSet(request[r].seen.docs) \in SUBSET Doc
    BY ActiveRequest, RequestType, InheritedType DEF At, Key, Seen
  <1>2. PICK n, isSet : n = request[r].seen.count + 1 /\ isSet = request[r].seen.titleSet
    OBVIOUS
  <1>3. /\ n = turnCount[At(r)] + 1 /\ isSet = titleSet[Key(r)] /\ isSet \in BOOLEAN /\ n \in Nat
        /\ isSet => n >= 3
    <2>1. request[r].seen.count = turnCount[At(r)] /\ turnCount[At(r)] \in Nat
      BY <1>1 DEF FreshInv, RequestFresh, TypeOK
    <2>2. request[r].seen.titleSet = titleSet[Key(r)] /\ titleSet[Key(r)] \in BOOLEAN
      BY <1>1 DEF TitleInv, TypeOK
    <2>3. titleSet[Key(r)] => turnCount[At(r)] >= 2
      BY <1>1 DEF TitleInv
    <2> QED BY <1>2, <2>1, <2>2, <2>3
  <1>4. turnCount' = [turnCount EXCEPT ![At(r)] = n]
    BY <1>2 DEF AfterAgent
  <1>5. NeedsTitle(n, isSet) => n >= 2 /\ ~ isSet
    BY <1>3 DEF NeedsTitle
  <1>6. PICK title \in {None, "auto"} :
           /\ title = None \/ NeedsTitle(n, isSet)
           /\ \/ UNCHANGED <<index, titleSet>>
              \/ /\ titleSet' = [titleSet EXCEPT ![Key(r)] = @ \/ title # None]
                 /\ index' = [index EXCEPT ![request[r].session] =
                        UnionDocs(Titled(Counted(index[request[r].session], n), title),
                                  ToSet(request[r].seen.docs))]
    <2>1. CASE Flushes(n, isSet)
      <3>1. PICK title \in (IF NeedsTitle(n, isSet) THEN {None, "auto"} ELSE {None}) :
               /\ titleSet' = [titleSet EXCEPT ![Key(r)] = @ \/ title # None]
               /\ index' = [index EXCEPT ![request[r].session] =
                      UnionDocs(Titled(Counted(index[request[r].session], n), title),
                                ToSet(request[r].seen.docs))]
        BY <1>1, <1>2, <2>1 DEF AfterAgent, Sequential, TypeOK
      <3> QED BY <3>1
    <2>2. CASE ~ Flushes(n, isSet)
      BY <1>2, <2>2 DEF AfterAgent
    <2> QED BY <2>1, <2>2
  <1>7. ASSUME NEW k \in User \X Session, titleSet'[k] PROVE turnCount'[StoreOf[k]] >= 2
    <2>1. StoreOf[k] \in Store /\ turnCount[StoreOf[k]] \in Nat
      BY SessionAssumption DEF TypeOK
    <2>2. CASE StoreOf[k] = At(r)
      <3>1. k = Key(r)
        BY <1>1, <2>2 DEF OwnStores, Sequential
      <3>2. titleSet[k] \/ NeedsTitle(n, isSet)
        BY <1>1, <1>6, <1>7, <3>1 DEF TypeOK
      <3>3. n >= 2
        BY <1>3, <1>5, <3>1, <3>2
      <3> QED BY <1>1, <1>4, <2>2, <3>3 DEF TypeOK
    <2>3. CASE StoreOf[k] # At(r)
      <3>1. k # Key(r)
        BY <1>1, <2>3
      <3>2. titleSet'[k] = titleSet[k] /\ turnCount'[StoreOf[k]] = turnCount[StoreOf[k]]
        BY <1>1, <1>4, <1>6, <2>1, <2>3, <3>1 DEF TypeOK
      <3> QED BY <1>7, <3>2 DEF TitleInv
    <2> QED BY <2>2, <2>3
  <1>8. TitlesStay
    <2> SUFFICES ASSUME NEW s \in Session, index[s] # None, index[s].title = "user",
                        titleSet[<<index[s].owner, s>>]
                 PROVE  index'[s].title = "user"
      BY DEF TitlesStay
    <2>1. CASE s # request[r].session \/ index' = index
      BY <1>1, <1>6, <2>1 DEF TypeOK
    <2>2. CASE s = request[r].session /\ index' # index
      <3>1. index[s] \in Row /\ index[s].owner = request[r].user
        BY <1>1 DEF TypeOK, Row, Sequential
      <3>2. title = None
        BY <1>1, <1>3, <1>5, <1>6, <2>2, <3>1
      <3>3. index' = [index EXCEPT ![s] =
                UnionDocs(Titled(Counted(index[s], n), title), ToSet(request[r].seen.docs))]
        BY <1>6, <2>2
      <3>4. PICK row : row = Counted(index[s], n)
        OBVIOUS
      <3>5. row \in Row /\ row.title = "user" /\ Titled(row, title) = row
        BY <1>3, <3>1, <3>2, <3>4 DEF Counted, Row, Titled
      <3>6. PICK new : new = UnionDocs(row, ToSet(request[r].seen.docs))
        OBVIOUS
      <3>7. new.title = "user"
        BY <3>5, <3>6, NoneAssumption DEF UnionDocs, Row
      <3>8. index' = [index EXCEPT ![s] = new]
        BY <3>3, <3>4, <3>5, <3>6
      <3> QED BY <3>7, <3>8 DEF TypeOK
    <2> QED BY <2>1, <2>2
  <1> QED BY <1>7, <1>8

LEMMA FinishTitled ==
    ASSUME TypeOK, FreshInv, TitleInv, Sequential, OwnStores, NEW r \in Request,
           FinishUntracked(r) \/ FinishSub(r) \/ Finish(r)
    PROVE  TitleInv' /\ TitlesStay
  <1>1. request[r].pc = "model" /\ request[r] \in Active /\ request[r].seen \in Seen
    BY ActiveRequest, RequestType DEF FinishUntracked, FinishSub, Finish
  <1>2. ~ FinishUntracked(r)
    BY <1>1 DEF FinishUntracked, FreshInv, RequestFresh
  <1>3. /\ \A k \in User \X Session : titleSet'[k] => turnCount'[StoreOf[k]] >= 2
        /\ TitlesStay
    BY <1>1, <1>2, CallbackTitled DEF FinishSub, Finish
  <1>4. request'[r].pc = "idle" \/ request'[r].seen.titleSet = titleSet'[Key(r)']
    <2>1. CASE Finish(r)
      BY <2>1 DEF Finish, Done, Idle, TypeOK
    <2>2. CASE FinishSub(r)
      <3>1. PICK count, titled : count = turnCount'[At(r)] /\ titled = titleSet'[Key(r)]
        OBVIOUS
      <3>2. request' = [request EXCEPT ![r].delegated = TRUE, ![r].seen.count = count,
                                       ![r].seen.titleSet = titled]
        BY <2>2, <3>1 DEF FinishSub
      <3>3. /\ request'[r].session = request[r].session /\ request'[r].user = request[r].user
            /\ request'[r].seen.titleSet = titled
        BY <1>1, <3>2 DEF TypeOK, Active, Seen
      <3> QED BY <3>1, <3>3 DEF Key
    <2> QED BY <1>2, <2>1, <2>2
  <1>5. \A q \in Request : q = r
    BY DEF Sequential
  <1>6. \A q \in Request : request'[q].pc = "idle" \/ request'[q].seen.titleSet = titleSet'[Key(q)']
    BY <1>4, <1>5
  <1>7. \A q \in Request : request'[q].pc \in {"before", "track", "load", "model"} =>
           request'[q].seen.titleSet = titleSet'[Key(q)']
    BY <1>6
  <1> QED BY <1>3, <1>7 DEF TitleInv

LEMMA LeaveTitled ==
    ASSUME TypeOK, FreshInv, TitleInv, Sequential, NEW r \in Request, Abort(r) \/ BootstrapWrite(r)
    PROVE  TitleInv' /\ TitlesStay
  <1>1. request[r].pc # "idle" /\ UNCHANGED stored /\ request' = Done(r)
    BY DEF Abort, BootstrapWrite
  <1>2. request'[r].pc = "idle"
    BY <1>1 DEF Done, TypeOK, Idle
  <1>3. TitleInv'
    BY <1>1, <1>2, GoesOnTitled DEF stored
  <1>4. TitlesStay
    <2>1. CASE Abort(r)
      BY <2>1 DEF Abort, TitlesStay
    <2>2. CASE BootstrapWrite(r)
      <3>1. PICK row : index' = [index EXCEPT ![request[r].session] = row]
        BY <2>2 DEF BootstrapWrite, Sequential, CreateRow
      <3>2. request[r].pc = "bootstrap" /\ index[request[r].session] = None
        BY <2>2 DEF BootstrapWrite, FreshInv, RequestFresh
      <3> QED BY <1>1, <3>1, <3>2, RequestType, CreateTitles
    <2> QED BY <2>1, <2>2
  <1> QED BY <1>3, <1>4

LEMMA TitleInit == Init => TitleInv
  <1> SUFFICES ASSUME Init PROVE TitleInv
    OBVIOUS
  <1>1. \A k \in User \X Session : titleSet[k] = FALSE
    BY DEF Init, Fresh
  <1>2. \A r \in Request : request[r].pc = "idle"
    BY DEF Init, Idle
  <1> QED BY <1>1, <1>2 DEF TitleInv

LEMMA TitleNext ==
    ASSUME TypeOK, FreshInv, TitleInv, OwnStores, Sequential, [Next]_vars
    PROVE  TitleInv' /\ TitlesStay
  <1>1. ASSUME NEW r \in Request, Step(r)
        PROVE  TitleInv' /\ TitlesStay
    BY <1>1, EnsureTitled, OpenTitled, TrackTitled, TrackWriteTitled, LoadTitled, FinishTitled,
       LeaveTitled DEF Step
  <1>2. CASE UNCHANGED vars
    BY <1>2 DEF vars, stored, TitleInv, TitlesStay, Key
  <1>3. \A i \in Instance : ~ Restart(i)
    BY DEF Restart, Sequential
  <1> QED BY <1>1, <1>2, <1>3, BeginTitled, OwnerTitled DEF Next

\* Where a user's requests come one at a time and nothing fails, for any number of sessions and
\* turns: the title an owner gives a session that has had a generated one is never
\* replaced by another generated one (adk/callbacks.py, make_after_agent_response).
THEOREM TitleCorrect ==
    ASSUME OwnStores, Sequential
    PROVE  Spec => TitleSettled
  <1>1. TitlesStay => \A s \in Session :
           index[s] # None /\ index[s].title = "user" /\ titleSet[<<index[s].owner, s>>]
           => index'[s].title = "user"
    BY DEF TitlesStay
  <1>2. TypeOK /\ FreshInv /\ TitleInv /\ [Next]_vars => TitleInv' /\ TitlesStay
    BY TitleNext
  <1>3. TypeOK /\ FreshInv /\ [Next]_vars => FreshInv'
    BY FreshNext
  <1> QED BY <1>1, <1>2, <1>3, TitleInit, FreshInit, TypeCorrect, PTL DEF Spec, TitleSettled
=============================================================================
