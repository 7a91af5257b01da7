---------------------------- MODULE SurfacesProofs ----------------------------
(***************************************************************************)
(* Proofs about Surfaces: what each call is, alone (CallOK), what it owes  *)
(* to its reader's stream, and how the calls of a user meet in the state   *)
(* of the session.                                                         *)
(***************************************************************************)
EXTENDS Surfaces, SequenceTheorems, FiniteSetTheorems, TLAPS

USE SurfacesAssumption

Stages == {"agent", "model"}
Event == Stages \union Terminals

-----------------------------------------------------------------------------
(* Keys.                                                                   *)

\* The members of a concatenation, by the part they are of.
LEMMA ConcatAt ==
    ASSUME NEW S, NEW s \in Seq(S), NEW q \in Seq(S)
    PROVE  /\ s \o q \in Seq(S) /\ Len(s \o q) = Len(s) + Len(q)
           /\ \A i \in 1 .. Len(s) : (s \o q)[i] = s[i]
           /\ \A j \in 1 .. Len(q) : (s \o q)[Len(s) + j] = q[j]
<1> DEFINE w == s \o q  m == Len(s)  n == Len(q)
<1>1. /\ w \in Seq(S) /\ Len(w) = m + n
      /\ \A i \in 1 .. m + n : w[i] = IF i <= m THEN s[i] ELSE q[i - m]
  BY ConcatProperties
<1>2. m \in Nat /\ n \in Nat
  BY LenProperties
<1> HIDE DEF w, m, n
<1>3. ASSUME NEW i \in 1 .. m PROVE w[i] = s[i]
  <2>1. i \in 1 .. m + n /\ i <= m
    BY <1>2
  <2> QED BY <1>1, <2>1
<1>4. ASSUME NEW j \in 1 .. n PROVE w[m + j] = q[j]
  <2>1. m + j \in 1 .. m + n /\ ~(m + j <= m) /\ (m + j) - m = j
    BY <1>2
  <2> QED BY <1>1, <2>1
<1> QED BY <1>1, <1>3, <1>4 DEF w, m, n

\* The key of a surface is a sequence of three names or more, that of a frame of three.
LEMMA ActionKeys ==
    ASSUME NEW id \in SurfaceIds
    PROVE  LET k == ActionKey(id)
           IN  /\ k \in Seq(Names) /\ Len(k) = Len(id) + 2 /\ Len(id) \in Nat \ {0}
               /\ k[1] = "action" /\ k[Len(k)] = "lastAction"
<1> DEFINE a == <<"action">>  z == <<"lastAction">>
<1>1. /\ id \in Seq(Names) /\ id # <<>> /\ a \in Seq(Names) /\ z \in Seq(Names)
      /\ Len(a) = 1 /\ Len(z) = 1 /\ a[1] = "action" /\ z[1] = "lastAction"
  OBVIOUS
<1>2. Len(id) \in Nat \ {0}
  BY <1>1, EmptySeq
<1> HIDE DEF a, z
<1>3. /\ a \o id \in Seq(Names) /\ Len(a \o id) = 1 + Len(id) /\ (a \o id)[1] = a[1]
  <2>1. id \in Seq(Names) /\ a \in Seq(Names) /\ Len(a) = 1 /\ 1 \in 1 .. Len(a)
    BY <1>1
  <2>2. /\ a \o id \in Seq(Names) /\ Len(a \o id) = Len(a) + Len(id) /\ (a \o id)[1] = a[1]
    BY <2>1, ConcatAt
  <2> QED BY <2>1, <2>2
<1>4. /\ (a \o id) \o z \in Seq(Names) /\ Len((a \o id) \o z) = Len(id) + 2
      /\ ((a \o id) \o z)[1] = (a \o id)[1]
      /\ ((a \o id) \o z)[Len(id) + 2] = z[1]
  <2> DEFINE b == a \o id
  <2>1. b \in Seq(Names) /\ Len(b) = 1 + Len(id)
    BY <1>3
  <2> HIDE DEF b
  <2>2. 1 \in 1 .. Len(b) /\ 1 \in 1 .. Len(z) /\ Len(b) + 1 = Len(id) + 2
    BY <1>1, <1>2, <2>1
  <2>3. /\ b \o z \in Seq(Names) /\ Len(b \o z) = Len(b) + Len(z)
        /\ (b \o z)[1] = b[1] /\ (b \o z)[Len(b) + 1] = z[1]
    BY <1>1, <2>1, <2>2, ConcatAt
  <2>4. Len(b) + Len(z) = Len(id) + 2
    BY <1>1, <1>2, <2>1
  <2> QED BY <2>2, <2>3, <2>4 DEF b
<1> QED BY <1>1, <1>2, <1>3, <1>4 DEF ActionKey, a, z

LEMMA FrameKeys ==
    ASSUME NEW id \in FrameIds
    PROVE  /\ FrameKey(id) \in Seq(Names) /\ Len(FrameKey(id)) = 3
           /\ FrameKey(id)[1] = "frame"
<1> DEFINE a == <<"frame">>
<1>1. id \in Seq(Names) /\ Len(id) = 2
  <2>1. PICK s \in Names, t \in Names : id = <<s, t>>
    OBVIOUS
  <2> QED BY <2>1
<1>2. a \in Seq(Names) /\ Len(a) = 1 /\ a[1] = "frame"
  OBVIOUS
<1> HIDE DEF a
<1>3. a \o id \in Seq(Names) /\ Len(a \o id) = 3 /\ (a \o id)[1] = a[1]
  <2>1. 1 \in 1 .. Len(a)
    BY <1>2
  <2>2. /\ a \o id \in Seq(Names) /\ Len(a \o id) = Len(a) + Len(id)
        /\ \A i \in 1 .. Len(a) : (a \o id)[i] = a[i]
    BY ONLY <1>1, <1>2, ConcatAt
  <2> QED BY <1>1, <1>2, <2>1, <2>2
<1> QED BY <1>2, <1>3 DEF FrameKey, a

LEMMA KeyShape ==
    ASSUME NEW k \in Keys
    PROVE  /\ k \in Seq(Names) /\ Len(k) \in Nat /\ Len(k) >= 3 /\ k # <<>>
           /\ k[1] \in {"action", "frame"} /\ k[2] \in Names /\ k[3] \in Names
<1>1. k \in Seq(Names) /\ Len(k) \in Nat /\ Len(k) >= 3 /\ k[1] \in {"action", "frame"}
  <2>1. CASE \E id \in SurfaceIds : k = ActionKey(id)
    BY <2>1, ActionKeys
  <2>2. CASE \E id \in FrameIds : k = FrameKey(id)
    BY <2>2, FrameKeys
  <2> QED BY <2>1, <2>2 DEF Keys
<1>2. k[2] \in Names /\ k[3] \in Names
  BY <1>1, ElementOfSeq
<1>3. k # <<>>
  BY <1>1, EmptySeq
<1> QED BY <1>1, <1>2, <1>3

LEMMA OnePart ==
    ASSUME NEW k \in Seq(Names), NEW i \in 1 .. Len(k)
    PROVE  SubSeq(k, i, i) = <<k[i]>>
<1>1. i \in Int /\ \A j \in i .. i : k[j] \in Names
  BY ElementOfSeq
<1>2. PICK p : p = SubSeq(k, i, i)
  OBVIOUS
<1>3. p \in Seq(Names) /\ Len(p) = 1 /\ p[1] = k[i]
  <2>1. /\ p \in Seq(Names) /\ Len(p) = IF i <= i THEN i - i + 1 ELSE 0
        /\ \A j \in 1 .. i - i + 1 : p[j] = k[i + j - 1]
    BY ONLY <1>1, <1>2, SubSeqProperties
  <2>2. i - i + 1 = 1 /\ 1 \in 1 .. i - i + 1 /\ i + 1 - 1 = i /\ i <= i
    BY <1>1
  <2> QED BY <2>1, <2>2
<1>4. p = <<k[i]>>
  BY <1>3
<1> QED BY <1>2, <1>4

\* What the two blocks make of a state.
Shown == [heading : Seq(Names), field : Seq(Names), from : Calls]

LEMMA ShownType ==
    ASSUME NEW s, s.state \in [Keys -> 0 .. MaxCalls]
    PROVE  ShownActions(s) \union ShownFrames(s) \subseteq Shown
<1>1. ASSUME NEW k \in Keys, s.state[k] # 0
      PROVE  /\ [heading |-> <<k[2]>>, field |-> SubSeq(k, 3, Len(k)), from |-> s.state[k]] \in Shown
             /\ [heading |-> Tail(k), field |-> <<>>, from |-> s.state[k]] \in Shown
  <2>1. s.state[k] \in Calls
    BY <1>1 DEF Calls
  <2>2. <<k[2]>> \in Seq(Names)
    BY KeyShape
  <2>3. SubSeq(k, 3, Len(k)) \in Seq(Names)
    <3>1. \A i \in 3 .. Len(k) : k[i] \in Names
      BY KeyShape, ElementOfSeq
    <3> QED BY <3>1, KeyShape, SubSeqProperties
  <2>4. Tail(k) \in Seq(Names)
    BY KeyShape, HeadTailProperties
  <2>5. <<>> \in Seq(Names)
    BY EmptySeq
  <2> QED BY <2>1, <2>2, <2>3, <2>4, <2>5 DEF Shown
<1>2. ASSUME NEW e \in ShownActions(s) PROVE e \in Shown
  <2>1. PICK k \in Keys :
           /\ s.state[k] # 0
           /\ e = [heading |-> <<k[2]>>, field |-> SubSeq(k, 3, Len(k)), from |-> s.state[k]]
    BY <1>2 DEF ShownActions
  <2> QED BY <1>1, <2>1
<1>3. ASSUME NEW e \in ShownFrames(s) PROVE e \in Shown
  <2>1. PICK k \in Keys :
           /\ s.state[k] # 0
           /\ e = [heading |-> Tail(k), field |-> <<>>, from |-> s.state[k]]
    BY <1>3 DEF ShownFrames
  <2> QED BY <1>1, <2>1
<1> QED BY <1>2, <1>3

-----------------------------------------------------------------------------
(* Stages in a sequence.                                                   *)

Told(s) == {s[i] : i \in DOMAIN s}

Ordered(s) == \A i, j \in DOMAIN s :
    i < j /\ {s[i], s[j]} \subseteq Stages => s[i] = "agent" /\ s[j] = "model"

\* The stages of s come before those of q.
Before(s, q) == \A x \in Told(s), y \in Told(q) :
    {x, y} \subseteq Stages => x = "agent" /\ y = "model"

LEMMA EventSeq == ASSUME NEW s \in Seq(Event) PROVE DOMAIN s = 1 .. Len(s) /\ Len(s) \in Nat
BY LenProperties

LEMMA ToldConcat ==
    ASSUME NEW s \in Seq(Event), NEW q \in Seq(Event)
    PROVE  /\ s \o q \in Seq(Event) /\ Told(s \o q) = Told(s) \union Told(q)
           /\ Ordered(s) /\ Ordered(q) /\ Before(s, q) => Ordered(s \o q)
<1> DEFINE w == s \o q  m == Len(s)  n == Len(q)
<1>1. /\ w \in Seq(Event) /\ Len(w) = m + n
      /\ \A i \in 1 .. m : w[i] = s[i]
      /\ \A j \in 1 .. n : w[m + j] = q[j]
  BY ConcatAt
<1>2. /\ m \in Nat /\ n \in Nat
      /\ DOMAIN s = 1 .. m /\ DOMAIN q = 1 .. n /\ DOMAIN w = 1 .. m + n
  BY <1>1, EventSeq
<1> HIDE DEF w, m, n
<1>3. Told(w) = Told(s) \union Told(q)
  <2>1. ASSUME NEW x \in Told(w) PROVE x \in Told(s) \union Told(q)
    <3>1. PICK i \in 1 .. m + n : x = w[i]
      BY <1>2 DEF Told
    <3>2. CASE i <= m
      <4>1. i \in 1 .. m /\ x = s[i]
        BY <1>1, <1>2, <3>1, <3>2
      <4> QED BY <1>2, <4>1 DEF Told
    <3>3. CASE ~(i <= m)
      <4>1. PICK j \in 1 .. n : i = m + j
        <5>1. i - m \in 1 .. n /\ i = m + (i - m)
          BY <1>2, <3>3
        <5> QED BY <5>1
      <4>2. x = q[j]
        BY <1>1, <3>1, <4>1
      <4> QED BY <1>2, <4>2 DEF Told
    <3> QED BY <3>2, <3>3
  <2>2. ASSUME NEW i \in 1 .. m PROVE s[i] \in Told(w)
    <3>1. i \in 1 .. m + n /\ w[i] = s[i]
      BY <1>1, <1>2
    <3> QED BY <1>2, <3>1 DEF Told
  <2>3. ASSUME NEW j \in 1 .. n PROVE q[j] \in Told(w)
    <3>1. m + j \in 1 .. m + n /\ w[m + j] = q[j]
      BY <1>1, <1>2
    <3> QED BY <1>2, <3>1 DEF Told
  <2> QED BY <1>2, <2>1, <2>2, <2>3 DEF Told
<1>4. ASSUME Ordered(s), Ordered(q), Before(s, q), NEW i \in 1 .. m + n, NEW j \in 1 .. m + n,
             i < j, {w[i], w[j]} \subseteq Stages
      PROVE  w[i] = "agent" /\ w[j] = "model"
  <2>1. CASE j <= m
    <3>1. i \in 1 .. m /\ j \in 1 .. m /\ w[i] = s[i] /\ w[j] = s[j]
      BY <1>1, <1>2, <1>4, <2>1
    <3> QED BY <1>2, <1>4, <3>1 DEF Ordered
  <2>2. CASE i <= m /\ ~(j <= m)
    <3>1. PICK k \in 1 .. n : j = m + k
      <4>1. j - m \in 1 .. n /\ j = m + (j - m)
        BY <1>2, <2>2
      <4> QED BY <4>1
    <3>2. i \in 1 .. m /\ w[i] = s[i] /\ w[j] = q[k]
      BY <1>1, <1>2, <2>2, <3>1
    <3>3. w[i] \in Told(s) /\ w[j] \in Told(q)
      BY <1>2, <3>1, <3>2 DEF Told
    <3> QED BY <1>4, <3>3 DEF Before
  <2>3. CASE ~(i <= m)
    <3>1. PICK h \in 1 .. n, k \in 1 .. n : i = m + h /\ j = m + k
      <4>1. i - m \in 1 .. n /\ i = m + (i - m) /\ j - m \in 1 .. n /\ j = m + (j - m)
        BY <1>2, <1>4, <2>3
      <4> QED BY <4>1
    <3>2. h < k
      BY <1>2, <1>4, <3>1
    <3>3. w[i] = q[h] /\ w[j] = q[k]
      BY <1>1, <3>1
    <3>4. h \in DOMAIN q /\ k \in DOMAIN q /\ {q[h], q[k]} \subseteq Stages
      BY <1>2, <1>4, <3>3
    <3>5. q[h] = "agent" /\ q[k] = "model"
      BY <1>4, <3>2, <3>4 DEF Ordered
    <3> QED BY <3>3, <3>5
  <2> QED BY <1>2, <2>1, <2>2, <2>3
<1> QED BY <1>1, <1>2, <1>3, <1>4 DEF Ordered, w

LEMMA ToldAppend ==
    ASSUME NEW s \in Seq(Event), NEW x \in Event
    PROVE  /\ Append(s, x) \in Seq(Event) /\ Told(Append(s, x)) = Told(s) \union {x}
           /\ x \notin Stages /\ Ordered(s) => Ordered(Append(s, x))
<1>1. /\ <<x>> \in Seq(Event) /\ Len(<<x>>) = 1 /\ <<x>>[1] = x /\ DOMAIN <<x>> = {1}
  OBVIOUS
<1>2. Append(s, x) = s \o <<x>>
  BY AppendIsConcat
<1>3. Told(<<x>>) = {x} /\ Ordered(<<x>>)
  BY <1>1 DEF Told, Ordered
<1>4. x \notin Stages => Before(s, <<x>>)
  BY <1>3 DEF Before
<1>5. x \notin Stages /\ Ordered(s) => Ordered(s \o <<x>>)
  BY <1>1, <1>3, <1>4, ToldConcat
<1>6. s \o <<x>> \in Seq(Event) /\ Told(s \o <<x>>) = Told(s) \union {x}
  BY <1>1, <1>3, ToldConcat
<1> QED BY <1>2, <1>5, <1>6

-----------------------------------------------------------------------------
(* A call alone.                                                           *)

Flow == {"agent", "prompt", "model"}

\* Its kind says who made it and for what, and where it may be.
KindOK(call) ==
    /\ (call.kind = "none") <=> (call.at = "off")
    /\ call.kind # "none" => call.user \in Users
    /\ call.kind \in {"click", "run"} => \E id \in SurfaceIds : call.key = ActionKey(id)
    /\ call.kind = "frame" => \E id \in FrameIds : call.key = FrameKey(id)
    /\ call.kind \in {"none", "chat"} => call.key = <<>>
    /\ call.at \in {"get", "append"} => call.kind \in {"click", "run", "frame"}
    /\ call.at \in {"create", "build"} => call.kind = "run"
    /\ call.at \in Flow \union {"open", "ended"} => call.kind \in {"run", "chat"}

\* What was told or waits was marked, the agent before the model.
Flowing(call) ==
    /\ Ordered(call.wire) /\ Ordered(call.queue) /\ Before(call.wire, call.queue)
    /\ Told(call.wire) \union Told(call.queue) \subseteq call.marked
    /\ call.due \subseteq Told(call.wire) \union Told(call.queue)
    /\ call.owed \subseteq Told(call.wire)
    /\ "model" \in call.marked => "agent" \in call.marked
    /\ call.at \in {"prompt", "model"} /\ call.kind = "chat" => "agent" \in call.marked

Ends(s) == {i \in DOMAIN s : s[i] \in Terminals}

Over(call) ==
    /\ Ordered(call.wire) /\ call.owed \subseteq Told(call.wire)
    /\ \E i \in DOMAIN call.wire : Ends(call.wire) = {i}

Quiet(call) ==
    /\ call.wire = <<>> /\ call.queue = <<>>
    /\ call.marked = {} /\ call.due = {} /\ call.owed = {}

CallOK(call) ==
    /\ call \in Call
    /\ KindOK(call)
    /\ call.at \in Flow => Flowing(call)
    /\ call.at = "ended" => Over(call)
    /\ call.at \notin Flow \union {"ended"} => Quiet(call)

\* The places of a call whose value, if it pushed one, is in the session.
Late == Flow \union {"open", "ended", "done", "failed"}

\* What no step of a call changes.
Follows(call, x) ==
    /\ CallOK(x)
    /\ x.kind = call.kind /\ x.user = call.user /\ x.key = call.key
    /\ x.before \subseteq call.before /\ x.after \subseteq call.after
    /\ x.sends => call.sends
    /\ x.at # "off"
    /\ call.at \in Late => x.at \in Late

LEMMA OffOK == CallOK(Off)
<1>1. Off \in Call
  BY EmptySeq DEF Off, Call
<1> QED BY <1>1 DEF CallOK, KindOK, Quiet, Off, Flow

LEMMA LeftOK ==
    ASSUME NEW call, CallOK(call), call.at # "off"
    PROVE  /\ Follows(call, Done(call)) /\ Done(call).at = "done"
           /\ Follows(call, Failed(call)) /\ Failed(call).at = "failed"
<1>1. call \in Call /\ call.kind # "none" /\ KindOK(call)
  BY DEF CallOK, KindOK
<1>2. Done(call) \in Call /\ Failed(call) \in Call
  <2>1. Off \in Call
    BY OffOK DEF CallOK
  <2>2. /\ call.kind \in {"none", "click", "run", "frame", "chat"}
        /\ call.user \in Users \union {"none"} /\ call.key \in Keys \union {<<>>}
        /\ call.before \in SUBSET Calls
    BY <1>1 DEF Call
  <2>3. Left(call) \in Call
    <3>1. PICK b : b = IF call.key = <<>> THEN {} ELSE call.before
      OBVIOUS
    <3>2. b \in SUBSET Calls
      BY <2>2, <3>1
    <3>3. PICK x : x = [Off EXCEPT !.kind = call.kind, !.user = call.user, !.key = call.key]
      OBVIOUS
    <3>4. x \in Call
      BY <2>1, <2>2, <3>3 DEF Call
    <3>5. Left(call) = [x EXCEPT !.before = b]
      BY <3>1, <3>3 DEF Left
    <3>6. [x EXCEPT !.before = b] \in Call
      BY ONLY <3>2, <3>4 DEF Call
    <3> QED BY <3>5, <3>6
  <2> QED BY <2>3 DEF Done, Failed, Call
<1>3. KindOK(Done(call)) /\ KindOK(Failed(call))
  BY <1>1 DEF KindOK, Done, Failed, Left, Off, Flow
<1>4. Quiet(Done(call)) /\ Quiet(Failed(call))
  BY DEF Quiet, Done, Failed, Left, Off
<1>5. Done(call).at = "done" /\ Failed(call).at = "failed"
  BY DEF Done, Failed, Left, Off
<1>6. CallOK(Done(call)) /\ CallOK(Failed(call))
  BY <1>2, <1>3, <1>4, <1>5 DEF CallOK, Flow
<1> QED BY <1>5, <1>6 DEF Follows, Done, Failed, Left, Off, Late

\* What a call becomes as it moves, begins an agent, or is given a prompt.
Moving(call, place) == [call EXCEPT !.at = place]
Beginning(call, label) ==
    [Marked(call, "agent", label) EXCEPT !.at = "prompt", !.shown = {},
        !.shownSnapshot = 0, !.triggered = FALSE]
Prompting(call, shown, snapshot, triggered) ==
    [Marked(call, "model", TRUE) EXCEPT !.at = "model", !.shown = shown,
        !.shownSnapshot = snapshot, !.triggered = triggered]

LEMMA MoveOK ==
    ASSUME NEW call, CallOK(call), NEW place,
           \/ call.at = "get" /\ place = "append"
           \/ call.at = "get" /\ call.kind = "run" /\ place = "create"
           \/ call.at = "create" /\ place = "append"
           \/ call.at = "append" /\ call.kind = "run" /\ place = "build"
           \/ call.at = "build" /\ place = "open"
           \/ call.at = "open" /\ place = "agent"
    PROVE  LET x == Moving(call, place)
           IN  /\ Follows(call, x) /\ x.at = place
               /\ x.sends = call.sends /\ x.before = call.before /\ x.after = call.after
<1> DEFINE x == [call EXCEPT !.at = place]
<1>1. call \in Call /\ KindOK(call) /\ Quiet(call)
  BY DEF CallOK, Flow
<1>2. x \in Call /\ x.at = place
  BY <1>1 DEF Call
<1>3. /\ x.kind = call.kind /\ x.user = call.user /\ x.key = call.key
      /\ x.sends = call.sends /\ x.before = call.before /\ x.after = call.after
      /\ x.wire = call.wire /\ x.queue = call.queue
      /\ x.marked = call.marked /\ x.due = call.due /\ x.owed = call.owed
  BY <1>1 DEF Call
<1> HIDE DEF x
<1>4. KindOK(x)
  BY <1>1, <1>2, <1>3 DEF KindOK, Flow
<1>5. Quiet(x)
  BY <1>1, <1>3 DEF Quiet
<1>6. place = "agent" => Flowing(x)
  <2>1. Told(<<>>) = {} /\ Ordered(<<>>) /\ Before(<<>>, <<>>)
    BY DEF Told, Ordered, Before
  <2> QED BY <1>2, <1>5, <2>1 DEF Flowing, Quiet
<1>7. CallOK(x)
  BY <1>2, <1>4, <1>5, <1>6 DEF CallOK, Flow
<1> QED BY <1>2, <1>3, <1>7 DEF Follows, Late, Flow, x, Moving

LEMMA QueueSeq ==
    ASSUME NEW q \in Seq(Stages)
    PROVE  q \in Seq(Event) /\ Told(q) \subseteq Stages
<1>1. \A i \in DOMAIN q : q[i] \in Stages
  BY ElementOfSeq, LenProperties
<1> QED BY <1>1 DEF Told, Event

\* A terminal event goes out, and after it what waits.
Closing(s, t, q) == Append(s, t) \o q

LEMMA OneEnd ==
    ASSUME NEW s \in Seq(Event), Told(s) \subseteq Stages, NEW t \in Terminals,
           NEW q \in Seq(Stages), Ordered(s), Ordered(q), Before(s, q)
    PROVE  LET w == Closing(s, t, q)
           IN  /\ w \in Seq(Event) /\ Ordered(w)
               /\ Told(w) = Told(s) \union {t} \union Told(q)
               /\ \E i \in DOMAIN w : Ends(w) = {i}
<1> DEFINE a == Append(s, t)  m == Len(s)  n == Len(q)
<1>0. PICK w : w = Closing(s, t, q) /\ w = a \o q
  BY DEF Closing
<1>1. t \in Event /\ t \notin Stages
  BY DEF Event, Terminals, Stages
<1>2. q \in Seq(Event) /\ Told(q) \subseteq Stages
  BY QueueSeq
<1>3. a \in Seq(Event) /\ Told(a) = Told(s) \union {t} /\ Ordered(a)
  BY <1>1, ToldAppend
<1>4. m \in Nat /\ n \in Nat /\ DOMAIN s = 1 .. m /\ DOMAIN q = 1 .. n
  BY <1>2, EventSeq
<1>5. Len(a) = m + 1 /\ DOMAIN a = 1 .. m + 1 /\ a[m + 1] = t /\ \A i \in 1 .. m : a[i] = s[i]
  BY <1>1, AppendProperties
<1> HIDE DEF a, m, n
<1>6. Before(a, q)
  BY <1>1, <1>3 DEF Before
<1>7. w \in Seq(Event) /\ Told(w) = Told(s) \union {t} \union Told(q) /\ Ordered(w)
  BY <1>0, <1>2, <1>3, <1>6, ToldConcat
<1>8. /\ Len(w) = m + 1 + n /\ \A i \in 1 .. m + 1 : w[i] = a[i]
      /\ \A j \in 1 .. n : w[m + 1 + j] = q[j]
  <2>1. /\ Len(w) = Len(a) + Len(q) /\ \A i \in 1 .. Len(a) : w[i] = a[i]
        /\ \A j \in 1 .. Len(q) : w[Len(a) + j] = q[j]
    BY ONLY <1>0, <1>2, <1>3, ConcatAt
  <2> QED BY <1>5, <2>1 DEF n
<1>9. DOMAIN w = 1 .. m + 1 + n
  BY <1>7, <1>8, EventSeq
<1>10. m + 1 \in DOMAIN w /\ w[m + 1] = t
  BY <1>4, <1>5, <1>8, <1>9
<1>11. ASSUME NEW i \in DOMAIN w, w[i] \in Terminals PROVE i = m + 1
  <2>1. CASE i <= m
    <3>1. i \in 1 .. m /\ i \in 1 .. m + 1
      BY <1>4, <1>9, <2>1
    <3>2. w[i] = s[i] /\ i \in DOMAIN s
      BY <1>4, <1>5, <1>8, <3>1
    <3>3. w[i] \in Stages
      BY <3>2 DEF Told
    <3> QED BY <1>11, <3>3 DEF Stages, Terminals
  <2>2. CASE i > m + 1
    <3>1. PICK j \in 1 .. n : i = m + 1 + j
      <4>1. i - (m + 1) \in 1 .. n /\ i = m + 1 + (i - (m + 1))
        BY <1>4, <1>9, <2>2
      <4> QED BY <4>1
    <3>2. w[i] = q[j] /\ j \in DOMAIN q
      BY <1>4, <1>8, <3>1
    <3>3. w[i] \in Stages
      BY <1>2, <3>2 DEF Told
    <3> QED BY <1>11, <3>3 DEF Stages, Terminals
  <2> QED BY <1>4, <1>9, <2>1, <2>2
<1>12. Ends(w) = {m + 1}
  BY <1>10, <1>11 DEF Ends
<1> QED BY <1>0, <1>7, <1>10, <1>12

LEMMA EndedOK ==
    ASSUME NEW call, CallOK(call), call.kind \in {"run", "chat"},
           NEW y, y.kind = call.kind, y.user = call.user, y.key = call.key,
           y.before = call.before, y.wire \in Seq(Event), Ordered(y.wire),
           y.owed \in SUBSET Stages, y.owed \subseteq Told(y.wire),
           \E i \in DOMAIN y.wire : Ends(y.wire) = {i}
    PROVE  Follows(call, Ended(y)) /\ Ended(y).at = "ended"
<1> DEFINE l == Left(y)  x == Ended(y)
<1>1. Left(y) = Left(call)
  BY DEF Left
<1>2. call \in Call /\ call.kind # "none" /\ call.at # "off" /\ KindOK(call)
  BY DEF CallOK, KindOK
<1>3. Done(call) \in Call /\ Done(call) = [l EXCEPT !.at = "done"]
  BY <1>1, <1>2, LeftOK DEF Done, Follows, CallOK
<1>4. x = [[l EXCEPT !.at = "done"] EXCEPT !.wire = y.wire, !.owed = y.owed, !.at = "ended"]
  BY DEF Ended, Left, Off
<1>5. x \in Call
  <2>1. PICK d : d = [l EXCEPT !.at = "done"]
    OBVIOUS
  <2>2. d \in Call /\ x = [d EXCEPT !.wire = y.wire, !.owed = y.owed, !.at = "ended"]
    BY <1>3, <1>4, <2>1
  <2>3. y.wire \in Seq({"agent", "model"} \union Terminals) /\ y.owed \in SUBSET {"agent", "model"}
    BY DEF Event, Stages
  <2>4. [d EXCEPT !.wire = y.wire, !.owed = y.owed, !.at = "ended"] \in Call
    BY ONLY <2>2, <2>3 DEF Call
  <2> QED BY <2>2, <2>4
<1>6. /\ x.kind = call.kind /\ x.user = call.user /\ x.key = call.key /\ x.sends = FALSE
      /\ x.before \subseteq call.before /\ x.after = {} /\ x.at = "ended"
      /\ x.wire = y.wire /\ x.owed = y.owed
  BY DEF Ended, Left, Off
<1> HIDE DEF x
<1>7. KindOK(x)
  BY <1>2, <1>6 DEF KindOK, Flow
<1>8. Over(x)
  BY <1>6 DEF Over
<1>9. CallOK(x)
  BY <1>5, <1>6, <1>7, <1>8 DEF CallOK, Flow
<1> QED BY <1>6, <1>9 DEF Follows, Late, x

LEMMA FlowTypes ==
    ASSUME NEW call, CallOK(call), call.at \in Flow
    PROVE  /\ call \in Call /\ KindOK(call) /\ Flowing(call) /\ call.kind \in {"run", "chat"}
           /\ call.wire \in Seq(Event) /\ Told(call.wire) \subseteq Stages
           /\ call.queue \in Seq(Stages) /\ call.queue \in Seq(Event)
           /\ Told(call.queue) \subseteq Stages
           /\ call.due \in SUBSET Stages /\ call.owed \in SUBSET Stages
           /\ call.marked \in SUBSET Stages
<1>1. call \in Call /\ KindOK(call) /\ Flowing(call) /\ call.kind \in {"run", "chat"}
  BY DEF CallOK, KindOK
<1>2. /\ call.wire \in Seq(Event) /\ call.queue \in Seq(Stages) /\ call.due \in SUBSET Stages
      /\ call.owed \in SUBSET Stages /\ call.marked \in SUBSET Stages
  BY <1>1 DEF Call, Event, Stages
<1> QED BY <1>1, <1>2, QueueSeq DEF Flowing

LEMMA RaisedOK ==
    ASSUME NEW call, CallOK(call), call.at \in Flow, NEW known \in BOOLEAN
    PROVE  LET x == Raised(call, known)
           IN  Follows(call, x) /\ x.at \in {"ended", "failed"}
<1> DEFINE y == [call EXCEPT !.wire = Append(@, "error")]
<1>0. PICK w : w = Append(call.wire, "error")
  OBVIOUS
<1>2. w \in Seq(Event)
  BY <1>0, FlowTypes, AppendProperties DEF Event, Terminals
<1>3. w = Append(call.wire, "error") \o <<>>
  BY <1>0, <1>2, ConcatEmptySeq
<1>1. /\ w \in Seq(Event) /\ Ordered(w)
      /\ Told(w) = Told(call.wire) \union {"error"} \union Told(<<>>)
      /\ \E i \in DOMAIN w : Ends(w) = {i}
  <2>1. PICK q : q = <<>>
    OBVIOUS
  <2>2. PICK t : t = "error"
    OBVIOUS
  <2>3. DOMAIN q = {} /\ q \in Seq(Stages)
    BY <2>1
  <2>4. Told(q) = {} /\ Told(<<>>) = {} /\ Ordered(q)
    BY <2>1, <2>3 DEF Ordered, Told
  <2>5. Before(call.wire, q)
    BY <2>4 DEF Before
  <2>6. t \in Terminals
    BY <2>2 DEF Terminals
  <2>7. call.wire \in Seq(Event) /\ Told(call.wire) \subseteq Stages /\ Ordered(call.wire)
    BY FlowTypes DEF Flowing
  <2>8. w = Closing(call.wire, t, q)
    BY <1>3, <2>1, <2>2 DEF Closing
  <2>9. /\ w \in Seq(Event) /\ Ordered(w)
        /\ Told(w) = Told(call.wire) \union {t} \union Told(q)
        /\ \E i \in DOMAIN w : Ends(w) = {i}
    <3>1. /\ q \in Seq(Stages) /\ Ordered(q) /\ Before(call.wire, q)
      BY <2>3, <2>4, <2>5
    <3> QED BY ONLY <2>6, <2>7, <2>8, <3>1, OneEnd
  <2> QED BY <2>2, <2>4, <2>9
<1>4. /\ y.kind = call.kind /\ y.user = call.user /\ y.key = call.key
      /\ y.before = call.before /\ y.owed = call.owed /\ y.wire = w
  BY <1>0, FlowTypes DEF Call
<1> HIDE DEF y
<1>5. call.owed \subseteq Told(w) /\ call.owed \in SUBSET Stages
  BY <1>1, FlowTypes DEF Flowing
<1>6. Follows(call, Ended(y)) /\ Ended(y).at = "ended"
  BY <1>1, <1>4, <1>5, FlowTypes, EndedOK
<1>7. Raised(call, known) \in {Ended(y), Failed(call)}
  BY DEF Raised, y
<1>8. call.at # "off"
  BY DEF Flow
<1> QED BY <1>6, <1>7, <1>8, LeftOK

\* What an event that does not end the run leaves alone.
Same(call, x) ==
    /\ x.at = call.at /\ x.sends = call.sends
    /\ x.before = call.before /\ x.after = call.after
    /\ x.shown = call.shown /\ x.shownSnapshot = call.shownSnapshot

LEMMA PassedOK ==
    ASSUME NEW call, CallOK(call), NEW event \in {"text"} \union Terminals,
           call.at \in Flow \/ (call.at = "ended" /\ event \in Terminals)
    PROVE  LET x == Passed(call, event)
           IN  Follows(call, x) /\ (x.at = "ended" \/ Same(call, x))
<1>1. CASE call.at = "ended"
  <2>1. Passed(call, event) = call
    BY <1>1 DEF Passed, Flow
  <2> QED BY <1>1, <2>1 DEF Follows, Same
<1>2. CASE call.at \in Flow /\ event \in Terminals
  <2> DEFINE y == Drained([call EXCEPT !.wire = Append(@, event), !.owed = call.due])
  <2>0. PICK w : w = Append(call.wire, event) \o call.queue /\ w = Closing(call.wire, event, call.queue)
    BY DEF Closing
  <2>1. Passed(call, event) = Ended(y)
    BY <1>2 DEF Passed, Flow
  <2>2. /\ y.kind = call.kind /\ y.user = call.user /\ y.key = call.key
        /\ y.before = call.before /\ y.owed = call.due /\ y.wire = w
    <3>1. PICK z : z = [call EXCEPT !.wire = Append(@, event), !.owed = call.due]
      OBVIOUS
    <3>2. z \in Call
      <4>1. /\ call \in Call /\ call.due \in SUBSET {"agent", "model"}
            /\ Append(call.wire, event) \in Seq({"agent", "model"} \union Terminals)
        BY <1>2, FlowTypes, AppendProperties DEF Event, Stages
      <4>2. [call EXCEPT !.wire = Append(@, event), !.owed = call.due] \in Call
        BY ONLY <4>1 DEF Call
      <4> QED BY <3>1, <4>2
    <3>4. /\ z.kind = call.kind /\ z.user = call.user /\ z.key = call.key
          /\ z.before = call.before /\ z.owed = call.due /\ z.queue = call.queue
          /\ z.wire = Append(call.wire, event)
      BY <1>2, <3>1, FlowTypes DEF Call
    <3>3. y = [z EXCEPT !.wire = @ \o z.queue, !.queue = <<>>]
      BY <3>1 DEF Drained
    <3>5. /\ y.kind = z.kind /\ y.user = z.user /\ y.key = z.key
          /\ y.before = z.before /\ y.owed = z.owed /\ y.wire = z.wire \o z.queue
      BY <3>2, <3>3 DEF Call
    <3> QED BY <2>0, <3>4, <3>5
  <2>3. /\ w \in Seq(Event) /\ Ordered(w)
        /\ Told(w) = Told(call.wire) \union {event} \union Told(call.queue)
        /\ \E i \in DOMAIN w : Ends(w) = {i}
    <3>1. /\ call.wire \in Seq(Event) /\ Told(call.wire) \subseteq Stages
          /\ call.queue \in Seq(Stages) /\ event \in Terminals
          /\ Ordered(call.wire) /\ Ordered(call.queue) /\ Before(call.wire, call.queue)
      BY <1>2, FlowTypes DEF Flowing
    <3> QED BY ONLY <2>0, <3>1, OneEnd
  <2> HIDE DEF y
  <2>4. call.due \subseteq Told(w) /\ call.due \in SUBSET Stages
    BY <1>2, <2>3, FlowTypes DEF Flowing
  <2>5. Follows(call, Ended(y)) /\ Ended(y).at = "ended"
    BY <1>2, <2>2, <2>3, <2>4, FlowTypes, EndedOK
  <2> QED BY <2>1, <2>5
<1>3. CASE call.at \in Flow /\ event \notin Terminals
  <2> DEFINE w == call.wire \o call.queue
  <2>1. PICK x : x = Drained([call EXCEPT !.owed = call.due])
    OBVIOUS
  <2>2. Passed(call, event) = x
    BY <1>3, <2>1 DEF Passed
  <2>3. /\ w \in Seq(Event) /\ Told(w) = Told(call.wire) \union Told(call.queue) /\ Ordered(w)
    BY <1>3, FlowTypes, ToldConcat DEF Flowing
  <2>4. x = [call EXCEPT !.owed = call.due, !.wire = w, !.queue = <<>>]
    BY <1>3, <2>1, FlowTypes DEF Drained, Call
  <2> HIDE DEF w
  <2>5. x \in Call
    <3>1. /\ call.due \in SUBSET {"agent", "model"} /\ <<>> \in Seq({"agent", "model"})
          /\ w \in Seq({"agent", "model"} \union Terminals) /\ call \in Call
      BY <1>3, <2>3, FlowTypes DEF Stages, Event
    <3>2. [call EXCEPT !.owed = call.due, !.wire = w, !.queue = <<>>] \in Call
      BY ONLY <3>1 DEF Call
    <3> QED BY <2>4, <3>2
  <2>6. /\ x.kind = call.kind /\ x.user = call.user /\ x.key = call.key /\ Same(call, x)
        /\ x.wire = w /\ x.queue = <<>> /\ x.owed = call.due /\ x.due = call.due
        /\ x.marked = call.marked
    BY <1>3, <2>4, FlowTypes DEF Call, Same
  <2>7. KindOK(x)
    BY <1>3, <2>6, FlowTypes DEF KindOK, Same
  <2>8. Flowing(x)
    <3>1. Told(<<>>) = {} /\ Ordered(<<>>)
      BY DEF Told, Ordered
    <3>2. Before(w, <<>>)
      BY <3>1 DEF Before
    <3> QED BY <1>3, <2>3, <2>6, <3>1, <3>2, FlowTypes DEF Flowing, Same
  <2>9. CallOK(x) /\ Same(call, x)
    BY <1>3, <2>5, <2>6, <2>7, <2>8 DEF CallOK, Same, Flow
  <2>10. x.at # "off"
    BY <1>3, <2>6 DEF Same, Flow
  <2>11. Follows(call, x)
    BY <2>6, <2>9, <2>10 DEF Follows, Same
  <2> QED BY <2>2, <2>9, <2>11
<1> QED BY <1>1, <1>2, <1>3

\* A stage is marked: told once, after those met before it.
LEMMA MarkedOK ==
    ASSUME NEW call, CallOK(call), call.at \in Flow, NEW stage \in Stages, NEW label \in BOOLEAN,
           stage = "model" /\ call.kind = "chat" => "agent" \in call.marked
    PROVE  LET x == Marked(call, stage, label)
           IN  /\ x \in Call /\ Flowing(x) /\ Same(call, x)
               /\ x.kind = call.kind /\ x.user = call.user /\ x.key = call.key
               /\ call.marked \subseteq x.marked
               /\ call.kind = "chat" => stage \in x.marked
<1>1. CASE call.kind # "chat" \/ stage \in call.marked
  <2>1. Marked(call, stage, label) = call
    BY <1>1 DEF Marked
  <2> QED BY <1>1, <2>1, FlowTypes DEF Same
<1>2. CASE call.kind = "chat" /\ stage \notin call.marked /\ ~label
  <2>1. PICK x : x = [call EXCEPT !.marked = @ \union {stage}]
    OBVIOUS
  <2>2. Marked(call, stage, label) = x
    BY <1>2, <2>1 DEF Marked
  <2>3. x \in Call
    <3>1. call \in Call /\ stage \in {"agent", "model"}
      BY FlowTypes DEF Stages
    <3>2. [call EXCEPT !.marked = @ \union {stage}] \in Call
      BY ONLY <3>1 DEF Call
    <3> QED BY <2>1, <3>2
  <2>4. /\ x.kind = call.kind /\ x.user = call.user /\ x.key = call.key /\ Same(call, x)
        /\ x.wire = call.wire /\ x.queue = call.queue /\ x.owed = call.owed
        /\ x.due = call.due /\ x.marked = call.marked \union {stage}
    BY <2>1, FlowTypes DEF Call, Same
  <2>5. Flowing(x)
    BY <1>2, <2>4, FlowTypes DEF Flowing, Same, Stages
  <2> QED BY <2>2, <2>3, <2>4, <2>5
<1>3. CASE call.kind = "chat" /\ stage \notin call.marked /\ label
  <2>0. PICK q : q = Append(call.queue, stage)
    OBVIOUS
  <2>1. PICK x : x = [call EXCEPT !.queue = q, !.due = @ \union {stage}, !.marked = @ \union {stage}]
    OBVIOUS
  <2>2. Marked(call, stage, label) = x
    BY <1>3, <2>0, <2>1, FlowTypes DEF Marked, Labelled, Call
  <2>a. PICK o : o = <<stage>>
    OBVIOUS
  <2>3. o \in Seq(Event) /\ Told(o) = {stage} /\ Ordered(o)
    <3>1. o \in Seq(Event) /\ DOMAIN o = {1} /\ o[1] = stage
      BY <2>a DEF Event
    <3>2. Told(o) = {stage}
      BY ONLY <3>1 DEF Told
    <3>3. Ordered(o)
      BY ONLY <3>1 DEF Ordered
    <3> QED BY <3>1, <3>2, <3>3
  <2>4. q = call.queue \o o /\ q \in Seq(Stages)
    BY <2>0, <2>a, FlowTypes, AppendIsConcat, AppendProperties
  <2>5. Before(call.queue, o) /\ Before(call.wire, o)
    BY <1>3, <2>3, FlowTypes DEF Before, Flowing, Stages
  <2>6. Told(q) = Told(call.queue) \union {stage} /\ Ordered(q)
    <3>1. call.queue \in Seq(Event) /\ Ordered(call.queue)
      BY FlowTypes DEF Flowing
    <3>2. /\ Told(call.queue \o o) = Told(call.queue) \union Told(o)
          /\ Ordered(call.queue \o o)
      BY ONLY <2>3, <2>5, <3>1, ToldConcat
    <3> QED BY <2>3, <2>4, <3>2
  <2>7. Before(call.wire, q)
    BY <2>3, <2>5, <2>6, FlowTypes DEF Before, Flowing
  <2>8. x \in Call
    <3>1. call \in Call /\ stage \in {"agent", "model"} /\ q \in Seq({"agent", "model"})
      BY <2>4, FlowTypes DEF Stages
    <3>2. [call EXCEPT !.queue = q, !.due = @ \union {stage}, !.marked = @ \union {stage}] \in Call
      BY ONLY <3>1 DEF Call
    <3> QED BY <2>1, <3>2
  <2>9. /\ x.kind = call.kind /\ x.user = call.user /\ x.key = call.key /\ Same(call, x)
        /\ x.wire = call.wire /\ x.queue = q /\ x.owed = call.owed
        /\ x.due = call.due \union {stage} /\ x.marked = call.marked \union {stage}
    BY <2>1, FlowTypes DEF Call, Same
  <2>10. Flowing(x)
    BY <1>3, <2>6, <2>7, <2>9, FlowTypes DEF Flowing, Same, Stages
  <2> QED BY <2>2, <2>8, <2>9, <2>10
<1> QED BY <1>1, <1>2, <1>3

LEMMA BegunOK ==
    ASSUME NEW call, CallOK(call), call.at \in {"agent", "model"}, NEW label \in BOOLEAN
    PROVE  LET x == Beginning(call, label)
           IN  /\ Follows(call, x) /\ x.at = "prompt"
               /\ x.sends = call.sends /\ x.before = call.before /\ x.after = call.after
<1>1. PICK m : m = Marked(call, "agent", label)
  OBVIOUS
<1>2. call.at \in Flow
  BY DEF Flow
<1>3. /\ m \in Call /\ Flowing(m) /\ Same(call, m)
      /\ m.kind = call.kind /\ m.user = call.user /\ m.key = call.key
      /\ call.kind = "chat" => "agent" \in m.marked
  BY <1>1, <1>2, MarkedOK DEF Stages
<1>4. PICK x : x = [m EXCEPT !.at = "prompt", !.shown = {}, !.shownSnapshot = 0, !.triggered = FALSE]
  OBVIOUS
<1>5. x \in Call
  <2>1. 0 \in 0 .. MaxCalls
    OBVIOUS
  <2>2. [m EXCEPT !.at = "prompt", !.shown = {}, !.shownSnapshot = 0, !.triggered = FALSE] \in Call
    BY ONLY <1>3, <2>1 DEF Call
  <2> QED BY <1>4, <2>2
<1>6. /\ x.kind = m.kind /\ x.user = m.user /\ x.key = m.key /\ x.at = "prompt"
      /\ x.sends = m.sends /\ x.before = m.before /\ x.after = m.after
      /\ x.wire = m.wire /\ x.queue = m.queue /\ x.owed = m.owed
      /\ x.due = m.due /\ x.marked = m.marked
  BY <1>3, <1>4 DEF Call
<1>7. Flowing(x)
  BY <1>3, <1>6 DEF Flowing
<1>8. KindOK(x)
  BY <1>2, <1>3, <1>6, FlowTypes DEF KindOK, Flow
<1>9. CallOK(x)
  BY <1>5, <1>6, <1>7, <1>8 DEF CallOK, Flow
<1>10. Follows(call, x)
  BY <1>3, <1>6, <1>9 DEF Follows, Same, Late, Flow
<1>11. x = Beginning(call, label)
  BY <1>1, <1>4 DEF Beginning
<1> QED BY <1>3, <1>6, <1>10, <1>11 DEF Same

LEMMA PromptedOK ==
    ASSUME NEW call, CallOK(call), call.at = "prompt",
           NEW shown \in SUBSET Shown, NEW snapshot \in 0 .. MaxCalls, NEW triggered \in BOOLEAN
    PROVE  LET x == Prompting(call, shown, snapshot, triggered)
           IN  /\ Follows(call, x) /\ x.at = "model"
               /\ x.sends = call.sends /\ x.before = call.before /\ x.after = call.after
               /\ x.shown = shown /\ x.shownSnapshot = snapshot
<1>1. PICK m : m = Marked(call, "model", TRUE)
  OBVIOUS
<1>2. call.at \in Flow
  BY DEF Flow
<1>3. /\ m \in Call /\ Flowing(m) /\ Same(call, m)
      /\ m.kind = call.kind /\ m.user = call.user /\ m.key = call.key
      /\ call.marked \subseteq m.marked
  <2>1. call.kind = "chat" => "agent" \in call.marked
    BY <1>2, FlowTypes DEF Flowing
  <2> QED BY <1>1, <1>2, <2>1, MarkedOK DEF Stages
<1>4. PICK x : x = [m EXCEPT !.at = "model", !.shown = shown, !.shownSnapshot = snapshot,
                              !.triggered = triggered]
  OBVIOUS
<1>5. x \in Call
  <2>1. shown \in SUBSET [heading : Seq(Names), field : Seq(Names), from : Calls]
    BY DEF Shown
  <2>2. [m EXCEPT !.at = "model", !.shown = shown, !.shownSnapshot = snapshot,
                  !.triggered = triggered] \in Call
    BY ONLY <1>3, <2>1, snapshot \in 0 .. MaxCalls, triggered \in BOOLEAN DEF Call
  <2> QED BY <1>4, <2>2
<1>6. /\ x.kind = m.kind /\ x.user = m.user /\ x.key = m.key /\ x.at = "model"
      /\ x.sends = m.sends /\ x.before = m.before /\ x.after = m.after
      /\ x.wire = m.wire /\ x.queue = m.queue /\ x.owed = m.owed
      /\ x.due = m.due /\ x.marked = m.marked
      /\ x.shown = shown /\ x.shownSnapshot = snapshot
  BY <1>3, <1>4 DEF Call
<1>7. Flowing(x)
  BY <1>2, <1>3, <1>6, FlowTypes DEF Flowing
<1>8. KindOK(x)
  BY <1>2, <1>3, <1>6, FlowTypes DEF KindOK, Flow
<1>9. CallOK(x)
  BY <1>5, <1>6, <1>7, <1>8 DEF CallOK, Flow
<1>10. Follows(call, x)
  BY <1>3, <1>6, <1>9 DEF Follows, Same, Late, Flow
<1>11. x = Prompting(call, shown, snapshot, triggered)
  BY <1>1, <1>4 DEF Prompting
<1> QED BY <1>3, <1>6, <1>10, <1>11 DEF Same

-----------------------------------------------------------------------------
(* The calls together: each goes its own way, and keeps what it is.        *)

CallsInv ==
    /\ calls \in [Calls -> Call] /\ count \in 0 .. MaxCalls
    /\ \A c \in Calls : /\ CallOK(calls[c])
                        /\ c > count <=> calls[c].at = "off"
                        /\ calls[c].at = "off" => calls[c] = Off

Past == {"done", "failed"}

\* A call that has come only moves on, and one that comes knows what is over and answered.
Onward ==
    /\ \A c \in Calls : calls[c].at # "off" => Follows(calls[c], calls'[c])
    /\ \A c \in Calls : calls[c].at \in Past => calls'[c] = calls[c]
    /\ \A c \in Calls : calls[c].at = "off" =>
          \/ calls'[c] = Off
          \/ /\ calls'[c].at = "get" \/ (calls'[c].at = "open" /\ calls'[c].kind = "chat")
             /\ calls'[c].before = answered
             /\ calls'[c].after \subseteq {d \in Calls : calls[d].at \in Past}

LEMMA FollowsItself ==
    ASSUME NEW call, CallOK(call), call.at # "off"
    PROVE  Follows(call, call)
BY DEF Follows

\* One call moves.
LEMMA OneMoves ==
    ASSUME CallsInv, NEW c \in Calls, calls[c].at \notin Past \union {"off"},
           NEW x, Follows(calls[c], x), calls' = [calls EXCEPT ![c] = x], count' = count
    PROVE  /\ CallsInv' /\ Onward
           /\ calls'[c] = x /\ \A d \in Calls \ {c} : calls'[d] = calls[d]
<1>1. calls'[c] = x /\ \A d \in Calls \ {c} : calls'[d] = calls[d]
  BY DEF CallsInv
<1>2. CallOK(x) /\ x.at # "off" /\ x \in Call
  BY DEF Follows, CallOK
<1>3. calls' \in [Calls -> Call]
  BY <1>2 DEF CallsInv
<1>4. ASSUME NEW d \in Calls
      PROVE  /\ CallOK(calls'[d])
             /\ d > count' <=> calls'[d].at = "off"
             /\ calls'[d].at = "off" => calls'[d] = Off
  BY <1>1, <1>2 DEF CallsInv
<1>5. CallsInv'
  BY <1>3, <1>4 DEF CallsInv
<1>6. ASSUME NEW d \in Calls, calls[d].at # "off" PROVE Follows(calls[d], calls'[d])
  BY <1>1, <1>6, FollowsItself DEF CallsInv
<1>7. Onward
  BY <1>1, <1>6 DEF Onward, CallsInv
<1> QED BY <1>1, <1>5, <1>7

LEMMA NoneMoves ==
    ASSUME CallsInv, UNCHANGED <<calls, count>>
    PROVE  CallsInv' /\ Onward
<1>1. ASSUME NEW d \in Calls, calls[d].at # "off" PROVE Follows(calls[d], calls'[d])
  BY <1>1, FollowsItself DEF CallsInv
<1>2. CallsInv'
  BY DEF CallsInv
<1> QED BY <1>1, <1>2 DEF Onward, CallsInv

LEMMA RestartMoves ==
    ASSUME CallsInv, Restart
    PROVE  CallsInv' /\ Onward /\ \A c \in Calls : calls'[c].at \in Past \union {"off"}
<1>1. \A c \in Calls : calls'[c] = IF Active(c) THEN Failed(calls[c]) ELSE calls[c]
  BY DEF Restart
<1>2. ASSUME NEW c \in Calls, calls[c].at # "off"
      PROVE  Follows(calls[c], calls'[c]) /\ calls'[c].at \in Past
  <2>1. CASE Active(c)
    BY <1>1, <1>2, <2>1, LeftOK DEF CallsInv, Past
  <2>2. CASE ~Active(c)
    BY <1>1, <1>2, <2>2, FollowsItself DEF CallsInv, Active, Past
  <2> QED BY <2>1, <2>2
<1>3. ASSUME NEW c \in Calls, calls[c].at = "off" PROVE calls'[c] = Off /\ Off.at = "off"
  BY <1>1, <1>3 DEF CallsInv, Active, Off
<1>4. \A c \in Calls : CallOK(calls'[c])
  BY <1>2, <1>3, OffOK DEF Follows
<1>5. calls' \in [Calls -> Call]
  BY <1>4 DEF CallOK, Restart
<1>6. count' = count
  BY DEF Restart
<1>7. CallsInv'
  BY <1>2, <1>3, <1>4, <1>5, <1>6 DEF CallsInv, Past
<1>8. Onward
  BY <1>1, <1>2, <1>3 DEF Onward, Active, Past
<1> QED BY <1>2, <1>3, <1>7, <1>8

\* A call comes: one of the four.
Coming == {call \in Call :
    /\ KindOK(call) /\ Quiet(call)
    /\ call.at = "get" \/ (call.at = "open" /\ call.kind = "chat")}

LEMMA ComingKinds ==
    ASSUME NEW u \in Users
    PROVE  /\ \A id \in SurfaceIds :
                 [Off EXCEPT !.kind = "click", !.user = u, !.key = ActionKey(id), !.at = "get"]
                 \in Coming
           /\ \A id \in SurfaceIds, sends \in BOOLEAN :
                 [Off EXCEPT !.kind = "run", !.user = u, !.key = ActionKey(id),
                             !.sends = sends, !.at = "get"] \in Coming
           /\ \A id \in FrameIds :
                 [Off EXCEPT !.kind = "frame", !.user = u, !.key = FrameKey(id), !.at = "get"]
                 \in Coming
           /\ \A sends \in BOOLEAN :
                 [Off EXCEPT !.kind = "chat", !.user = u, !.sends = sends, !.at = "open"] \in Coming
<1>1. ASSUME NEW k \in {"click", "run", "frame"}, NEW y \in Keys, NEW s \in BOOLEAN,
             k \in {"click", "run"} => \E id \in SurfaceIds : y = ActionKey(id),
             k = "frame" => \E id \in FrameIds : y = FrameKey(id)
      PROVE  /\ [Off EXCEPT !.kind = k, !.user = u, !.key = y, !.sends = s, !.at = "get"] \in Coming
             /\ [Off EXCEPT !.kind = k, !.user = u, !.key = y, !.at = "get"] \in Coming
  <2>1. Off \in Call
    BY OffOK DEF CallOK
  <2>2. PICK x : x = [Off EXCEPT !.kind = k, !.user = u, !.at = "get"]
    OBVIOUS
  <2>3. x \in Call
    <3>1. k \in {"none", "click", "run", "frame", "chat"} /\ u \in Users \union {"none"}
      OBVIOUS
    <3>2. [Off EXCEPT !.kind = k, !.user = u, !.at = "get"] \in Call
      BY ONLY <2>1, <3>1 DEF Call
    <3> QED BY <2>2, <3>2
  <2>4. [x EXCEPT !.key = y, !.sends = s] \in Call /\ [x EXCEPT !.key = y] \in Call
    BY ONLY <2>3, y \in Keys, s \in BOOLEAN DEF Call
  <2>5. /\ [Off EXCEPT !.kind = k, !.user = u, !.key = y, !.sends = s, !.at = "get"] =
              [x EXCEPT !.key = y, !.sends = s]
        /\ [Off EXCEPT !.kind = k, !.user = u, !.key = y, !.at = "get"] = [x EXCEPT !.key = y]
    BY <2>2 DEF Off
  <2>6. /\ x.kind = k /\ x.user = u /\ x.at = "get" /\ Quiet(x)
    BY <2>2 DEF Off, Quiet
  <2>7. ASSUME NEW z \in {[x EXCEPT !.key = y, !.sends = s], [x EXCEPT !.key = y]}
        PROVE  z \in Coming
    <3>1. z \in Call
      BY <2>4
    <3>2. z.kind = k /\ z.user = u /\ z.at = "get" /\ z.key = y /\ Quiet(z)
      <4>1. CASE z = [x EXCEPT !.key = y, !.sends = s]
        BY <2>3, <2>6, <4>1 DEF Quiet, Call
      <4>2. CASE z = [x EXCEPT !.key = y]
        BY <2>3, <2>6, <4>2 DEF Quiet, Call
      <4> QED BY <2>7, <4>1, <4>2
    <3>3. KindOK(z)
      BY <1>1, <3>2 DEF KindOK, Flow
    <3> QED BY <3>1, <3>2, <3>3 DEF Coming
  <2> QED BY <2>5, <2>7
<1>2. ASSUME NEW s \in BOOLEAN
      PROVE  [Off EXCEPT !.kind = "chat", !.user = u, !.sends = s, !.at = "open"] \in Coming
  <2>1. Off \in Call
    BY OffOK DEF CallOK
  <2>2. PICK x : x = [Off EXCEPT !.kind = "chat", !.user = u, !.at = "open"]
    OBVIOUS
  <2>3. x \in Call
    <3>1. u \in Users \union {"none"}
      OBVIOUS
    <3>2. [Off EXCEPT !.kind = "chat", !.user = u, !.at = "open"] \in Call
      BY ONLY <2>1, <3>1 DEF Call
    <3> QED BY <2>2, <3>2
  <2>4. PICK z : z = [x EXCEPT !.sends = s]
    OBVIOUS
  <2>5. z \in Call
    BY ONLY <2>3, <2>4, s \in BOOLEAN DEF Call
  <2>6. z.kind = "chat" /\ z.user = u /\ z.at = "open" /\ z.key = <<>> /\ Quiet(z)
    BY <2>2, <2>4 DEF Off, Quiet
  <2>7. KindOK(z)
    BY <2>6 DEF KindOK, Flow
  <2>8. z \in Coming
    BY <2>5, <2>6, <2>7 DEF Coming
  <2> QED BY <2>2, <2>4, <2>8
<1>3. \A id \in SurfaceIds : ActionKey(id) \in Keys
  BY DEF Keys
<1>4. \A id \in FrameIds : FrameKey(id) \in Keys
  BY DEF Keys
<1> QED BY <1>1, <1>2, <1>3, <1>4

LEMMA ArriveMoves ==
    ASSUME CallsInv, answered \subseteq Calls, NEW call \in Coming, Arrive(call)
    PROVE  CallsInv' /\ Onward
<1> DEFINE over == {c \in Calls : call.sends /\ calls[c].at \in {"done", "failed"}}
<1>1. PICK x : x = [call EXCEPT !.before = answered, !.after = over]
  OBVIOUS
<1>2. /\ count' = count + 1 /\ count' \in Calls /\ count < MaxCalls
      /\ calls' = [calls EXCEPT ![count'] = x]
  BY <1>1 DEF Arrive, CallsInv, Calls
<1>3. x \in Call
  <2>1. call \in Call /\ answered \in SUBSET Calls /\ over \in SUBSET Calls
    BY DEF Coming
  <2> HIDE DEF over
  <2>2. [call EXCEPT !.before = answered, !.after = over] \in Call
    BY ONLY <2>1 DEF Call
  <2> QED BY <1>1, <2>2
<1>4. /\ x.kind = call.kind /\ x.user = call.user /\ x.key = call.key /\ x.at = call.at
      /\ x.before = answered /\ x.after = over
      /\ x.wire = call.wire /\ x.queue = call.queue /\ x.owed = call.owed
      /\ x.due = call.due /\ x.marked = call.marked
  BY <1>1 DEF Coming, Call
<1>5. x.at = "get" \/ (x.at = "open" /\ x.kind = "chat")
  BY <1>4 DEF Coming
<1>6. CallOK(x)
  BY <1>3, <1>4, <1>5 DEF CallOK, Coming, KindOK, Quiet, Flow
<1>7. calls'[count'] = x /\ \A d \in Calls \ {count'} : calls'[d] = calls[d]
  BY <1>2 DEF CallsInv
<1>8. calls[count'].at = "off"
  BY <1>2 DEF CallsInv
<1>9. ASSUME NEW d \in Calls
      PROVE  /\ CallOK(calls'[d])
             /\ d > count' <=> calls'[d].at = "off"
             /\ calls'[d].at = "off" => calls'[d] = Off
  <2>1. CASE d = count'
    BY <1>2, <1>5, <1>6, <1>7, <2>1 DEF Calls
  <2>2. CASE d # count'
    BY <1>2, <1>7, <2>2 DEF CallsInv, Calls
  <2> QED BY <2>1, <2>2
<1>10. calls' \in [Calls -> Call] /\ count' \in 0 .. MaxCalls
  BY <1>2, <1>3 DEF CallsInv, Calls
<1>11. CallsInv'
  BY <1>9, <1>10 DEF CallsInv
<1>12. ASSUME NEW d \in Calls, calls[d].at # "off"
       PROVE  calls'[d] = calls[d] /\ Follows(calls[d], calls'[d])
  BY <1>7, <1>8, <1>12, FollowsItself DEF CallsInv
<1>13. over \subseteq {d \in Calls : calls[d].at \in Past}
  BY DEF Past
<1>14. ASSUME NEW d \in Calls, calls[d].at = "off"
       PROVE  \/ calls'[d] = Off
              \/ /\ calls'[d].at = "get" \/ (calls'[d].at = "open" /\ calls'[d].kind = "chat")
                 /\ calls'[d].before = answered
                 /\ calls'[d].after \subseteq {e \in Calls : calls[e].at \in Past}
  BY <1>4, <1>5, <1>7, <1>13, <1>14 DEF CallsInv
<1>15. \A d \in Calls : calls[d].at \in Past => calls[d].at # "off"
  BY DEF Past
<1>16. Onward
  BY <1>12, <1>14, <1>15 DEF Onward
<1> QED BY <1>11, <1>16

-----------------------------------------------------------------------------
(* Every variable has its type, and a call is where it may be.             *)

Session == [there : BOOLEAN, state : [Keys -> 0 .. MaxCalls],
            snapshot : 0 .. MaxCalls, trigger : 0 .. MaxCalls]

SessionsInv ==
    /\ sessions \in [Users -> Session]
    /\ \A u \in Users : ~sessions[u].there => sessions[u] = NoSession

TypeInv ==
    /\ grants \subseteq Grants
    /\ SessionsInv
    /\ CallsInv
    /\ answered \subseteq {c \in Calls : calls[c].at \in Late}
    /\ \A c \in Calls : calls[c].at = "append" => Mine(c).there

LEMMA NoSessionType == NoSession \in Session /\ NewSession \in Session /\ NewSession.there
                       /\ ~NoSession.there
<1>1. [k \in Keys |-> 0] \in [Keys -> 0 .. MaxCalls]
  OBVIOUS
<1>2. NoSession \in Session
  BY <1>1 DEF NoSession, Session
<1> QED BY <1>2 DEF NewSession, NoSession, Session

LEMMA Acting ==
    ASSUME CallsInv, NEW c \in Calls, calls[c].at \notin Past \union {"off"}
    PROVE  /\ calls[c].user \in Users /\ calls[c] \in Call /\ KindOK(calls[c])
           /\ c \in 1 .. count
           /\ calls[c].at \in {"get", "append"} => calls[c].key \in Keys
<1>1. /\ calls[c] \in Call /\ KindOK(calls[c]) /\ c \in 1 .. count
      /\ calls[c].kind # "none"
  BY DEF CallsInv, CallOK, KindOK, Calls
<1> QED BY <1>1 DEF KindOK, Keys

\* The moves of a call, by the place it is at.
LEMMA Moved ==
    ASSUME CallsInv, NEW c \in Calls, calls[c].at \notin Past \union {"off"}, NEW place,
           \/ calls[c].at = "get" /\ place = "append"
           \/ calls[c].at = "get" /\ calls[c].kind = "run" /\ place = "create"
           \/ calls[c].at = "create" /\ place = "append"
           \/ calls[c].at = "append" /\ calls[c].kind = "run" /\ place = "build"
           \/ calls[c].at = "build" /\ place = "open"
           \/ calls[c].at = "open" /\ place = "agent",
           Move(c, place), count' = count
    PROVE  /\ CallsInv' /\ Onward /\ calls'[c].at = place
           /\ calls'[c].sends = calls[c].sends
           /\ calls'[c].before = calls[c].before /\ calls'[c].after = calls[c].after
           /\ \A d \in Calls \ {c} : calls'[d] = calls[d]
<1>1. PICK x : x = Moving(calls[c], place)
  OBVIOUS
<1>2. CallOK(calls[c])
  BY DEF CallsInv
<1>3. /\ Follows(calls[c], x) /\ x.at = place /\ x.sends = calls[c].sends
      /\ x.before = calls[c].before /\ x.after = calls[c].after
  BY <1>1, <1>2, MoveOK
<1>4. calls' = [calls EXCEPT ![c] = x]
  BY <1>1 DEF Move, Moving
<1> QED BY <1>3, <1>4, OneMoves

LEMMA Finished ==
    ASSUME CallsInv, NEW c \in Calls, calls[c].at \notin Past \union {"off"},
           Finish(c) \/ Fail(c), count' = count
    PROVE  /\ CallsInv' /\ Onward /\ calls'[c].at \in Past
           /\ \A d \in Calls \ {c} : calls'[d] = calls[d]
<1>1. CallOK(calls[c]) /\ calls[c].at # "off"
  BY DEF CallsInv
<1>2. PICK x : /\ x \in {Done(calls[c]), Failed(calls[c])}
               /\ calls' = [calls EXCEPT ![c] = x]
  BY DEF Finish, Fail
<1>3. Follows(calls[c], x) /\ x.at \in Past
  BY <1>1, <1>2, LeftOK DEF Past
<1> QED BY <1>2, <1>3, OneMoves

LEMMA Spoken ==
    ASSUME CallsInv, NEW c \in Calls, NEW event \in {"text"} \union Terminals, Emit(c, event)
    PROVE  /\ CallsInv' /\ Onward
           /\ calls'[c].at = "ended" \/ Same(calls[c], calls'[c])
           /\ \A d \in Calls \ {c} : calls'[d] = calls[d]
<1>1. CallOK(calls[c]) /\ calls[c].at \notin Past \union {"off"} /\ count' = count
  BY DEF CallsInv, Emit, Streaming, Past, bounds
<1>2. PICK x : x = Passed(calls[c], event)
  OBVIOUS
<1>3. Follows(calls[c], x) /\ (x.at = "ended" \/ Same(calls[c], x))
  BY <1>1, <1>2, PassedOK DEF Emit, Streaming, Flow
<1>4. calls' = [calls EXCEPT ![c] = x]
  BY <1>2 DEF Emit
<1> QED BY <1>1, <1>3, <1>4, OneMoves

LEMMA Interrupted ==
    ASSUME CallsInv, NEW c \in Calls, NEW known \in BOOLEAN, Raise(c, known)
    PROVE  /\ CallsInv' /\ Onward
           /\ calls'[c].at \in {"ended", "failed"}
           /\ \A d \in Calls \ {c} : calls'[d] = calls[d]
<1>1. /\ CallOK(calls[c]) /\ calls[c].at \notin Past \union {"off"} /\ count' = count
      /\ calls[c].at \in Flow
  BY DEF CallsInv, Raise, Streaming, Past, bounds, Flow
<1>2. PICK x : x = Raised(calls[c], known)
  OBVIOUS
<1>3. Follows(calls[c], x) /\ x.at \in {"ended", "failed"}
  BY <1>1, <1>2, RaisedOK
<1>4. calls' = [calls EXCEPT ![c] = x]
  BY <1>2 DEF Raise
<1> QED BY <1>1, <1>3, <1>4, OneMoves

LEMMA Begun ==
    ASSUME CallsInv, NEW c \in Calls, NEW label \in BOOLEAN, BeginAgent(c, label)
    PROVE  /\ CallsInv' /\ Onward /\ calls'[c].at = "prompt"
           /\ calls'[c].sends = calls[c].sends
           /\ calls'[c].before = calls[c].before /\ calls'[c].after = calls[c].after
           /\ \A d \in Calls \ {c} : calls'[d] = calls[d]
<1>1. /\ CallOK(calls[c]) /\ calls[c].at \notin Past \union {"off"} /\ count' = count
      /\ calls[c].at \in {"agent", "model"}
  BY DEF CallsInv, BeginAgent, Past, bounds
<1>2. PICK x : x = Beginning(calls[c], label)
  OBVIOUS
<1>3. /\ Follows(calls[c], x) /\ x.at = "prompt" /\ x.sends = calls[c].sends
      /\ x.before = calls[c].before /\ x.after = calls[c].after
  BY <1>1, <1>2, BegunOK
<1>4. calls' = [calls EXCEPT ![c] = x]
  BY <1>2 DEF BeginAgent, Beginning
<1> QED BY <1>1, <1>3, <1>4, OneMoves

LEMMA Prompted ==
    ASSUME TypeInv, NEW c \in Calls, Prompt(c)
    PROVE  /\ CallsInv' /\ Onward /\ calls'[c].at = "model"
           /\ calls'[c].sends = calls[c].sends
           /\ calls'[c].before = calls[c].before /\ calls'[c].after = calls[c].after
           /\ calls'[c].shown = ShownActions(Mine(c)) \union ShownFrames(Mine(c))
           /\ calls'[c].shownSnapshot = Mine(c).snapshot
           /\ \A d \in Calls \ {c} : calls'[d] = calls[d]
<1>1. /\ CallOK(calls[c]) /\ calls[c].at \notin Past \union {"off"} /\ count' = count
      /\ calls[c].at = "prompt" /\ calls[c].user \in Users /\ CallsInv
  BY Acting DEF CallsInv, TypeInv, Prompt, Past, bounds
<1>2. Mine(c) \in Session
  BY <1>1 DEF Mine, TypeInv, SessionsInv
<1>3. PICK shown, snapshot, triggered :
         /\ shown = ShownActions(Mine(c)) \union ShownFrames(Mine(c))
         /\ snapshot = Mine(c).snapshot /\ triggered = (Mine(c).trigger # 0)
  OBVIOUS
<1>4. shown \in SUBSET Shown /\ snapshot \in 0 .. MaxCalls /\ triggered \in BOOLEAN
  BY <1>2, <1>3, ShownType DEF Session
<1>5. PICK x : x = Prompting(calls[c], shown, snapshot, triggered)
  OBVIOUS
<1>6. /\ Follows(calls[c], x) /\ x.at = "model" /\ x.sends = calls[c].sends
      /\ x.before = calls[c].before /\ x.after = calls[c].after
      /\ x.shown = shown /\ x.shownSnapshot = snapshot
  BY <1>1, <1>4, <1>5, PromptedOK
<1>7. calls' = [calls EXCEPT ![c] = x]
  BY <1>3, <1>5 DEF Prompt, Prompting
<1> QED BY <1>1, <1>3, <1>6, <1>7, OneMoves

\* What happens to the sessions: one is made if it is not there, a push is written, a
\* turn brings what it was sent, or the process restarts.
LEMMA Creating ==
    ASSUME TypeInv, NEW c \in Calls, CreateSession(c)
    PROVE  /\ SessionsInv' /\ calls[c].user \in Users
           /\ \A u \in Users :
                \/ sessions'[u] = sessions[u]
                \/ ~sessions[u].there /\ sessions'[u] = NewSession
           /\ Created(c).ok => sessions'[calls[c].user] = NewSession
<1>1. calls[c].at = "create" /\ calls[c].user \in Users
  BY Acting DEF CreateSession, TypeInv, Past
<1>2. PICK s : s = Created(c).session
  OBVIOUS
<1>3. s \in {Mine(c), NewSession} /\ (s # Mine(c) => ~Mine(c).there /\ s = NewSession)
      /\ (Created(c).ok => s = NewSession)
  BY <1>2 DEF Created
<1>4. sessions' = [sessions EXCEPT ![calls[c].user] = s]
  BY <1>2 DEF CreateSession
<1>5. Mine(c) = sessions[calls[c].user] /\ Mine(c) \in Session
  BY <1>1 DEF Mine, TypeInv, SessionsInv
<1> QED BY <1>1, <1>3, <1>4, <1>5, NoSessionType DEF TypeInv, SessionsInv

LEMMA Appended ==
    ASSUME TypeInv, NEW c \in Calls, AppendEvent(c)
    PROVE  LET u == calls[c].user  k == calls[c].key
           IN  /\ SessionsInv' /\ u \in Users /\ k \in Keys
               /\ sessions'[u].there /\ sessions'[u].snapshot = sessions[u].snapshot
               /\ sessions'[u].state = [sessions[u].state EXCEPT ![k] = c]
               /\ \A v \in Users \ {u} : sessions'[v] = sessions[v]
<1> DEFINE u == calls[c].user  k == calls[c].key
<1>1. u \in Users /\ k \in Keys /\ Mine(c).there
  BY Acting DEF AppendEvent, TypeInv, Past
<1>2. PICK s : s = [sessions[u] EXCEPT !.state[k] = c]
  OBVIOUS
<1>3. sessions' = [sessions EXCEPT ![u] = s]
  BY <1>2 DEF AppendEvent
<1>4. sessions[u] \in Session /\ sessions[u].there
  BY <1>1 DEF TypeInv, SessionsInv, Mine
<1> HIDE DEF u, k
<1>5. /\ s.there /\ s.snapshot = sessions[u].snapshot /\ s.trigger = sessions[u].trigger
      /\ s.state = [sessions[u].state EXCEPT ![k] = c]
  BY <1>2, <1>4 DEF Session
<1>6. s \in Session
  <2>1. PICK f : f = [sessions[u].state EXCEPT ![k] = c]
    OBVIOUS
  <2>2. f \in [Keys -> 0 .. MaxCalls]
    BY <1>1, <1>4, <2>1 DEF Session, Calls
  <2>3. s = [sessions[u] EXCEPT !.state = f]
    BY <1>2, <1>4, <2>1 DEF Session
  <2> QED BY ONLY <1>4, <2>2, <2>3 DEF Session
<1> QED BY <1>1, <1>3, <1>5, <1>6 DEF TypeInv, SessionsInv, u, k

LEMMA Opened ==
    ASSUME TypeInv, NEW c \in Calls, OpenRun(c)
    PROVE  LET u == calls[c].user
           IN  /\ SessionsInv' /\ u \in Users
               /\ sessions'[u].there /\ sessions'[u].state = sessions[u].state
               /\ sessions'[u].snapshot = IF calls[c].sends THEN c ELSE sessions[u].snapshot
               /\ \A v \in Users \ {u} : sessions'[v] = sessions[v]
<1> DEFINE u == calls[c].user
<1>1. u \in Users
  BY Acting DEF OpenRun, TypeInv, Past
<1>2. PICK s : s = StateWith(c)
  OBVIOUS
<1>3. sessions' = [sessions EXCEPT ![u] = s]
  BY <1>2 DEF OpenRun
<1>4. PICK o : o = sessions[u] /\ o \in Session
  BY <1>1 DEF TypeInv, SessionsInv
<1>5. PICK n, g : /\ n = IF calls[c].sends THEN c ELSE o.snapshot
                  /\ g = IF calls[c].kind = "run" THEN c ELSE o.trigger
  OBVIOUS
<1>6. n \in 0 .. MaxCalls /\ g \in 0 .. MaxCalls
  BY <1>4, <1>5 DEF Session, Calls
<1>7. s = [o EXCEPT !.there = TRUE, !.snapshot = n, !.trigger = g]
  BY <1>2, <1>4, <1>5 DEF StateWith, Mine
<1> HIDE DEF u
<1>8. s.there /\ s.snapshot = n /\ s.state = o.state /\ s \in Session
  BY <1>4, <1>6, <1>7 DEF Session
<1> QED BY <1>1, <1>3, <1>4, <1>5, <1>8 DEF TypeInv, SessionsInv, u

\* No step takes a session away from a call that goes on.
SessionsStay ==
    \A u \in Users : \/ sessions[u].there => sessions'[u].there
                     \/ \A c \in Calls : calls'[c].at \in Past \union {"off"}

LEMMA AppendStays ==
    ASSUME TypeInv, CallsInv', Onward, SessionsStay,
           \A c \in Calls : (calls'[c].at = "append" /\ calls[c].at # "append") =>
                sessions'[calls[c].user].there /\ calls[c].at # "off"
    PROVE  \A c \in Calls : calls'[c].at = "append" => sessions'[calls'[c].user].there
<1>1. SUFFICES ASSUME NEW c \in Calls, calls'[c].at = "append"
               PROVE  sessions'[calls'[c].user].there
  OBVIOUS
<1>2. calls[c].at # "off"
  BY <1>1 DEF Onward, TypeInv, CallsInv, Past, Off
<1>3. calls[c].user = calls'[c].user
  BY <1>2 DEF Onward, Follows
<1>4. CASE calls[c].at = "append"
  <2>1. calls[c].user \in Users /\ sessions[calls[c].user].there
    BY <1>4, Acting DEF TypeInv, Past, Mine
  <2> QED BY <1>1, <1>3, <2>1 DEF SessionsStay, Past
<1>5. CASE calls[c].at # "append"
  BY <1>1, <1>3, <1>5
<1> QED BY <1>4, <1>5

LEMMA AnsweredStays ==
    ASSUME TypeInv, Onward, NEW A, A \subseteq {c \in Calls : calls'[c].at \in Late},
           answered' \subseteq answered \union A
    PROVE  answered' \subseteq {c \in Calls : calls'[c].at \in Late}
<1>1. ASSUME NEW c \in answered PROVE c \in Calls /\ calls'[c].at \in Late
  BY <1>1 DEF TypeInv, Onward, Follows, Late, Flow
<1> QED BY <1>1

LEMMA TypeInit == Init => TypeInv
<1> SUFFICES ASSUME Init PROVE TypeInv
  OBVIOUS
<1>1. SessionsInv
  BY NoSessionType DEF Init, SessionsInv
<1>2. CallsInv
  <2>1. calls \in [Calls -> Call]
    BY OffOK DEF Init, CallOK
  <2>2. count \in 0 .. MaxCalls /\ \A c \in Calls : c > count
    BY DEF Init, Calls
  <2>3. Off.at = "off"
    BY DEF Off
  <2> QED BY <2>1, <2>2, <2>3, OffOK DEF Init, CallsInv
<1>3. \A c \in Calls : calls[c].at # "append"
  BY DEF Init, Off
<1> QED BY <1>1, <1>2, <1>3 DEF Init, TypeInv

NoneAppends ==
    \A c \in Calls : calls'[c].at = "append" => calls[c].at = "append"

LEMMA TypePieces ==
    ASSUME TypeInv, grants' \subseteq Grants, CallsInv', Onward, SessionsInv', SessionsStay,
           answered' \subseteq answered \union {c \in Calls : calls'[c].at \in Late},
           \A c \in Calls : (calls'[c].at = "append" /\ calls[c].at # "append") =>
                sessions'[calls[c].user].there /\ calls[c].at # "off"
    PROVE  TypeInv'
<1>1. answered' \subseteq {c \in Calls : calls'[c].at \in Late}
  BY AnsweredStays
<1>2. \A c \in Calls : calls'[c].at = "append" => sessions'[calls'[c].user].there
  BY AppendStays
<1> QED BY <1>1, <1>2 DEF TypeInv, Mine

LEMMA SessionsSame ==
    ASSUME TypeInv, sessions' = sessions
    PROVE  SessionsInv' /\ SessionsStay
BY DEF TypeInv, SessionsInv, SessionsStay

LEMMA TypeStep ==
    ASSUME TypeInv, [Next]_vars
    PROVE  TypeInv' /\ Onward /\ SessionsStay
<1> DEFINE P == TypeInv' /\ Onward /\ SessionsStay
<1> USE DEF bounds
<1>0. CallsInv /\ answered \subseteq Calls /\ grants \subseteq Grants
  BY DEF TypeInv
<1>1. ASSUME NEW call \in Coming, Arrive(call) PROVE P
  <2>1. CallsInv' /\ Onward
    BY <1>0, <1>1, ArriveMoves
  <2>2. sessions' = sessions /\ answered' = answered /\ grants' = grants
    BY <1>1 DEF Arrive
  <2>3. NoneAppends
    <3>1. SUFFICES ASSUME NEW d \in Calls, calls'[d].at = "append" PROVE calls[d].at = "append"
      BY DEF NoneAppends
    <3>2. PICK x : calls' = [calls EXCEPT ![count'] = x] /\ x.at = call.at
      <4>1. PICK x : /\ x = [call EXCEPT !.before = answered,
                       !.after = {c \in Calls : call.sends /\ calls[c].at \in {"done", "failed"}}]
                     /\ calls' = [calls EXCEPT ![count'] = x]
        BY <1>1 DEF Arrive
      <4>2. x.at = call.at
        BY <4>1 DEF Coming, Call
      <4> QED BY <4>1, <4>2
    <3> QED BY <1>0, <1>1, <3>1, <3>2 DEF Coming, CallsInv
  <2> QED BY <1>0, <2>1, <2>2, <2>3, SessionsSame, TypePieces DEF NoneAppends
<1>2. ASSUME NEW c \in Calls, GetSession(c) PROVE P
  <2>1. sessions' = sessions /\ answered' = answered /\ grants' = grants /\ count' = count
        /\ calls[c].at = "get" /\ calls[c].at \notin Past \union {"off"}
    BY <1>2 DEF GetSession, Past
  <2>2. calls[c].user \in Users
    BY <1>0, <2>1, Acting
  <2>3. CASE Mine(c).there
    <3>1. CallsInv' /\ Onward /\ \A d \in Calls \ {c} : calls'[d] = calls[d]
      BY <1>0, <1>2, <2>1, <2>3, Moved DEF GetSession
    <3>2. sessions'[calls[c].user].there
      BY <2>1, <2>3 DEF Mine
    <3> QED BY <1>0, <2>1, <3>1, <3>2, SessionsSame, TypePieces
  <2>4. CASE ~Mine(c).there /\ calls[c].kind = "run"
    <3>1. /\ CallsInv' /\ Onward /\ calls'[c].at = "create"
          /\ \A d \in Calls \ {c} : calls'[d] = calls[d]
      BY <1>0, <1>2, <2>1, <2>4, Moved DEF GetSession
    <3> QED BY <1>0, <2>1, <3>1, SessionsSame, TypePieces
  <2>5. CASE ~Mine(c).there /\ calls[c].kind # "run"
    <3>1. /\ CallsInv' /\ Onward /\ calls'[c].at \in Past
          /\ \A d \in Calls \ {c} : calls'[d] = calls[d]
      BY <1>0, <1>2, <2>1, <2>5, Finished DEF GetSession
    <3> QED BY <1>0, <2>1, <3>1, SessionsSame, TypePieces DEF Past
  <2> QED BY <2>3, <2>4, <2>5
<1>3. ASSUME NEW c \in Calls, CreateSession(c) PROVE P
  <2>1. answered' = answered /\ grants' = grants /\ count' = count
        /\ calls[c].at = "create" /\ calls[c].at \notin Past \union {"off"}
    BY <1>3 DEF CreateSession, Past
  <2>2. /\ SessionsInv' /\ SessionsStay /\ calls[c].user \in Users
        /\ Created(c).ok => sessions'[calls[c].user].there
    BY <1>3, Creating, NoSessionType DEF SessionsStay
  <2>3. CASE Created(c).ok
    <3>1. CallsInv' /\ Onward /\ \A d \in Calls \ {c} : calls'[d] = calls[d]
      BY <1>0, <1>3, <2>1, <2>3, Moved DEF CreateSession
    <3> QED BY <1>0, <2>1, <2>2, <2>3, <3>1, TypePieces
  <2>4. CASE ~Created(c).ok
    <3>1. /\ CallsInv' /\ Onward /\ calls'[c].at \in Past
          /\ \A d \in Calls \ {c} : calls'[d] = calls[d]
      BY <1>0, <1>3, <2>1, <2>4, Finished DEF CreateSession
    <3> QED BY <1>0, <2>1, <2>2, <3>1, TypePieces DEF Past
  <2> QED BY <2>3, <2>4
<1>4. ASSUME NEW c \in Calls, AppendEvent(c) PROVE P
  <2>1. grants' = grants /\ count' = count
        /\ calls[c].at = "append" /\ calls[c].at \notin Past \union {"off"}
    BY <1>4 DEF AppendEvent, Past
  <2>2. SessionsInv' /\ SessionsStay
    BY <1>4, Appended DEF SessionsStay
  <2>3. CASE calls[c].kind = "run"
    <3>1. /\ CallsInv' /\ Onward /\ calls'[c].at = "build" /\ answered' = answered
          /\ \A d \in Calls \ {c} : calls'[d] = calls[d]
      BY <1>0, <1>4, <2>1, <2>3, Moved DEF AppendEvent
    <3> QED BY <1>0, <2>1, <2>2, <3>1, TypePieces
  <2>4. CASE calls[c].kind # "run"
    <3>1. /\ CallsInv' /\ Onward /\ calls'[c].at \in Past /\ answered' = answered \union {c}
          /\ \A d \in Calls \ {c} : calls'[d] = calls[d]
      BY <1>0, <1>4, <2>1, <2>4, Finished DEF AppendEvent
    <3>2. calls'[c].at \in Late
      BY <3>1 DEF Past, Late
    <3> QED BY <1>0, <2>1, <2>2, <3>1, <3>2, TypePieces DEF Past
  <2> QED BY <2>3, <2>4
<1>5. ASSUME NEW c \in Calls, BuildAgent(c) PROVE P
  <2>1. sessions' = sessions /\ grants' = grants /\ count' = count
        /\ calls[c].at = "build" /\ calls[c].at \notin Past \union {"off"}
    BY <1>5 DEF BuildAgent, Past
  <2>2. CASE "skill" \in grants
    <3>1. /\ CallsInv' /\ Onward /\ calls'[c].at = "open" /\ answered' = answered \union {c}
          /\ \A d \in Calls \ {c} : calls'[d] = calls[d]
      BY <1>0, <1>5, <2>1, <2>2, Moved DEF BuildAgent
    <3>2. calls'[c].at \in Late
      BY <3>1 DEF Late
    <3> QED BY <1>0, <2>1, <3>1, <3>2, SessionsSame, TypePieces
  <2>3. CASE "skill" \notin grants
    <3>1. /\ CallsInv' /\ Onward /\ calls'[c].at \in Past /\ answered' = answered
          /\ \A d \in Calls \ {c} : calls'[d] = calls[d]
      BY <1>0, <1>5, <2>1, <2>3, Finished DEF BuildAgent
    <3> QED BY <1>0, <2>1, <3>1, SessionsSame, TypePieces DEF Past
  <2> QED BY <2>2, <2>3
<1>6. ASSUME NEW c \in Calls, OpenRun(c) PROVE P
  <2>1. answered' = answered /\ grants' = grants /\ count' = count
        /\ calls[c].at = "open" /\ calls[c].at \notin Past \union {"off"}
    BY <1>6 DEF OpenRun, Past
  <2>2. SessionsInv' /\ SessionsStay
    BY <1>6, Opened DEF SessionsStay
  <2>3. /\ CallsInv' /\ Onward /\ calls'[c].at = "agent"
        /\ \A d \in Calls \ {c} : calls'[d] = calls[d]
    BY <1>0, <1>6, <2>1, Moved DEF OpenRun
  <2> QED BY <1>0, <2>1, <2>2, <2>3, TypePieces
<1>7. ASSUME NEW c \in Calls,
             \/ Prompt(c) \/ Close(c)
             \/ \E label \in BOOLEAN : BeginAgent(c, label)
             \/ \E event \in {"text"} \union Terminals : Emit(c, event)
             \/ \E known \in BOOLEAN : Raise(c, known)
      PROVE P
  <2>1. sessions' = sessions /\ answered' = answered /\ grants' = grants
    BY <1>7 DEF Prompt, Close, BeginAgent, Emit, Raise
  <2>2. /\ CallsInv' /\ Onward
        /\ calls'[c].at # "append" \/ calls'[c].at = calls[c].at
        /\ \A d \in Calls \ {c} : calls'[d] = calls[d]
    <3>1. CASE Prompt(c)
      BY <3>1, Prompted
    <3>2. CASE Close(c)
      <4>1. Finish(c) /\ count' = count /\ calls[c].at \notin Past \union {"off"}
        BY <3>2 DEF Close, Past
      <4> QED BY <1>0, <4>1, Finished DEF Past
    <3>3. CASE \E label \in BOOLEAN : BeginAgent(c, label)
      BY <1>0, <3>3, Begun
    <3>4. CASE \E event \in {"text"} \union Terminals : Emit(c, event)
      BY <1>0, <3>4, Spoken DEF Same
    <3>5. CASE \E known \in BOOLEAN : Raise(c, known)
      BY <1>0, <3>5, Interrupted
    <3> QED BY <1>7, <3>1, <3>2, <3>3, <3>4, <3>5
  <2> QED BY <1>0, <2>1, <2>2, SessionsSame, TypePieces
<1>8. ASSUME EditSkill PROVE P
  <2>1. /\ grants' \subseteq Grants /\ UNCHANGED <<calls, count>>
        /\ sessions' = sessions /\ answered' = answered
    BY <1>8 DEF EditSkill, Grants
  <2>2. CallsInv' /\ Onward
    BY <1>0, <2>1, NoneMoves
  <2> QED BY <2>1, <2>2, SessionsSame, TypePieces
<1>9. ASSUME Restart PROVE P
  <2>1. CallsInv' /\ Onward /\ \A c \in Calls : calls'[c].at \in Past \union {"off"}
    BY <1>0, <1>9, RestartMoves
  <2>2. SessionsInv'
    <3>1. sessions' = sessions \/ sessions' = [u \in Users |-> NoSession]
      BY <1>9 DEF Restart
    <3> QED BY <3>1, NoSessionType, SessionsSame DEF SessionsInv
  <2>3. SessionsStay /\ answered' \subseteq answered /\ grants' = grants
    BY <1>9, <2>1 DEF Restart, SessionsStay
  <2> QED BY <1>0, <2>1, <2>2, <2>3, TypePieces DEF Past
<1>10. ASSUME UNCHANGED vars PROVE P
  <2>1. /\ grants' = grants /\ UNCHANGED <<calls, count>>
        /\ sessions' = sessions /\ answered' = answered
    BY <1>10 DEF vars
  <2>2. CallsInv' /\ Onward
    BY <1>0, <2>1, NoneMoves
  <2> QED BY <1>0, <2>1, <2>2, SessionsSame, TypePieces
<1>11. ASSUME \/ \E u \in Users, id \in SurfaceIds : Click(u, id)
              \/ \E u \in Users, id \in SurfaceIds, sends \in BOOLEAN : ClickRun(u, id, sends)
              \/ \E u \in Users, id \in FrameIds : Frame(u, id)
              \/ \E u \in Users, sends \in BOOLEAN : Chat(u, sends)
       PROVE P
  <2>1. PICK call \in Coming : Arrive(call)
    BY <1>11, ComingKinds DEF Click, ClickRun, Frame, Chat
  <2> QED BY <1>1, <2>1
<1> HIDE DEF P
<1>12. ASSUME NEW c \in Calls, Step(c) PROVE P
  BY <1>2, <1>3, <1>4, <1>5, <1>6, <1>7, <1>12 DEF Step
<1>13. P
  BY <1>8, <1>9, <1>10, <1>11, <1>12 DEF Next
<1> QED BY <1>13 DEF P

-----------------------------------------------------------------------------
(* What a stream tells its reader.                                         *)

LEMMA TypeInvariant == Spec => []TypeInv
<1>1. TypeInv /\ [Next]_vars => TypeInv'
  BY TypeStep
<1> QED BY TypeInit, <1>1, PTL DEF Spec

\* Each variable has its type throughout, a call is what its kind allows, and a session
\* that is not there holds nothing: no push is written where no session was found.
THEOREM TypeCorrect == Spec => []TypeOK
<1>1. TypeInv => TypeOK
  <2>1. SUFFICES ASSUME TypeInv PROVE TypeOK
    OBVIOUS
  <2>2. \A u \in Users : /\ sessions[u].there \in BOOLEAN
                         /\ sessions[u].state \in [Keys -> 0 .. MaxCalls]
                         /\ {sessions[u].snapshot, sessions[u].trigger} \subseteq 0 .. MaxCalls
                         /\ ~sessions[u].there => sessions[u] = NoSession
    BY <2>1 DEF TypeInv, SessionsInv, Session
  <2>3. /\ \A c \in Calls : c > count => calls[c] = Off
        /\ \A c \in Calls : c <= count => calls[c] \in Call
    BY <2>1 DEF TypeInv, CallsInv
  <2>4. answered \subseteq 1 .. count
    <3>1. SUFFICES ASSUME NEW c \in answered PROVE c \in 1 .. count
      OBVIOUS
    <3>2. c \in Calls /\ calls[c].at # "off"
      BY <2>1 DEF TypeInv, Late, Flow
    <3> QED BY <2>1, <3>2 DEF TypeInv, CallsInv, Calls
  <2> QED BY <2>1, <2>2, <2>3, <2>4 DEF TypeOK, TypeInv
<1> QED BY TypeInvariant, <1>1, PTL

\* The stream of a call that is well made.
LEMMA StreamFacts ==
    ASSUME NEW call, CallOK(call)
    PROVE  /\ call.wire \in Seq(Event) /\ Ordered(call.wire) /\ call.owed \subseteq Told(call.wire)
           /\ Ends(call.wire) = {} \/ \E i \in DOMAIN call.wire : Ends(call.wire) = {i}
           /\ call.at = "ended" => Ends(call.wire) # {}
<1>1. CASE call.at \in Flow
  <2>1. Ends(call.wire) = {}
    <3>1. Told(call.wire) \subseteq Stages
      BY <1>1, FlowTypes
    <3>2. \A i \in DOMAIN call.wire : call.wire[i] \in Stages
      BY <3>1 DEF Told
    <3> QED BY <3>2 DEF Ends, Stages, Terminals
  <2> QED BY <1>1, <2>1, FlowTypes DEF Flowing, Flow
<1>2. CASE call.at = "ended"
  BY <1>2 DEF CallOK, Over, Call, Event, Stages
<1>3. CASE call.at \notin Flow \union {"ended"}
  <2>1. PICK w : w = call.wire /\ w = <<>> /\ call.owed = {}
    BY <1>3 DEF CallOK, Quiet
  <2>2. w \in Seq(Event) /\ DOMAIN w = {}
    BY <2>1
  <2>3. Ordered(w) /\ Ends(w) = {}
    BY <2>2 DEF Ordered, Ends
  <2> QED BY <1>3, <2>1, <2>2, <2>3
<1> QED BY <1>1, <1>2, <1>3

\* A run is ended once for its reader: at no time were two terminal events sent, and a
\* stream that is over has exactly one unless it was torn, whatever the library sends
\* twice or raises.  (stream_agui_events, process_skill_request)
THEOREM TerminalTheorem == Spec => []OneTerminal
<1>1. TypeInv => OneTerminal
  <2>1. SUFFICES ASSUME TypeInv, NEW c \in Calls
                 PROVE  /\ Cardinality(Ends(calls[c].wire)) <= 1
                        /\ calls[c].at = "ended" => Ends(calls[c].wire) # {}
    BY DEF OneTerminal, Ends
  <2>2. CallOK(calls[c])
    BY <2>1 DEF TypeInv, CallsInv
  <2>3. PICK E : E = Ends(calls[c].wire)
    OBVIOUS
  <2>4. /\ E = {} \/ \E i \in DOMAIN calls[c].wire : E = {i}
        /\ calls[c].at = "ended" => E # {}
    BY <2>2, <2>3, StreamFacts
  <2>5. Cardinality(E) <= 1
    <3>1. CASE E = {}
      BY <3>1, FS_EmptySet
    <3>2. CASE \E i \in DOMAIN calls[c].wire : E = {i}
      <4>1. PICK i : E = {i}
        BY <3>2
      <4>2. Cardinality({i}) = 1
        BY FS_Singleton
      <4> QED BY <4>1, <4>2
    <3> QED BY <2>4, <3>1, <3>2
  <2> QED BY <2>3, <2>4, <2>5
<1> QED BY TypeInvariant, <1>1, PTL

\* A reader is told each stage at most once and in the order they were met, and no stage
\* that was due when the last event went out is missing, however often the agent hands
\* over and meets its stages again.  (LatencyTracker.mark, drain_stage_events)
THEOREM StagesTheorem == Spec => []StagesTold
<1>1. TypeInv => StagesTold
  <2>1. SUFFICES ASSUME TypeInv, NEW c \in Calls
                 PROVE  LET wire == calls[c].wire
                        IN  /\ \A i, j \in DOMAIN wire :
                                  i < j /\ {wire[i], wire[j]} \subseteq {"agent", "model"}
                                     => wire[i] = "agent" /\ wire[j] = "model"
                            /\ calls[c].owed \subseteq ToSet(wire)
    BY DEF StagesTold
  <2>2. CallOK(calls[c])
    BY <2>1 DEF TypeInv, CallsInv
  <2>3. /\ calls[c].wire \in Seq(Event) /\ Ordered(calls[c].wire)
        /\ calls[c].owed \subseteq Told(calls[c].wire)
    BY <2>2, StreamFacts
  <2> QED BY <2>3 DEF Ordered, Told, Stages, ToSet
<1> QED BY TypeInvariant, <1>1, PTL

-----------------------------------------------------------------------------
(* The data a turn is shown.                                               *)

\* The session of a turn that was sent data is there, with that data or later.
SnapInv ==
    \A c \in Calls :
       /\ calls[c].after \subseteq {d \in Calls : calls[d].at \in Past}
       /\ (calls[c].sends /\ calls[c].at \in Flow) =>
             Mine(c).there /\ Mine(c).snapshot \notin calls[c].after \union {0}
       /\ (calls[c].sends /\ calls[c].at = "model") =>
             calls[c].shownSnapshot \notin calls[c].after \union {0}

DataStays ==
    \A u \in Users : sessions[u].there =>
        sessions'[u].there /\ sessions'[u].snapshot = sessions[u].snapshot

\* A call in the flow after a step: as it was, or with its prompt made now.
FlowsOn(c) ==
    calls'[c].at \in Flow =>
       /\ calls[c].at \in Flow
       /\ calls'[c].at = "model" =>
             \/ calls[c].at = "model" /\ calls'[c].shownSnapshot = calls[c].shownSnapshot
             \/ calls'[c].shownSnapshot = Mine(c).snapshot

LEMMA AfterStays ==
    ASSUME TypeInv, Onward, SnapInv, NEW c \in Calls
    PROVE  calls'[c].after \subseteq {d \in Calls : calls'[d].at \in Past}
<1>1. \A d \in Calls : calls[d].at \in Past => calls'[d].at \in Past
  BY DEF Onward
<1>2. CASE calls[c].at # "off"
  BY <1>1, <1>2 DEF Onward, Follows, SnapInv
<1>3. CASE calls[c].at = "off"
  <2>1. Off.after = {}
    BY DEF Off
  <2> QED BY <1>1, <1>3, <2>1 DEF Onward
<1> QED BY <1>2, <1>3

LEMMA DataFlows ==
    ASSUME TypeInv, Onward, SnapInv, DataStays \/ \A c \in Calls : calls'[c].at \notin Flow,
           \A c \in Calls : FlowsOn(c)
    PROVE  SnapInv'
<1>1. SUFFICES ASSUME NEW c \in Calls
               PROVE  /\ (calls'[c].sends /\ calls'[c].at \in Flow) =>
                            /\ sessions'[calls'[c].user].there
                            /\ sessions'[calls'[c].user].snapshot \notin calls'[c].after \union {0}
                      /\ (calls'[c].sends /\ calls'[c].at = "model") =>
                            calls'[c].shownSnapshot \notin calls'[c].after \union {0}
  BY AfterStays DEF SnapInv, Mine
<1>2. SUFFICES ASSUME calls'[c].sends, calls'[c].at \in Flow
               PROVE  /\ sessions'[calls'[c].user].there
                      /\ sessions'[calls'[c].user].snapshot \notin calls'[c].after \union {0}
                      /\ calls'[c].at = "model" =>
                            calls'[c].shownSnapshot \notin calls'[c].after \union {0}
  BY DEF Flow
<1>3. FlowsOn(c) /\ calls[c].at \in Flow
  BY <1>2 DEF FlowsOn
<1>4. /\ calls[c].sends /\ calls'[c].user = calls[c].user /\ calls'[c].after \subseteq calls[c].after
      /\ calls[c].user \in Users
  <2>1. calls[c].at \notin Past \union {"off"} /\ CallsInv
    BY <1>3 DEF Flow, Past, TypeInv
  <2> QED BY <1>2, <2>1, Acting DEF Onward, Follows
<1>5. Mine(c).there /\ Mine(c).snapshot \notin calls[c].after \union {0}
  BY <1>3, <1>4 DEF SnapInv
<1>6. calls[c].at = "model" => calls[c].shownSnapshot \notin calls[c].after \union {0}
  BY <1>4 DEF SnapInv
<1> QED BY <1>2, <1>3, <1>4, <1>5, <1>6 DEF DataStays, FlowsOn, Mine

LEMMA OpenedData ==
    ASSUME TypeInv, SnapInv, Onward, NEW c \in Calls, OpenRun(c),
           calls'[c].at = "agent", calls'[c].sends = calls[c].sends,
           \A d \in Calls \ {c} : calls'[d] = calls[d]
    PROVE  SnapInv'
<1> DEFINE u == calls[c].user
<1>1. /\ u \in Users /\ sessions'[u].there
      /\ sessions'[u].snapshot = IF calls[c].sends THEN c ELSE sessions[u].snapshot
      /\ \A v \in Users \ {u} : sessions'[v] = sessions[v]
  BY Opened
<1>2. calls[c].at = "open" /\ c # 0 /\ CallsInv /\ calls[c].at \notin Past \union {"off"}
  BY DEF OpenRun, Calls, TypeInv, Past
<1>3. \A d \in Calls : c \notin calls[d].after
  BY <1>2 DEF SnapInv
<1>4. calls'[c].user = u /\ calls'[c].after \subseteq calls[c].after
  BY <1>2 DEF Onward, Follows
<1>5. SUFFICES ASSUME NEW d \in Calls, calls'[d].sends, calls'[d].at \in Flow
               PROVE  /\ sessions'[calls'[d].user].there
                      /\ sessions'[calls'[d].user].snapshot \notin calls'[d].after \union {0}
                      /\ calls'[d].at = "model" =>
                            calls'[d].shownSnapshot \notin calls'[d].after \union {0}
  BY AfterStays DEF SnapInv, Mine, Flow
<1>6. CASE d = c
  BY <1>1, <1>2, <1>3, <1>4, <1>5, <1>6
<1>7. CASE d # c
  <2>1. calls'[d] = calls[d] /\ calls[d].at \notin Past \union {"off"}
    BY <1>5, <1>7 DEF Flow, Past
  <2>2. calls[d].user \in Users
    BY <1>2, <2>1, Acting
  <2>3. /\ Mine(d).there /\ Mine(d).snapshot \notin calls[d].after \union {0}
        /\ calls[d].at = "model" => calls[d].shownSnapshot \notin calls[d].after \union {0}
    BY <1>5, <2>1 DEF SnapInv
  <2> QED BY <1>1, <1>2, <1>3, <2>1, <2>2, <2>3 DEF Mine
<1> QED BY <1>6, <1>7

LEMMA SnapInit == Init => SnapInv
<1>1. Off.at = "off" /\ Off.after = {} /\ ~Off.sends
  BY DEF Off
<1> QED BY <1>1 DEF Init, SnapInv, Flow

\* Calls that do not move flow on, and one that leaves the flow does.
LEMMA OthersFlowOn ==
    ASSUME NEW c \in Calls, \A d \in Calls \ {c} : calls'[d] = calls[d], FlowsOn(c)
    PROVE  \A d \in Calls : FlowsOn(d)
BY DEF FlowsOn

LEMMA SnapStep ==
    ASSUME TypeInv, SnapInv, [Next]_vars
    PROVE  SnapInv'
<1> USE DEF bounds
<1>0. CallsInv /\ Onward
  BY TypeStep DEF TypeInv
<1>1. ASSUME sessions' = sessions PROVE DataStays
  BY <1>1 DEF DataStays
<1>2. ASSUME NEW call \in Coming, Arrive(call) PROVE SnapInv'
  <2>1. \A c \in Calls : calls'[c] = calls[c] \/ calls'[c].at \notin Flow
    <3>1. SUFFICES ASSUME NEW c \in Calls, calls'[c] # calls[c] PROVE calls'[c].at \notin Flow
      OBVIOUS
    <3>2. calls[c].at = "off"
      <4>1. calls' = [calls EXCEPT ![count'] =
              [call EXCEPT !.before = answered,
                  !.after = {d \in Calls : call.sends /\ calls[d].at \in {"done", "failed"}}]]
            /\ count' > count
        BY <1>0, <1>2 DEF Arrive, CallsInv
      <4>2. PICK x : calls' = [calls EXCEPT ![count'] = x]
        BY <4>1
      <4>3. c = count'
        BY <1>0, <3>1, <4>2 DEF CallsInv
      <4> QED BY <1>0, <4>1, <4>3 DEF CallsInv
    <3> QED BY <1>0, <3>2, OffOK DEF Onward, Flow, Off
  <2>2. \A c \in Calls : FlowsOn(c)
    BY <2>1 DEF FlowsOn
  <2> QED BY <1>0, <1>1, <1>2, <2>2, DataFlows DEF Arrive
<1>3. ASSUME NEW c \in Calls,
             \/ GetSession(c) \/ BuildAgent(c) \/ Close(c)
             \/ \E event \in {"text"} \union Terminals : Emit(c, event)
             \/ \E known \in BOOLEAN : Raise(c, known)
             \/ \E label \in BOOLEAN : BeginAgent(c, label)
             \/ Prompt(c)
      PROVE SnapInv'
  <2>1. sessions' = sessions
    BY <1>3 DEF GetSession, BuildAgent, Close, Emit, Raise, BeginAgent, Prompt
  <2>2. FlowsOn(c) /\ \A d \in Calls \ {c} : calls'[d] = calls[d]
    <3>1. CASE GetSession(c)
      <4>1. count' = count /\ calls[c].at = "get" /\ calls[c].at \notin Past \union {"off"}
        BY <3>1 DEF GetSession, Past
      <4>2. \/ Move(c, "append") \/ Fail(c)
            \/ Move(c, "create") /\ calls[c].kind = "run"
        BY <3>1 DEF GetSession
      <4> QED BY <1>0, <4>1, <4>2, Moved, Finished DEF FlowsOn, Flow, Past
    <3>2. CASE BuildAgent(c)
      <4>1. count' = count /\ calls[c].at = "build" /\ calls[c].at \notin Past \union {"off"}
        BY <3>2 DEF BuildAgent, Past
      <4>2. Move(c, "open") \/ Fail(c)
        BY <3>2 DEF BuildAgent
      <4> QED BY <1>0, <4>1, <4>2, Moved, Finished DEF FlowsOn, Flow, Past
    <3>3. CASE Close(c)
      <4>1. count' = count /\ calls[c].at \notin Past \union {"off"} /\ Finish(c)
        BY <3>3 DEF Close, Past
      <4> QED BY <1>0, <4>1, Finished DEF FlowsOn, Flow, Past
    <3>4. CASE \E event \in {"text"} \union Terminals : Emit(c, event)
      BY <1>0, <3>4, Spoken DEF FlowsOn, Flow, Same
    <3>5. CASE \E known \in BOOLEAN : Raise(c, known)
      BY <1>0, <3>5, Interrupted DEF FlowsOn, Flow
    <3>6. CASE \E label \in BOOLEAN : BeginAgent(c, label)
      <4>1. calls[c].at \in Flow
        BY <3>6 DEF BeginAgent, Flow
      <4> QED BY <1>0, <3>6, <4>1, Begun DEF FlowsOn
    <3>7. CASE Prompt(c)
      <4>1. calls[c].at \in Flow
        BY <3>7 DEF Prompt, Flow
      <4> QED BY <3>7, <4>1, Prompted DEF FlowsOn
    <3> QED BY <1>3, <3>1, <3>2, <3>3, <3>4, <3>5, <3>6, <3>7
  <2> QED BY <1>0, <1>1, <2>1, <2>2, OthersFlowOn, DataFlows
<1>4. ASSUME NEW c \in Calls, CreateSession(c) PROVE SnapInv'
  <2>1. DataStays
    BY <1>4, Creating DEF DataStays
  <2>2. /\ count' = count /\ calls[c].at = "create" /\ calls[c].at \notin Past \union {"off"}
        /\ Move(c, "append") \/ Fail(c)
    BY <1>4 DEF CreateSession, Past
  <2>3. FlowsOn(c) /\ \A d \in Calls \ {c} : calls'[d] = calls[d]
    BY <1>0, <2>2, Moved, Finished DEF FlowsOn, Flow, Past
  <2> QED BY <1>0, <2>1, <2>3, OthersFlowOn, DataFlows
<1>5. ASSUME NEW c \in Calls, AppendEvent(c) PROVE SnapInv'
  <2>1. DataStays
    BY <1>5, Appended DEF DataStays
  <2>2. /\ count' = count /\ calls[c].at = "append" /\ calls[c].at \notin Past \union {"off"}
        /\ (Move(c, "build") /\ calls[c].kind = "run") \/ Finish(c)
    BY <1>5 DEF AppendEvent, Past
  <2>3. FlowsOn(c) /\ \A d \in Calls \ {c} : calls'[d] = calls[d]
    BY <1>0, <2>2, Moved, Finished DEF FlowsOn, Flow, Past
  <2> QED BY <1>0, <2>1, <2>3, OthersFlowOn, DataFlows
<1>6. ASSUME NEW c \in Calls, OpenRun(c) PROVE SnapInv'
  <2>1. /\ count' = count /\ calls[c].at = "open" /\ calls[c].at \notin Past \union {"off"}
        /\ Move(c, "agent")
    BY <1>6 DEF OpenRun, Past
  <2>2. /\ calls'[c].at = "agent" /\ calls'[c].sends = calls[c].sends
        /\ \A d \in Calls \ {c} : calls'[d] = calls[d]
    BY <1>0, <2>1, Moved
  <2> QED BY <1>0, <1>6, <2>2, OpenedData
<1>7. ASSUME EditSkill \/ UNCHANGED vars PROVE SnapInv'
  <2>1. calls' = calls /\ sessions' = sessions
    BY <1>7 DEF EditSkill, vars
  <2>2. \A c \in Calls : FlowsOn(c)
    BY <2>1 DEF FlowsOn
  <2> QED BY <1>0, <1>1, <2>1, <2>2, DataFlows
<1>8. ASSUME Restart PROVE SnapInv'
  <2>1. \A c \in Calls : calls'[c].at \notin Flow
    BY <1>0, <1>8, RestartMoves DEF Past, Flow
  <2>2. \A c \in Calls : FlowsOn(c)
    BY <2>1 DEF FlowsOn
  <2> QED BY <1>0, <2>1, <2>2, DataFlows
<1>9. ASSUME \/ \E u \in Users, id \in SurfaceIds : Click(u, id)
             \/ \E u \in Users, id \in SurfaceIds, sends \in BOOLEAN : ClickRun(u, id, sends)
             \/ \E u \in Users, id \in FrameIds : Frame(u, id)
             \/ \E u \in Users, sends \in BOOLEAN : Chat(u, sends)
      PROVE SnapInv'
  <2>1. PICK call \in Coming : Arrive(call)
    BY <1>9, ComingKinds DEF Click, ClickRun, Frame, Chat
  <2> QED BY <1>2, <2>1
<1>10. ASSUME NEW c \in Calls, Step(c) PROVE SnapInv'
  BY <1>3, <1>4, <1>5, <1>6, <1>10 DEF Step
<1> QED BY <1>7, <1>8, <1>9, <1>10 DEF Next

\* A turn that was sent the surfaces' data is shown that data, or the data of a turn that
\* was still under way when it was asked for, however the turns of its reader overlap.
\* (process_skill_request's initial state, _collect_surfaces)
THEOREM SnapshotTheorem == Spec => []SnapshotIsCurrent
<1>1. TypeInv /\ SnapInv /\ [Next]_vars => TypeInv' /\ SnapInv'
  BY TypeStep, SnapStep
<1>2. SnapInv => SnapshotIsCurrent
  BY DEF SnapInv, SnapshotIsCurrent
<1> QED BY TypeInit, SnapInit, <1>1, <1>2, PTL DEF Spec

-----------------------------------------------------------------------------
(* The pushes a turn is shown.                                             *)

Pushes == {"click", "run", "frame"}

\* A value in a session is of the surface and the user of the call that brought it.
ValuesInv ==
    \A u \in Users, k \in Keys : sessions[u].state[k] # 0 =>
        calls[sessions[u].state[k]].user = u /\ calls[sessions[u].state[k]].key = k

\* What was answered before a call came; for one under way no restart has undone it.
EarlierInv ==
    \A c \in Calls :
       /\ \A d \in calls[c].before : d \in Calls /\ calls[d].at \in Late
       /\ calls[c].at \notin Past \union {"off"} => calls[c].before \subseteq answered

\* The push of d has been written, and nothing undoes it while d counts as answered.
Written(d) ==
    calls[d].kind \in Pushes /\ (d \in answered \/ calls[d].at \in Flow \union {"build", "open"})

\* What is in the session for a push that was written is that push or a later one.
KeptInv ==
    \A d \in Calls : Written(d) =>
       /\ Mine(d).there /\ Mine(d).state[calls[d].key] # 0
       /\ Mine(d).state[calls[d].key] \notin calls[d].before

PushInv == ValuesInv /\ EarlierInv /\ KeptInv /\ PushReachesTurn

\* What a step does to the values: they stay, one is written, or a restart takes all.
ValuesStay ==
    \A u \in Users, k \in Keys :
       \/ sessions'[u].state[k] = sessions[u].state[k]
       \/ \E c \in Calls : /\ calls[c].at = "append" /\ sessions'[u].state[k] = c
                         /\ calls[c].user = u /\ calls[c].key = k

SessionsKept == \A u \in Users : sessions[u].there => sessions'[u].there

AllLost ==
    /\ sessions' = [u \in Users |-> NoSession] /\ answered' = {}
    /\ \A c \in Calls : calls'[c].at \in Past \union {"off"}

\* A step that writes as it answers, and a call that goes on to build has appended.
WritesFirst ==
    \A d \in Calls : Written(d)' =>
       \/ Written(d)
       \/ /\ calls[d].at = "append" /\ sessions'[calls[d].user].there
          /\ sessions'[calls[d].user].state[calls[d].key] = d

LEMMA Come ==
    ASSUME TypeInv, NEW c \in Calls, calls[c].at # "off"
    PROVE  /\ CallOK(calls[c]) /\ KindOK(calls[c]) /\ calls[c].user \in Users
           /\ calls[c].kind \in Pushes \union {"chat"}
           /\ calls[c].kind \in Pushes => calls[c].key \in Keys
           /\ calls[c].key \in Keys => calls[c].kind \in Pushes
<1>1. CallOK(calls[c]) /\ KindOK(calls[c]) /\ calls[c] \in Call /\ calls[c].kind # "none"
  BY DEF TypeInv, CallsInv, CallOK, KindOK
<1>2. calls[c].kind \in Pushes \union {"chat"}
  BY <1>1 DEF Call, Pushes
<1>3. <<>> \notin Keys
  BY KeyShape
<1> QED BY <1>1, <1>2, <1>3 DEF KindOK, Pushes, Keys

LEMMA KeyCome ==
    ASSUME TypeInv, NEW c \in Calls, calls[c].key \in Keys
    PROVE  calls[c].at # "off"
<1>1. Off.key = <<>> /\ <<>> \notin Keys
  BY KeyShape DEF Off
<1> QED BY <1>1 DEF TypeInv, CallsInv

LEMMA ValuesStep ==
    ASSUME TypeInv, TypeInv', Onward, ValuesInv, ValuesStay \/ AllLost
    PROVE  ValuesInv'
<1>1. SUFFICES ASSUME NEW u \in Users, NEW k \in Keys, NEW e, e = sessions'[u].state[k], e # 0
               PROVE  calls'[e].user = u /\ calls'[e].key = k
  BY DEF ValuesInv
<1>2. CASE AllLost
  BY <1>1, <1>2 DEF AllLost, NoSession
<1>3. CASE ValuesStay
  <2>1. e \in Calls
    BY <1>1 DEF TypeInv, SessionsInv, Session, Calls
  <2>2. calls[e].user = u /\ calls[e].key = k
    BY <1>1, <1>3 DEF ValuesStay, ValuesInv
  <2>3. calls[e].at # "off"
    BY <2>1, <2>2, KeyCome
  <2> QED BY <2>1, <2>2, <2>3 DEF Onward, Follows
<1> QED BY <1>2, <1>3

LEMMA EarlierStep ==
    ASSUME TypeInv, TypeInv', Onward, EarlierInv,
           answered \subseteq answered' \/ AllLost
           \/ \A c \in Calls : calls'[c].at \in Past \union {"off"}
    PROVE  EarlierInv'
<1>1. SUFFICES ASSUME NEW c \in Calls
               PROVE  /\ \A d \in calls'[c].before : d \in Calls /\ calls'[d].at \in Late
                      /\ calls'[c].at \notin Past \union {"off"} => calls'[c].before \subseteq answered'
  BY DEF EarlierInv
<1>2. \A d \in Calls : calls[d].at \in Late => calls'[d].at \in Late
  BY DEF Onward, Follows, Late, Flow
<1>3. \A d \in answered : d \in Calls /\ calls[d].at \in Late
  BY DEF TypeInv
<1>4. CASE calls[c].at # "off"
  <2>1. calls'[c].before \subseteq calls[c].before
    BY <1>4 DEF Onward, Follows
  <2>2. calls'[c].at \notin Past \union {"off"} => calls[c].at \notin Past \union {"off"}
    BY <1>4 DEF Onward
  <2> QED BY <1>2, <2>1, <2>2 DEF EarlierInv, AllLost
<1>5. CASE calls[c].at = "off"
  <2>1. Off.before = {} /\ Off.at = "off"
    BY DEF Off
  <2> QED BY <1>2, <1>3, <1>5, <2>1 DEF Onward, AllLost
<1> QED BY <1>4, <1>5

LEMMA KeptStep ==
    ASSUME TypeInv, TypeInv', Onward, EarlierInv, KeptInv, WritesFirst,
           (ValuesStay /\ SessionsKept) \/ AllLost
    PROVE  KeptInv'
<1>1. SUFFICES ASSUME NEW d \in Calls, Written(d)'
               PROVE  LET s == sessions'[calls'[d].user]
                      IN  /\ s.there /\ s.state[calls'[d].key] # 0
                          /\ s.state[calls'[d].key] \notin calls'[d].before
  BY DEF KeptInv, Mine
<1>2. ValuesStay /\ SessionsKept
  BY <1>1 DEF AllLost, Written, Past, Flow
<1>3. calls[d].at # "off"
  <2>1. CASE Written(d)
    BY <2>1 DEF Written, TypeInv, CallsInv, Off, Pushes
  <2>2. CASE calls[d].at = "append"
    BY <2>2
  <2> QED BY <1>1, <2>1, <2>2 DEF WritesFirst
<1>4. /\ calls'[d].kind = calls[d].kind /\ calls'[d].user = calls[d].user
      /\ calls'[d].key = calls[d].key /\ calls'[d].before \subseteq calls[d].before
  BY <1>3 DEF Onward, Follows
<1>5. calls[d].user \in Users /\ calls[d].key \in Keys
  BY <1>1, <1>3, <1>4, Come DEF Written
<1>6. \A c \in Calls : calls[c].at = "append" => c # 0 /\ c \notin calls[d].before
  BY DEF EarlierInv, Late, Flow, Calls
<1>7. CASE Written(d)
  <2>1. /\ Mine(d).there /\ Mine(d).state[calls[d].key] # 0
        /\ Mine(d).state[calls[d].key] \notin calls[d].before
    BY <1>7 DEF KeptInv
  <2>2. sessions'[calls[d].user].there
    BY <1>2, <1>5, <2>1 DEF SessionsKept, Mine
  <2> QED BY <1>2, <1>4, <1>5, <1>6, <2>1, <2>2 DEF ValuesStay, Mine
<1>8. CASE ~Written(d)
  BY <1>1, <1>4, <1>6, <1>8 DEF WritesFirst
<1> QED BY <1>7, <1>8

\* A value of the state is in the prompt's blocks, where its call says it is to be.
LEMMA ValueShown ==
    ASSUME NEW s, s.state \in [Keys -> 0 .. MaxCalls], NEW call,
           KindOK(call), call.kind \in Pushes, Plain(call), s.state[call.key] # 0
    PROVE  \E e \in ShownActions(s) \union ShownFrames(s) :
              /\ e.heading = Heading(call)
              /\ e.field = IF call.kind = "frame" THEN <<>> ELSE <<"lastAction">>
              /\ e.from = s.state[call.key]
<1> DEFINE k == call.key
<1>1. CASE call.kind = "frame"
  <2>1. PICK id \in FrameIds : k = FrameKey(id)
    BY <1>1 DEF KindOK
  <2>2. k \in Keys /\ k \in Seq(Names) /\ Len(k) = 3 /\ k[1] = "frame"
    BY <2>1, FrameKeys DEF Keys
  <2>3. PICK e : e = [heading |-> Tail(k), field |-> <<>>, from |-> s.state[k]]
    OBVIOUS
  <2>4. e \in ShownFrames(s)
    BY <2>2, <2>3 DEF ShownFrames
  <2>5. Heading(call) = SubSeq(k, 2, 3)
    BY <1>1 DEF Heading
  <2> HIDE DEF k
  <2>6. Tail(k) = SubSeq(k, 2, 3)
    <3>1. k # <<>>
      BY <2>2, KeyShape
    <3> QED BY ONLY <2>2, <3>1, TailIsSubSeq
  <2>7. e.heading = Heading(call) /\ e.field = <<>> /\ e.from = s.state[k]
    BY <2>3, <2>5, <2>6
  <2> QED BY ONLY <1>1, <2>4, <2>7 DEF k
<1>2. CASE call.kind # "frame"
  <2>1. PICK id \in SurfaceIds : k = ActionKey(id)
    BY <1>2 DEF KindOK, Pushes
  <2>2. /\ k \in Keys /\ k \in Seq(Names) /\ Len(k) = 3
        /\ k[1] = "action" /\ k[3] = "lastAction"
    BY <1>2, <2>1, ActionKeys DEF Keys, Plain
  <2>3. PICK e : e = [heading |-> <<k[2]>>, field |-> SubSeq(k, 3, Len(k)), from |-> s.state[k]]
    OBVIOUS
  <2>4. e \in ShownActions(s)
    BY <2>2, <2>3 DEF ShownActions
  <2>5. Heading(call) = SubSeq(k, 2, 2)
    BY <1>2, <2>2 DEF Heading
  <2> HIDE DEF k
  <2>6. SubSeq(k, 2, 2) = <<k[2]>> /\ SubSeq(k, 3, Len(k)) = <<"lastAction">>
    <3>1. 2 \in 1 .. Len(k) /\ 3 \in 1 .. Len(k)
      BY <2>2
    <3>2. SubSeq(k, 2, 2) = <<k[2]>> /\ SubSeq(k, 3, 3) = <<k[3]>>
      BY ONLY <2>2, <3>1, OnePart
    <3> QED BY <2>2, <3>2
  <2>7. /\ e.heading = SubSeq(k, 2, 2) /\ e.field = SubSeq(k, 3, Len(k))
        /\ e.from = s.state[k]
    BY ONLY <2>3, <2>6
  <2>8. /\ e.heading = Heading(call) /\ e.field = <<"lastAction">> /\ e.from = s.state[k]
    BY ONLY <2>5, <2>6, <2>7
  <2> QED BY ONLY <1>2, <2>4, <2>8 DEF k
<1> QED BY <1>1, <1>2

\* A turn given its prompt stays as it is until the next, or gets its prompt now.
PromptStays ==
    \A c \in Calls : calls'[c].at = "model" =>
       \/ calls[c].at = "model" /\ calls'[c].shown = calls[c].shown
       \/ Prompt(c)

LEMMA ReachStep ==
    ASSUME TypeInv, TypeInv', Onward, PushInv, PromptStays
    PROVE  PushReachesTurn'
<1>1. SUFFICES ASSUME NEW c \in Calls, calls'[c].at = "model",
                      NEW d \in calls'[c].before \union (IF calls'[c].kind = "run" THEN {c} ELSE {}),
                      calls'[d].user = calls'[c].user, calls'[d].kind # "chat", Plain(calls'[d])
               PROVE  \E e \in calls'[c].shown :
                         /\ e.heading = Heading(calls'[d])
                         /\ e.field = IF calls'[d].kind = "frame" THEN <<>> ELSE <<"lastAction">>
                         /\ calls'[e.from].key = calls'[d].key
                         /\ calls'[e.from].user = calls'[d].user
                         /\ e.from \notin calls'[d].before
  BY DEF PushReachesTurn
<1>2. calls[c].at \in {"prompt", "model"}
  BY <1>1 DEF PromptStays, Prompt
<1>3. /\ calls'[c].user = calls[c].user /\ calls'[c].kind = calls[c].kind
      /\ calls'[c].before \subseteq calls[c].before
  BY <1>2 DEF Onward, Follows
<1>4. d \in calls[c].before \union (IF calls[c].kind = "run" THEN {c} ELSE {})
  BY <1>1, <1>3
<1>5. d \in Calls /\ calls[d].at \in Late
  BY <1>2, <1>4 DEF PushInv, EarlierInv, Late, Flow
<1>6. /\ calls'[d].kind = calls[d].kind /\ calls'[d].user = calls[d].user
      /\ calls'[d].key = calls[d].key /\ calls'[d].before \subseteq calls[d].before
  BY <1>5 DEF Onward, Follows, Late, Flow
<1>7. /\ calls[d].user = calls[c].user /\ calls[d].kind # "chat"
      /\ Plain(calls[d]) /\ Heading(calls'[d]) = Heading(calls[d])
  BY <1>1, <1>3, <1>6 DEF Plain, Heading
<1>8. calls[d].kind \in Pushes /\ calls[d].key \in Keys /\ KindOK(calls[d])
      /\ calls[d].user \in Users
  BY <1>5, <1>7, Come DEF Late, Flow
<1>9. ASSUME NEW f \in Calls, calls[f].key = calls[d].key, calls[f].user = calls[d].user
      PROVE  calls'[f].key = calls'[d].key /\ calls'[f].user = calls'[d].user
  BY <1>6, <1>8, <1>9, KeyCome DEF Onward, Follows
<1>10. CASE calls[c].at = "model" /\ calls'[c].shown = calls[c].shown
  <2>1. PICK e \in calls[c].shown :
           /\ e.heading = Heading(calls[d])
           /\ e.field = IF calls[d].kind = "frame" THEN <<>> ELSE <<"lastAction">>
           /\ calls[e.from].key = calls[d].key
           /\ calls[e.from].user = calls[d].user
           /\ e.from \notin calls[d].before
    BY <1>4, <1>7, <1>10 DEF PushInv, PushReachesTurn
  <2>2. e.from \in Calls
    <3>1. calls[c] \in Call
      BY DEF TypeInv, CallsInv
    <3> QED BY <2>1, <3>1 DEF Call
  <2> QED BY <1>6, <1>7, <1>9, <1>10, <2>1, <2>2
<1>11. CASE Prompt(c)
  <2>1. calls[c].at = "prompt" /\ Mine(d) = Mine(c)
        /\ calls'[c].shown = ShownActions(Mine(c)) \union ShownFrames(Mine(c))
    BY <1>7, <1>11, Prompted DEF Prompt, Mine
  <2>2. Written(d)
    <3>1. calls[c].before \subseteq answered
      BY <2>1 DEF PushInv, EarlierInv, Past
    <3> QED BY <1>4, <1>8, <2>1, <3>1 DEF Written, Flow
  <2>3. PICK f : f = Mine(c).state[calls[d].key] /\ f # 0 /\ f \notin calls[d].before
    BY <2>1, <2>2, <1>5 DEF PushInv, KeptInv
  <2>4. Mine(c).state \in [Keys -> 0 .. MaxCalls] /\ f \in Calls
    <3>1. Mine(c) \in Session
      BY <1>7, <1>8 DEF Mine, TypeInv, SessionsInv
    <3> QED BY <1>8, <2>3, <3>1 DEF Session, Calls
  <2>5. calls[f].key = calls[d].key /\ calls[f].user = calls[d].user
    BY <1>7, <1>8, <2>3 DEF PushInv, ValuesInv, Mine
  <2>6. PICK e \in calls'[c].shown :
           /\ e.heading = Heading(calls[d])
           /\ e.field = IF calls[d].kind = "frame" THEN <<>> ELSE <<"lastAction">>
           /\ e.from = f
    BY <1>7, <1>8, <2>1, <2>3, <2>4, ValueShown
  <2> QED BY <1>6, <1>7, <1>9, <2>3, <2>4, <2>5, <2>6
<1> QED BY <1>1, <1>10, <1>11 DEF PromptStays

LEMMA PushInit == Init => PushInv
<1>1. Off.at = "off" /\ Off.before = {} /\ Off.kind = "none"
  BY DEF Off
<1>2. SUFFICES ASSUME Init PROVE PushInv
  OBVIOUS
<1>3. ValuesInv
  BY <1>2 DEF Init, ValuesInv, NewSession, NoSession
<1>4. EarlierInv /\ KeptInv /\ PushReachesTurn
  BY <1>1, <1>2 DEF Init, EarlierInv, KeptInv, Written, Pushes, PushReachesTurn
<1> QED BY <1>3, <1>4 DEF PushInv

\* A step that no session is read or written in, but for the prompt of one call.
Unwritten ==
    /\ sessions' = sessions
    /\ answered' = answered
    /\ \A d \in Calls : calls'[d].at \in Flow \union {"build", "open"} =>
          \/ calls[d].at \in Flow \union {"build", "open"} \/ calls'[d].kind = "chat"

LEMMA UnwrittenStep ==
    ASSUME TypeInv, Onward, Unwritten
    PROVE  ValuesStay /\ SessionsKept /\ answered \subseteq answered' /\ WritesFirst
<1>1. ASSUME NEW d \in Calls, Written(d)' PROVE Written(d)
  <2>1. calls'[d].kind \in Pushes
    BY <1>1 DEF Written
  <2>2. CASE calls[d].at # "off"
    <3>1. calls'[d].kind = calls[d].kind
      BY <2>2 DEF Onward, Follows
    <3> QED BY <1>1, <2>1, <3>1 DEF Written, Unwritten, Pushes
  <2>3. CASE calls[d].at = "off"
    BY <1>1, <2>1, <2>3 DEF Written, Unwritten, Pushes, TypeInv, Late, Flow
  <2> QED BY <2>2, <2>3
<1> QED BY <1>1 DEF Unwritten, ValuesStay, SessionsKept, WritesFirst

LEMMA PushPieces ==
    ASSUME TypeInv, TypeInv', Onward, PushInv, WritesFirst, PromptStays,
           (ValuesStay /\ SessionsKept /\ answered \subseteq answered') \/ AllLost
    PROVE  PushInv'
BY ValuesStep, EarlierStep, KeptStep, ReachStep DEF PushInv

\* One call moves, and no push is written.
LEMMA QuietPush ==
    ASSUME TypeInv, TypeInv', Onward, PushInv, sessions' = sessions, answered' = answered,
           NEW c \in Calls, \A d \in Calls \ {c} : calls'[d] = calls[d],
           calls'[c].at \in Flow \union {"build", "open"} => calls[c].at \in Flow \union {"build", "open"},
           calls'[c].at = "model" =>
              Prompt(c) \/ (calls[c].at = "model" /\ calls'[c].shown = calls[c].shown)
    PROVE  PushInv'
<1>1. Unwritten
  BY DEF Unwritten
<1>2. PromptStays
  BY DEF PromptStays
<1> QED BY <1>1, <1>2, UnwrittenStep, PushPieces

LEMMA PushStep ==
    ASSUME TypeInv, PushInv, [Next]_vars
    PROVE  PushInv'
<1> USE DEF bounds
<1>0. CallsInv /\ Onward /\ TypeInv'
  BY TypeStep DEF TypeInv
<1>1. ASSUME NEW call \in Coming, Arrive(call) PROVE PushInv'
  <2>1. sessions' = sessions /\ answered' = answered
    BY <1>1 DEF Arrive
  <2>2. \A d \in Calls : calls[d].at # "off" => calls'[d] = calls[d]
    <3>1. SUFFICES ASSUME NEW d \in Calls, calls[d].at # "off" PROVE calls'[d] = calls[d]
      OBVIOUS
    <3>2. PICK x : calls' = [calls EXCEPT ![count'] = x]
      BY <1>1 DEF Arrive
    <3>3. d # count'
      BY <1>0, <1>1, <3>1 DEF Arrive, CallsInv, Calls
    <3> QED BY <1>0, <3>2, <3>3 DEF CallsInv
  <2>3. Unwritten
    BY <1>0, <2>1, <2>2, OffOK DEF Unwritten, Onward, Flow, Off
  <2>4. PromptStays
    BY <1>0, <2>2 DEF PromptStays, Onward, Off
  <2> QED BY <1>0, <2>3, <2>4, UnwrittenStep, PushPieces
<1>2. ASSUME NEW c \in Calls, GetSession(c) PROVE PushInv'
  <2>1. /\ sessions' = sessions /\ answered' = answered /\ count' = count
        /\ calls[c].at = "get" /\ calls[c].at \notin Past \union {"off"}
        /\ \/ Move(c, "append") \/ Fail(c)
           \/ Move(c, "create") /\ calls[c].kind = "run"
    BY <1>2 DEF GetSession, Past
  <2>2. /\ calls'[c].at \in Past \union {"append", "create"}
        /\ \A d \in Calls \ {c} : calls'[d] = calls[d]
    BY <1>0, <2>1, Moved, Finished
  <2> QED BY <1>0, <2>1, <2>2, QuietPush DEF Past, Flow
<1>3. ASSUME NEW c \in Calls, CreateSession(c) PROVE PushInv'
  <2>1. /\ answered' = answered /\ count' = count
        /\ calls[c].at = "create" /\ calls[c].at \notin Past \union {"off"}
        /\ Move(c, "append") \/ Fail(c)
    BY <1>3 DEF CreateSession, Past
  <2>2. /\ calls'[c].at \in Past \union {"append"}
        /\ \A d \in Calls \ {c} : calls'[d] = calls[d]
    BY <1>0, <2>1, Moved, Finished
  <2>3. \A u \in Users : \/ sessions'[u] = sessions[u]
                         \/ ~sessions[u].there /\ sessions'[u] = NewSession
    BY <1>3, Creating
  <2>4. ValuesStay /\ SessionsKept
    <3>1. \A u \in Users : sessions'[u].state = sessions[u].state
      BY <2>3 DEF TypeInv, SessionsInv, NewSession, NoSession
    <3> QED BY <2>3, <3>1 DEF ValuesStay, SessionsKept
  <2>5. WritesFirst
    BY <1>0, <2>1, <2>2 DEF WritesFirst, Written, Past, Flow, TypeInv, Late
  <2>6. PromptStays
    BY <2>2 DEF PromptStays, Past
  <2> QED BY <1>0, <2>1, <2>4, <2>5, <2>6, PushPieces
<1>4. ASSUME NEW c \in Calls, AppendEvent(c) PROVE PushInv'
  <2>1. /\ count' = count /\ calls[c].at = "append" /\ calls[c].at \notin Past \union {"off"}
        /\ \/ Move(c, "build") /\ calls[c].kind = "run" /\ answered' = answered
           \/ Finish(c) /\ answered' = answered \union {c}
    BY <1>4 DEF AppendEvent, Past
  <2>2. /\ calls'[c].at \in Past \union {"build"}
        /\ \A d \in Calls \ {c} : calls'[d] = calls[d]
    BY <1>0, <2>1, Moved, Finished
  <2> DEFINE u == calls[c].user  k == calls[c].key
  <2>3. /\ u \in Users /\ k \in Keys /\ sessions'[u].there
        /\ sessions'[u].state = [sessions[u].state EXCEPT ![k] = c]
        /\ \A v \in Users \ {u} : sessions'[v] = sessions[v]
    BY <1>4, Appended
  <2>4. sessions[u].state \in [Keys -> 0 .. MaxCalls]
    BY <2>3 DEF TypeInv, SessionsInv, Session
  <2>5. sessions'[u].state[k] = c
    BY <2>3, <2>4
  <2>6. ValuesStay /\ SessionsKept
    <3>1. ASSUME NEW v \in Users, NEW j \in Keys, v # u \/ j # k
          PROVE  sessions'[v].state[j] = sessions[v].state[j]
      <4>1. CASE v # u
        BY <2>3, <4>1
      <4>2. CASE v = u /\ j # k
        BY <2>3, <2>4, <4>2
      <4> QED BY <3>1, <4>1, <4>2
    <3>2. ValuesStay
      BY <2>1, <2>5, <3>1 DEF ValuesStay
    <3>3. SessionsKept
      BY <2>3 DEF SessionsKept
    <3> QED BY <3>2, <3>3
  <2>7. WritesFirst
    <3>1. SUFFICES ASSUME NEW d \in Calls \ {c}, Written(d)' PROVE Written(d)
      BY <2>1, <2>3, <2>5 DEF WritesFirst
    <3> QED BY <2>1, <2>2, <3>1 DEF Written
  <2>8. PromptStays
    BY <2>2 DEF PromptStays, Past
  <2> QED BY <1>0, <2>1, <2>6, <2>7, <2>8, PushPieces
<1>5. ASSUME NEW c \in Calls, BuildAgent(c) PROVE PushInv'
  <2>1. /\ sessions' = sessions /\ count' = count
        /\ calls[c].at = "build" /\ calls[c].at \notin Past \union {"off"}
        /\ \/ Move(c, "open") /\ answered' = answered \union {c}
           \/ Fail(c) /\ answered' = answered
    BY <1>5 DEF BuildAgent, Past
  <2>2. /\ calls'[c].at \in Past \union {"open"}
        /\ \A d \in Calls \ {c} : calls'[d] = calls[d]
    BY <1>0, <2>1, Moved, Finished
  <2>3. ValuesStay /\ SessionsKept /\ answered \subseteq answered'
    BY <2>1 DEF ValuesStay, SessionsKept
  <2>4. WritesFirst
    <3>1. calls'[c].kind = calls[c].kind
      BY <1>0, <2>1 DEF Onward, Follows
    <3> QED BY <2>1, <2>2, <3>1 DEF WritesFirst, Written
  <2>5. PromptStays
    BY <2>2 DEF PromptStays, Past
  <2> QED BY <1>0, <2>3, <2>4, <2>5, PushPieces
<1>6. ASSUME NEW c \in Calls, OpenRun(c) PROVE PushInv'
  <2>1. /\ answered' = answered /\ count' = count
        /\ calls[c].at = "open" /\ calls[c].at \notin Past \union {"off"}
        /\ Move(c, "agent")
    BY <1>6 DEF OpenRun, Past
  <2>2. calls'[c].at = "agent" /\ \A d \in Calls \ {c} : calls'[d] = calls[d]
    BY <1>0, <2>1, Moved
  <2>3. ValuesStay /\ SessionsKept
    <3>1. ASSUME NEW v \in Users
          PROVE  /\ sessions'[v].state = sessions[v].state
                 /\ sessions[v].there => sessions'[v].there
      <4>1. CASE v = calls[c].user
        BY <1>6, <4>1, Opened
      <4>2. CASE v # calls[c].user
        BY <1>6, <4>2, Opened
      <4> QED BY <4>1, <4>2
    <3> QED BY <3>1 DEF ValuesStay, SessionsKept
  <2>4. WritesFirst
    <3>1. calls'[c].kind = calls[c].kind
      BY <1>0, <2>1 DEF Onward, Follows
    <3> QED BY <2>1, <2>2, <3>1 DEF WritesFirst, Written
  <2>5. PromptStays
    BY <2>2 DEF PromptStays
  <2> QED BY <1>0, <2>1, <2>3, <2>4, <2>5, PushPieces
<1>7. ASSUME NEW c \in Calls,
             \/ Prompt(c) \/ Close(c)
             \/ \E label \in BOOLEAN : BeginAgent(c, label)
             \/ \E event \in {"text"} \union Terminals : Emit(c, event)
             \/ \E known \in BOOLEAN : Raise(c, known)
      PROVE PushInv'
  <2>1. sessions' = sessions /\ answered' = answered
    BY <1>7 DEF Prompt, Close, BeginAgent, Emit, Raise
  <2>2. /\ \A d \in Calls \ {c} : calls'[d] = calls[d]
        /\ calls'[c].at \in Flow \union {"build", "open"} => calls[c].at \in Flow
        /\ calls'[c].at = "model" =>
              Prompt(c) \/ (calls[c].at = "model" /\ calls'[c].shown = calls[c].shown)
    <3>1. CASE Prompt(c)
      <4>1. calls[c].at \in Flow
        BY <3>1 DEF Prompt, Flow
      <4> QED BY <3>1, <4>1, Prompted
    <3>2. CASE Close(c)
      <4>1. Finish(c) /\ count' = count /\ calls[c].at \notin Past \union {"off"}
        BY <3>2 DEF Close, Past
      <4> QED BY <1>0, <4>1, Finished DEF Past, Flow
    <3>3. CASE \E label \in BOOLEAN : BeginAgent(c, label)
      <4>1. calls[c].at \in Flow
        BY <3>3 DEF BeginAgent, Flow
      <4> QED BY <1>0, <3>3, <4>1, Begun
    <3>4. CASE \E event \in {"text"} \union Terminals : Emit(c, event)
      <4>1. calls[c].at \in Flow \union {"ended"}
        BY <3>4 DEF Emit, Streaming, Flow
      <4> QED BY <1>0, <3>4, <4>1, Spoken DEF Same, Flow
    <3>5. CASE \E known \in BOOLEAN : Raise(c, known)
      BY <1>0, <3>5, Interrupted DEF Flow
    <3> QED BY <1>7, <3>1, <3>2, <3>3, <3>4, <3>5
  <2> QED BY <1>0, <2>1, <2>2, QuietPush
<1>8. ASSUME EditSkill \/ UNCHANGED vars PROVE PushInv'
  <2>1. calls' = calls /\ sessions' = sessions /\ answered' = answered
    BY <1>8 DEF EditSkill, vars
  <2>2. Unwritten /\ PromptStays
    BY <2>1 DEF Unwritten, PromptStays
  <2> QED BY <1>0, <2>2, UnwrittenStep, PushPieces
<1>9. ASSUME Restart PROVE PushInv'
  <2>1. \A c \in Calls : calls'[c].at \in Past \union {"off"}
    BY <1>0, <1>9, RestartMoves
  <2>2. PromptStays
    BY <2>1 DEF PromptStays, Past
  <2>3. CASE Durable
    <3>1. sessions' = sessions /\ answered' = answered
      BY <1>9, <2>3 DEF Restart
    <3>2. Unwritten
      BY <2>1, <3>1 DEF Unwritten, Past, Flow
    <3> QED BY <1>0, <2>2, <3>2, UnwrittenStep, PushPieces
  <2>4. CASE ~Durable
    <3>1. AllLost
      BY <1>9, <2>1, <2>4 DEF Restart, AllLost
    <3>2. WritesFirst
      BY <3>1 DEF AllLost, WritesFirst, Written, Past, Flow
    <3> QED BY <1>0, <2>2, <3>1, <3>2, PushPieces
  <2> QED BY <2>3, <2>4
<1>10. ASSUME \/ \E u \in Users, id \in SurfaceIds : Click(u, id)
              \/ \E u \in Users, id \in SurfaceIds, sends \in BOOLEAN : ClickRun(u, id, sends)
              \/ \E u \in Users, id \in FrameIds : Frame(u, id)
              \/ \E u \in Users, sends \in BOOLEAN : Chat(u, sends)
       PROVE PushInv'
  <2>1. PICK call \in Coming : Arrive(call)
    BY <1>10, ComingKinds DEF Click, ClickRun, Frame, Chat
  <2> QED BY <1>1, <2>1
<1>11. ASSUME NEW c \in Calls, Step(c) PROVE PushInv'
  BY <1>2, <1>3, <1>4, <1>5, <1>6, <1>7, <1>11 DEF Step
<1> QED BY <1>8, <1>9, <1>10, <1>11 DEF Next

\* What a user pushed reaches their next turn: the prompt of a turn shows every push its
\* user had answered before, and the click that started it, or a push of the same surface
\* that is not older.  Clicks overlap, two of them may make the session, others' sessions
\* are beside it, and a restart between loses what it loses for all.
\* (post_surface_action, post_surface_action_run, post_iframe_context, _collect_surfaces)
THEOREM PushTheorem == Spec => []PushReachesTurn
<1>1. TypeInv /\ PushInv /\ [Next]_vars => TypeInv' /\ PushInv'
  BY TypeStep, PushStep
<1>2. PushInv => PushReachesTurn
  BY DEF PushInv
<1> QED BY TypeInit, PushInit, <1>1, <1>2, PTL DEF Spec
=============================================================================
