--------------------------- MODULE LocalStoreProofs ---------------------------
(***************************************************************************)
(* What a reader of the in-memory store is given, for any documents,       *)
(* fields, writes, reads and threads.                                      *)
(*                                                                         *)
(* A write is all at once but for update, and that holds the lock: the     *)
(* dictionary of a document is between what it was and what it is to be,   *)
(* field by field, and a reader has seen both.  The values of fields are   *)
(* never looked into.                                                      *)
(***************************************************************************)
EXTENDS LocalStore, FiniteSetTheorems, SequenceTheorems, TLAPS

\* None stands for a document that is not there, and is not a document.
NoneIsNoDocument == \A v : v = [f \in Fields |-> v[f]] => v # None

Document(v) == v = [f \in Fields |-> v[f]]

-----------------------------------------------------------------------------
(* The dictionaries.                                                       *)

HeapOK ==
    /\ heap = [r \in DOMAIN heap |-> heap[r]]
    /\ IsFiniteSet(DOMAIN heap) /\ DOMAIN heap \subseteq Docs \union Nat
    /\ \A n \in DOMAIN heap \intersect Nat : n < Cardinality(DOMAIN heap)
    /\ \A r \in DOMAIN heap : Document(heap[r])

StoreOK ==
    /\ store = [d \in Docs |-> store[d]] /\ latest = [d \in Docs |-> latest[d]]
    /\ \A d \in Docs :
          /\ store[d] # None => store[d] \in DOMAIN heap /\ Document(latest[d])
          /\ store[d] = None => latest[d] = None
    /\ \A d, e \in Docs : store[d] # None /\ store[d] = store[e] => d = e

Assigning(c, d) == c.at = "assign" /\ c.write.doc = d

\* The fields of an update that are still to be written.
Due(c) == {c.write.data[i].field : i \in DOMAIN c.write.data}

\* An update has the lock, and the dictionary is as before but for what is done.
Midway(c) ==
    LET d == c.write.doc
    IN  /\ d \in Docs /\ store[d] # None /\ c.refs = <<store[d]>> /\ Document(c.before)
        /\ c.write = [op |-> c.write.op, doc |-> d, data |-> c.write.data]
        /\ c.write.data \in Seq({c.write.data[i] : i \in DOMAIN c.write.data}) /\ c.write.data # <<>>
        /\ Due(c) \subseteq Fields
        /\ \A i, j \in DOMAIN c.write.data : c.write.data[i].field = c.write.data[j].field => i = j
        /\ \A f \in Fields \ Due(c) : heap[store[d]][f] = latest[d][f]
        /\ \A i \in DOMAIN c.write.data :
              LET change == c.write.data[i]
              IN  /\ heap[store[d]][change.field] = c.before[change.field]
                  /\ latest[d][change.field] = ChangedValue(c.before[change.field], change)

\* A document that no update is at is as its writes made it.
Settled ==
    \A d \in Docs : store[d] # None /\ (\A t \in Thread : ~Assigning(work[t], d)) =>
        heap[store[d]] = latest[d]

-----------------------------------------------------------------------------
(* The work.                                                              *)

Places == {"idle", "write", "assign", "take", "match", "row", "copy", "answered"}
ReadPlaces == {"take", "match", "row", "copy", "answered"}

Call(c) ==
    c = [at |-> c.at, write |-> c.write, read |-> c.read, refs |-> c.refs, rows |-> c.rows,
         row |-> c.row, before |-> c.before, seen |-> c.seen]

Row(row) ==
    /\ row = [doc |-> row.doc, size |-> row.size, left |-> row.left, copy |-> row.copy]
    /\ row.copy = [f \in Fields |-> row.copy[f]]

Shape(c) ==
    /\ Call(c) /\ Row(c.row)
    /\ c.at \in Places /\ (c.at \in ReadPlaces <=> c.read # None)
    /\ c.read # None => c.read \in Reads
    /\ c.at = "write" => c.write \in Writes

\* A reader has seen the document as it is, and as it was before an update under way.
Noted(c) ==
    \A d \in c.read.docs :
       /\ <<d, latest[d]>> \in c.seen
       /\ \A t \in Thread : Assigning(work[t], d) => <<d, work[t].before>> \in c.seen

\* A document that was seen with a value, and one that an answer need not have.
Saw(c, d, f, x) == \E s \in c.seen : s[1] = d /\ s[2] # None /\ s[2][f] = x
MayMiss(c, d) ==
    \/ <<d, None>> \in c.seen
    \/ c.read.op # "fetch" /\ \E s \in c.seen : s[1] = d /\ s[2] # None /\ ~Matches(s[2], c.read)

Complete(c, ds) == \A d \in c.read.docs : d \in ds \/ MayMiss(c, d)
Matched(c, ds) == c.read.op = "query" => \A d \in ds : Saw(c, d, c.read.field, c.read.value)
Copied(c) == \A d \in DOMAIN c.rows, f \in Fields : Saw(c, d, f, c.rows[d][f])

\* What a reader has found so far.
Found(c) ==
    /\ c.at \in {"take", "match"} => DOMAIN c.rows = {}
    /\ c.at = "match" => /\ c.read.op = "query" /\ c.row.left \subseteq DOMAIN c.refs
                         /\ Complete(c, DOMAIN c.refs) /\ Matched(c, DOMAIN c.refs \ c.row.left)
    /\ c.at \in {"row", "copy"} =>
          /\ DOMAIN c.rows \subseteq DOMAIN c.refs /\ Copied(c) /\ Matched(c, DOMAIN c.refs)
          /\ Cardinality(DOMAIN c.refs) < c.read.limit => Complete(c, DOMAIN c.refs)
    /\ c.at = "copy" => /\ c.row.doc \in DOMAIN c.refs
                        /\ \A f \in Fields \ c.row.left : Saw(c, c.row.doc, f, c.row.copy[f])
    /\ c.at = "answered" =>
          /\ Copied(c) /\ Matched(c, DOMAIN c.rows)
          /\ Cardinality(DOMAIN c.rows) < c.read.limit => Complete(c, DOMAIN c.rows)

\* A dictionary it refers to is that of its document or of nobody, and was seen to be so.
Held(c) ==
    c.at \in {"match", "row", "copy"} => \A d \in DOMAIN c.refs :
       /\ d \in c.read.docs /\ c.refs[d] \in DOMAIN heap
       /\ \A e \in Docs : store[e] = c.refs[d] => e = d
       /\ \A f \in Fields : Saw(c, d, f, heap[c.refs[d]][f])

ReaderOK(c) == c.read # None => Noted(c) /\ Found(c) /\ Held(c)

CallsOK ==
    /\ work = [t \in Thread |-> work[t]]
    /\ \A t \in Thread :
          /\ Shape(work[t]) /\ ReaderOK(work[t])
          /\ work[t].at = "assign" => lock = t /\ Midway(work[t])

StoreInv == HeapOK /\ StoreOK /\ Settled /\ CallsOK

-----------------------------------------------------------------------------
(* Readers.                                                                *)

LEMMA ReadsAre ==
    ASSUME NEW r \in Reads
    PROVE  /\ r.op \in {"fetch", "query"} /\ r.docs \subseteq Docs /\ r.limit \in Nat /\ r # None
           /\ r.op = "query" => r.field \in Fields
  BY StoreAssumption

\* One update at most is under way, with the lock.
LEMMA Alone ==
    ASSUME CallsOK, NEW t \in Thread, work[t].at = "assign"
    PROVE  lock = t /\ lock # None /\ \A u \in Thread : work[u].at = "assign" => u = t
  BY StoreAssumption DEF CallsOK

\* What a reader knows it goes on knowing when it has seen more.
LEMMA SeesMore ==
    ASSUME NEW c, NEW b, c.seen \subseteq b.seen, b.read = c.read
    PROVE  /\ \A d, f, x : Saw(c, d, f, x) => Saw(b, d, f, x)
           /\ \A d : MayMiss(c, d) => MayMiss(b, d)
           /\ \A ds : (Complete(c, ds) => Complete(b, ds)) /\ (Matched(c, ds) => Matched(b, ds))
  <1>1. \A d, f, x : Saw(c, d, f, x) => Saw(b, d, f, x)
    BY DEF Saw
  <1>2. \A d : MayMiss(c, d) => MayMiss(b, d)
    BY DEF MayMiss
  <1>3. \A ds : Complete(c, ds) => Complete(b, ds)
    BY <1>2 DEF Complete
  <1>4. \A ds : Matched(c, ds) => Matched(b, ds)
    BY <1>1 DEF Matched
  <1> QED BY <1>1, <1>2, <1>3, <1>4

\* A document that is there has been seen with every value it now has.
LEMMA SeenNow ==
    ASSUME StoreInv, NoneIsNoDocument, NEW c, c.read \in Reads, Noted(c), NEW d \in c.read.docs,
           store[d] # None, NEW f \in Fields
    PROVE  Saw(c, d, f, heap[store[d]][f])
  <1>1. /\ d \in Docs /\ <<d, latest[d]>> \in c.seen /\ latest[d] # None
        /\ <<d, latest[d]>>[1] = d /\ <<d, latest[d]>>[2] = latest[d]
    BY ReadsAre DEF Noted, StoreInv, StoreOK, Document, NoneIsNoDocument
  <1>2. CASE heap[store[d]][f] = latest[d][f]
    BY <1>1, <1>2 DEF Saw
  <1>3. CASE heap[store[d]][f] # latest[d][f]
    <2>1. PICK t \in Thread : Assigning(work[t], d)
      BY <1>1, <1>3 DEF StoreInv, Settled
    <2>2. PICK b : b = work[t].before
      OBVIOUS
    <2>3. Midway(work[t]) /\ work[t].write.doc = d
      BY <2>1 DEF StoreInv, CallsOK, Assigning
    <2>4. heap[store[d]][f] = b[f]
      <3>1. f \in Due(work[t])
        BY <1>3, <2>3 DEF Midway
      <3>2. PICK i \in DOMAIN work[t].write.data : work[t].write.data[i].field = f
        BY <3>1 DEF Due
      <3> QED BY <2>2, <2>3, <3>2 DEF Midway
    <2>5. Document(b)
      BY <2>2, <2>3 DEF Midway
    <2>6. <<d, b>> \in c.seen /\ b # None
      BY <2>1, <2>2, <2>5 DEF Noted, Document, NoneIsNoDocument
    <2>7. <<d, b>>[1] = d /\ <<d, b>>[2] = b
      OBVIOUS
    <2> QED BY <2>4, <2>6, <2>7 DEF Saw
  <1> QED BY <1>2, <1>3

\* Nothing but one call changes, and that is of no update.
LEMMA ReaderStep ==
    ASSUME StoreInv, NEW t \in Thread, NEW c, work' = [work EXCEPT ![t] = c],
           UNCHANGED <<store, heap, lock, latest>>, work[t].at # "assign", c.at # "assign",
           Shape(c), ReaderOK(c)
    PROVE  StoreInv'
  <1>1. work'[t] = c /\ \A u \in Thread \ {t} : work'[u] = work[u]
    BY DEF StoreInv, CallsOK
  <1>2. HeapOK' /\ StoreOK'
    BY DEF StoreInv, HeapOK, StoreOK
  <1>3. \A u \in Thread : work'[u].at = "assign" \/ work[u].at = "assign" => work'[u] = work[u]
    BY <1>1
  <1>4. Settled'
    BY <1>3 DEF StoreInv, Settled, Assigning
  <1>5. ASSUME NEW b, ReaderOK(b) PROVE ReaderOK(b)'
    <2>1. Noted(b) => Noted(b)'
      BY <1>3 DEF Noted, Assigning
    <2>2. Held(b) => Held(b)'
      BY DEF Held
    <2> QED BY <1>5, <2>1, <2>2 DEF ReaderOK
  <1>6. ASSUME NEW u \in Thread
        PROVE  /\ Shape(work'[u]) /\ ReaderOK(work[u])'
               /\ work'[u].at = "assign" => lock' = u /\ Midway(work[u])'
    <2>1. CASE u = t
      <3>1. ReaderOK(c)'
        BY <1>5
      <3> QED BY <1>1, <2>1, <3>1
    <2>2. CASE u # t
      <3>1. PICK b : b = work[u]
        OBVIOUS
      <3>2. Shape(b) /\ ReaderOK(b) /\ (b.at = "assign" => lock = u /\ Midway(b)) /\ work'[u] = b
        BY <1>1, <2>2, <3>1 DEF StoreInv, CallsOK
      <3>3. ReaderOK(b)'
        BY <1>5, <3>2
      <3>4. Midway(b) => Midway(b)'
        BY DEF Midway
      <3> QED BY <3>2, <3>3, <3>4
    <2> QED BY <2>1, <2>2
  <1>7. work' = [u \in Thread |-> work'[u]]
    BY DEF StoreInv, CallsOK
  <1> QED BY <1>2, <1>4, <1>6, <1>7 DEF StoreInv, CallsOK

LEMMA NoCallIs ==
    Shape(NoCall) /\ NoCall.read = None /\ NoCall.at = "idle" /\ ReaderOK(NoCall)
  BY DEF NoCall, NoRow, Shape, Call, Row, Places, ReadPlaces, ReaderOK

\* A reader at work, its place and what it reads.
LEMMA AtRead ==
    ASSUME StoreInv, NEW t \in Thread, work[t].at \in ReadPlaces
    PROVE  /\ Shape(work[t]) /\ work[t].read \in Reads /\ work[t].at # "assign"
           /\ Noted(work[t]) /\ Found(work[t]) /\ Held(work[t])
  BY DEF StoreInv, CallsOK, ReaderOK, Shape, Call, Row, ReadPlaces

LEMMA WriteKeeps ==
    ASSUME StoreInv, NEW t \in Thread, Write(t)
    PROVE  StoreInv'
  <1>1. PICK w \in Writes : work' = [work EXCEPT ![t] = [NoCall EXCEPT !.at = "write", !.write = w]]
    BY DEF Write, Enters
  <1>2. PICK c : c = [NoCall EXCEPT !.at = "write", !.write = w]
    OBVIOUS
  <1>3. Shape(c) /\ c.read = None /\ c.at = "write"
    BY <1>2 DEF NoCall, NoRow, Shape, Call, Row, Places, ReadPlaces
  <1>4. work[t].at # "assign" /\ UNCHANGED <<store, heap, lock, latest>>
    BY NoCallIs DEF Write
  <1> QED BY <1>1, <1>2, <1>3, <1>4, ReaderStep DEF ReaderOK

LEMMA ReadKeeps ==
    ASSUME StoreInv, NEW t \in Thread, ReadDocs(t)
    PROVE  StoreInv'
  <1>1. PICK r \in Reads : work' = [work EXCEPT ![t] =
           [NoCall EXCEPT !.at = "take", !.read = r,
                !.seen = {<<d, latest[d]>> : d \in r.docs} \union
                         {<<work[u].write.doc, work[u].before>> :
                             u \in {v \in Thread : work[v].at = "assign" /\ work[v].write.doc \in r.docs}}]]
    BY DEF ReadDocs, Enters
  <1>2. PICK seen : seen = {<<d, latest[d]>> : d \in r.docs} \union
                         {<<work[u].write.doc, work[u].before>> :
                             u \in {v \in Thread : work[v].at = "assign" /\ work[v].write.doc \in r.docs}}
    OBVIOUS
  <1>3. PICK c : c = [NoCall EXCEPT !.at = "take", !.read = r, !.seen = seen]
    OBVIOUS
  <1>4. Shape(c) /\ c.read = r /\ c.at = "take" /\ c.rows = <<>> /\ c.seen = seen
    BY <1>3, ReadsAre DEF NoCall, NoRow, Shape, Call, Row, Places, ReadPlaces
  <1>5. Noted(c)
    BY <1>2, <1>4 DEF Noted, Assigning
  <1>6. Found(c) /\ Held(c)
    BY <1>4 DEF Found, Held
  <1>7. work[t].at # "assign" /\ UNCHANGED <<store, heap, lock, latest>>
    BY NoCallIs DEF ReadDocs
  <1> QED BY <1>1, <1>2, <1>3, <1>4, <1>5, <1>6, <1>7, ReaderStep DEF ReaderOK

\* The references of the documents that are there, which are no other document's.
LEMMA TakeKeeps ==
    ASSUME StoreInv, NoneIsNoDocument, NEW t \in Thread, Take(t)
    PROVE  StoreInv'
  <1>1. PICK b : b = work[t]
    OBVIOUS
  <1>2. /\ Shape(b) /\ b.read \in Reads /\ b.at = "take" /\ Noted(b) /\ DOMAIN b.rows = {}
        /\ b.read.docs \subseteq Docs /\ b.read.op \in {"fetch", "query"}
    BY <1>1, AtRead, ReadsAre DEF Take, ReadPlaces, Found
  <1>3. PICK there : there = {d \in b.read.docs : store[d] # None}
    OBVIOUS
  <1>4. PICK refs : refs = [d \in there |-> store[d]]
    OBVIOUS
  <1>5. PICK at : at = IF b.read.op = "fetch" THEN "row" ELSE "match"
    OBVIOUS
  <1>6. PICK c : c = [b EXCEPT !.refs = refs, !.at = at, !.row.left = there]
    OBVIOUS
  <1>7. work' = [work EXCEPT ![t] = c] /\ UNCHANGED <<store, heap, lock, latest>>
    BY <1>1, <1>3, <1>4, <1>5, <1>6 DEF Take, Enters
  <1>8. /\ c.refs = refs /\ c.at = at /\ c.row.left = there /\ c.read = b.read /\ c.seen = b.seen
        /\ c.rows = b.rows
    BY <1>2, <1>6 DEF Shape, Call, Row
  <1>9. Shape(c)
    <2>1. Call(c) /\ Row(c.row)
      BY <1>2, <1>6 DEF Shape, Call, Row
    <2>4. c.at \in {"row", "match"}
      BY <1>5, <1>8
    <2> QED BY <1>2, <1>8, <2>1, <2>4, ReadsAre DEF Shape, Places, ReadPlaces
  <1>10. Noted(c)
    BY <1>2, <1>8 DEF Noted
  <1>11. Held(c)
    <2> SUFFICES ASSUME NEW d \in there
                 PROVE  /\ d \in c.read.docs /\ refs[d] \in DOMAIN heap
                        /\ \A e \in Docs : store[e] = refs[d] => e = d
                        /\ \A f \in Fields : Saw(c, d, f, heap[refs[d]][f])
      BY <1>4, <1>8 DEF Held
    <2>1. d \in b.read.docs /\ d \in Docs /\ store[d] # None /\ refs[d] = store[d]
      BY <1>2, <1>3, <1>4
    <2>2. store[d] \in DOMAIN heap /\ \A e \in Docs : store[e] = store[d] => e = d
      BY <2>1 DEF StoreInv, StoreOK
    <2>3. \A f \in Fields : Saw(c, d, f, heap[store[d]][f])
      BY <1>2, <1>8, <1>10, <2>1, SeenNow
    <2> QED BY <1>8, <2>1, <2>2, <2>3
  <1>12. Found(c)
    <2>1. Complete(c, there)
      <3> SUFFICES ASSUME NEW d \in b.read.docs, d \notin there PROVE MayMiss(c, d)
        BY <1>8 DEF Complete
      <3>1. store[d] = None /\ d \in Docs
        BY <1>2, <1>3
      <3>2. latest[d] = None
        BY <3>1 DEF StoreInv, StoreOK
      <3> QED BY <1>2, <1>8, <3>2 DEF MayMiss, Noted
    <2>2. DOMAIN c.refs = there
      BY <1>4, <1>8
    <2>3. CASE b.read.op = "fetch"
      BY <1>2, <1>5, <1>8, <2>1, <2>2, <2>3 DEF Found, Copied, Matched
    <2>4. CASE b.read.op = "query"
      BY <1>2, <1>5, <1>8, <2>1, <2>2, <2>4 DEF Found, Matched
    <2> QED BY <1>2, <2>3, <2>4
  <1>13. c.at # "assign" /\ b.at # "assign"
    BY <1>2, <1>5, <1>8
  <1> QED BY <1>1, <1>7, <1>9, <1>10, <1>11, <1>12, <1>13, ReaderStep DEF ReaderOK

\* Once the references are taken, a reader may let go of some, and goes on.
LEMMA GoesOn ==
    ASSUME StoreInv, NEW t \in Thread, NEW b, b = work[t], b.at \in {"match", "row", "copy"},
           NEW c, Call(c), Row(c.row), c.read = b.read, c.seen = b.seen,
           \/ c.at = "answered"
           \/ /\ c.at \in {"match", "row", "copy"} /\ DOMAIN c.refs \subseteq DOMAIN b.refs
              /\ \A d \in DOMAIN c.refs : c.refs[d] = b.refs[d],
           Found(c), work' = [work EXCEPT ![t] = c], UNCHANGED <<store, heap, lock, latest>>
    PROVE  StoreInv'
  <1>1. /\ Shape(b) /\ b.read \in Reads /\ Noted(b) /\ Held(b) /\ b.at # "assign"
    BY AtRead DEF ReadPlaces
  <1>4. Shape(c) /\ c.at # "assign"
    BY <1>1, ReadsAre DEF Shape, Places, ReadPlaces
  <1>5. Noted(c)
    BY <1>1 DEF Noted
  <1>6. Held(c)
    <2> SUFFICES ASSUME c.at # "answered", NEW d \in DOMAIN c.refs
                 PROVE  /\ d \in c.read.docs /\ c.refs[d] \in DOMAIN heap
                        /\ \A e \in Docs : store[e] = c.refs[d] => e = d
                        /\ \A f \in Fields : Saw(c, d, f, heap[c.refs[d]][f])
      BY DEF Held
    <2>1. d \in DOMAIN b.refs /\ c.refs[d] = b.refs[d]
      OBVIOUS
    <2> QED BY <1>1, <2>1 DEF Held, Saw
  <1> QED BY <1>1, <1>4, <1>5, <1>6, ReaderStep DEF ReaderOK

\* A document that does not match was seen not to.
LEMMA MatchKeeps ==
    ASSUME StoreInv, NEW t \in Thread, Match(t)
    PROVE  StoreInv'
  <1>1. PICK b : b = work[t]
    OBVIOUS
  <1>2. PICK d \in b.row.left :
           /\ work' = [work EXCEPT ![t] = [b EXCEPT !.row.left = @ \ {d},
                 !.refs = IF Matches(heap[b.refs[d]], b.read) THEN @ ELSE Without(@, d)]]
           /\ b.at = "match" /\ UNCHANGED <<store, heap, lock, latest>>
    BY <1>1 DEF Match, Enters
  <1>3. /\ Shape(b) /\ b.read \in Reads /\ Found(b) /\ Held(b) /\ d \in DOMAIN b.refs
        /\ b.read.op = "query" /\ b.read.field \in Fields
    BY <1>1, <1>2, AtRead, ReadsAre DEF ReadPlaces, Found
  <1>4. PICK refs : refs = IF Matches(heap[b.refs[d]], b.read) THEN b.refs ELSE Without(b.refs, d)
    OBVIOUS
  <1>5. PICK c : c = [b EXCEPT !.row.left = @ \ {d}, !.refs = refs]
    OBVIOUS
  <1>6. /\ Call(c) /\ Row(c.row) /\ c.at = "match" /\ c.refs = refs /\ c.rows = b.rows
        /\ c.row.left = b.row.left \ {d} /\ c.read = b.read /\ c.seen = b.seen
    BY <1>2, <1>3, <1>5 DEF Shape, Call, Row
  <1>7. work' = [work EXCEPT ![t] = c]
    BY <1>2, <1>3, <1>4, <1>5 DEF Shape, Call
  <1>9. DOMAIN c.refs \subseteq DOMAIN b.refs /\ \A e \in DOMAIN c.refs : c.refs[e] = b.refs[e]
    BY <1>4, <1>6 DEF Without
  <1>12. Saw(b, d, b.read.field, heap[b.refs[d]][b.read.field])
    BY <1>2, <1>3 DEF Held
  <1>13. Found(c)
    <2>1. CASE Matches(heap[b.refs[d]], b.read)
      <3>1. refs = b.refs /\ Saw(b, d, b.read.field, b.read.value)
        BY <1>4, <1>12, <2>1 DEF Matches
      <3>2. Matched(c, DOMAIN refs \ c.row.left)
        BY <1>2, <1>3, <1>6, <3>1 DEF Found, Matched, Saw
      <3>3. Complete(c, DOMAIN refs)
        BY <1>2, <1>3, <1>6, <3>1 DEF Found, Complete, MayMiss
      <3> QED BY <1>2, <1>3, <1>6, <3>1, <3>2, <3>3 DEF Found
    <2>2. CASE ~Matches(heap[b.refs[d]], b.read)
      <3>1. DOMAIN refs = DOMAIN b.refs \ {d} /\ MayMiss(b, d)
        BY <1>3, <1>4, <1>12, <2>2 DEF Matches, Without, MayMiss, Saw
      <3>2. Matched(c, DOMAIN refs \ c.row.left)
        BY <1>2, <1>3, <1>6, <3>1 DEF Found, Matched, Saw
      <3>3. Complete(c, DOMAIN refs)
        BY <1>2, <1>3, <1>6, <3>1 DEF Found, Complete, MayMiss
      <3> QED BY <1>2, <1>3, <1>6, <3>1, <3>2, <3>3 DEF Found
    <2> QED BY <2>1, <2>2
  <1>14. b.at = "match" /\ UNCHANGED <<store, heap, lock, latest>>
    BY <1>2
  <1>15. Call(c) /\ Row(c.row) /\ c.read = b.read /\ c.seen = b.seen /\ c.at \in {"match", "row", "copy"}
    BY <1>6
  <1> QED BY <1>1, <1>7, <1>9, <1>13, <1>14, <1>15, GoesOn

\* A query that is cut has as many rows as it may.
LEMMA CutKeeps ==
    ASSUME StoreInv, NEW t \in Thread, Cut(t)
    PROVE  StoreInv'
  <1>1. PICK b : b = work[t]
    OBVIOUS
  <1>2. PICK kept \in SUBSET DOMAIN b.refs :
           /\ kept = DOMAIN b.refs \/ Cardinality(kept) = b.read.limit
           /\ work' = [work EXCEPT ![t] = [b EXCEPT !.at = "row", !.refs = [d \in kept |-> @[d]]]]
           /\ b.at = "match" /\ b.row.left = {} /\ UNCHANGED <<store, heap, lock, latest>>
    BY <1>1 DEF Cut, Enters
  <1>3. Shape(b) /\ Found(b) /\ b.read \in Reads /\ b.read.limit \in Nat
    BY <1>1, <1>2, AtRead, ReadsAre DEF ReadPlaces, Shape, Call, Row
  <1>4. PICK refs : refs = [d \in kept |-> b.refs[d]]
    OBVIOUS
  <1>5. PICK c : c = [b EXCEPT !.at = "row", !.refs = refs]
    OBVIOUS
  <1>6. /\ Call(c) /\ Row(c.row) /\ c.at = "row" /\ c.refs = refs /\ c.rows = b.rows
        /\ c.read = b.read /\ c.seen = b.seen
    BY <1>3, <1>5 DEF Shape, Call, Row
  <1>7. work' = [work EXCEPT ![t] = c]
    BY <1>2, <1>3, <1>4, <1>5 DEF Shape, Call
  <1>8. Found(c)
    <2>1. DOMAIN b.rows = {} /\ Complete(b, DOMAIN b.refs) /\ Matched(b, DOMAIN b.refs) /\ DOMAIN refs = kept
      BY <1>2, <1>3, <1>4 DEF Found
    <2>2. Matched(c, kept)
      BY <1>6, <2>1 DEF Matched, Saw
    <2>3. Cardinality(kept) < b.read.limit => kept = DOMAIN b.refs
      BY <1>2, <1>3
    <2>4. Complete(c, DOMAIN b.refs)
      BY <1>6, <2>1 DEF Complete, MayMiss
    <2> QED BY <1>6, <2>1, <2>2, <2>3, <2>4 DEF Found, Copied
  <1>9. DOMAIN c.refs \subseteq DOMAIN b.refs /\ \A e \in DOMAIN c.refs : c.refs[e] = b.refs[e]
    BY <1>4, <1>6
  <1>14. b.at = "match" /\ UNCHANGED <<store, heap, lock, latest>>
    BY <1>2
  <1>15. Call(c) /\ Row(c.row) /\ c.read = b.read /\ c.seen = b.seen /\ c.at \in {"match", "row", "copy"}
    BY <1>6
  <1> QED BY <1>1, <1>7, <1>8, <1>9, <1>14, <1>15, GoesOn

\* Items that are not there when a copy begins were seen not to be.
LEMMA SnapshotKeeps ==
    ASSUME StoreInv, NEW t \in Thread, Snapshot(t)
    PROVE  StoreInv'
  <1>1. PICK b : b = work[t]
    OBVIOUS
  <1>2. PICK d \in DOMAIN b.refs :
           /\ work' = [work EXCEPT ![t] = [b EXCEPT !.at = "copy",
                 !.row = [NoRow EXCEPT !.doc = d, !.size = Cardinality(Items(heap[b.refs[d]])),
                                       !.left = Items(heap[b.refs[d]])]]]
           /\ b.at = "row" /\ UNCHANGED <<store, heap, lock, latest>>
    BY <1>1 DEF Snapshot, Enters
  <1>20. PICK items : items = Items(heap[b.refs[d]])
    OBVIOUS
  <1>3. Shape(b) /\ Found(b) /\ Held(b) /\ b.read \in Reads
    BY <1>1, <1>2, AtRead DEF ReadPlaces
  <1>4. PICK row : row = [NoRow EXCEPT !.doc = d, !.size = Cardinality(items), !.left = items]
    OBVIOUS
  <1>5. Row(row) /\ row.doc = d /\ row.left = items /\ \A f \in Fields : row.copy[f] = None
    BY <1>4 DEF NoRow, Row
  <1>6. PICK c : c = [b EXCEPT !.at = "copy", !.row = row]
    OBVIOUS
  <1>8. /\ Call(c) /\ c.at = "copy" /\ c.refs = b.refs /\ c.rows = b.rows /\ c.row = row
        /\ c.read = b.read /\ c.seen = b.seen
    BY <1>3, <1>6 DEF Shape, Call
  <1>9. Found(c)
    <2>1. \A f \in Fields \ items : Saw(c, d, f, None)
      <3> SUFFICES ASSUME NEW f \in Fields \ items PROVE Saw(c, d, f, None)
        OBVIOUS
      <3>1. heap[b.refs[d]][f] = None
        BY <1>20 DEF Items
      <3>2. Saw(b, d, f, heap[b.refs[d]][f])
        BY <1>2, <1>3 DEF Held
      <3> QED BY <1>8, <3>1, <3>2 DEF Saw
    <2>2. Copied(c) /\ Matched(c, DOMAIN c.refs) /\ (Complete(b, DOMAIN b.refs) => Complete(c, DOMAIN c.refs))
      BY <1>2, <1>3, <1>8 DEF Found, Copied, Matched, Complete, MayMiss, Saw
    <2> QED BY <1>2, <1>3, <1>5, <1>8, <2>1, <2>2 DEF Found
  <1>10. work' = [work EXCEPT ![t] = c]
    BY <1>2, <1>20, <1>4, <1>6
  <1> QED BY <1>1, <1>2, <1>5, <1>8, <1>9, <1>10, GoesOn

\* A call that ends.
LEMMA EndKeeps ==
    ASSUME StoreInv, NEW t \in Thread, work[t].at # "assign", Enters(t, NoCall),
           UNCHANGED <<store, heap, lock, latest>>
    PROVE  StoreInv'
  <1>1. PICK c : c = NoCall
    OBVIOUS
  <1>2. Shape(c) /\ ReaderOK(c) /\ c.at # "assign"
    BY <1>1, NoCallIs
  <1>3. work' = [work EXCEPT ![t] = c]
    BY <1>1 DEF Enters
  <1> QED BY <1>2, <1>3, ReaderStep

\* A field that is copied was seen to have the value it is copied with.
LEMMA CopyKeeps ==
    ASSUME StoreInv, NEW t \in Thread, Copy(t)
    PROVE  StoreInv'
  <1>1. PICK b : b = work[t]
    OBVIOUS
  <1>2. PICK document : document = heap[b.refs[b.row.doc]]
    OBVIOUS
  <1>3. b.at = "copy" /\ UNCHANGED <<store, heap, lock, latest>>
    BY <1>1 DEF Copy
  <1>4. /\ Shape(b) /\ Found(b) /\ Held(b) /\ b.read \in Reads /\ b.row.doc \in DOMAIN b.refs
        /\ \A f \in Fields \ b.row.left : Saw(b, b.row.doc, f, b.row.copy[f])
        /\ \A f \in Fields : Saw(b, b.row.doc, f, document[f])
    BY <1>1, <1>2, <1>3, AtRead DEF ReadPlaces, Found, Held
  <1>5. CASE Enters(t, NoCall)
    BY <1>1, <1>3, <1>5, EndKeeps
  <1>6. CASE \E f \in b.row.left :
                Enters(t, [b EXCEPT !.row.left = @ \ {f}, !.row.copy[f] = document[f]])
    <2>0. PICK f \in b.row.left :
             work' = [work EXCEPT ![t] = [b EXCEPT !.row.left = @ \ {f}, !.row.copy[f] = document[f]]]
      BY <1>6 DEF Enters
    <2>1. PICK c : c = [b EXCEPT !.row.left = @ \ {f}, !.row.copy[f] = document[f]]
      OBVIOUS
    <2>2. /\ Call(c) /\ Row(c.row) /\ c.at = "copy" /\ c.refs = b.refs /\ c.rows = b.rows
          /\ c.row.doc = b.row.doc /\ c.row.left = b.row.left \ {f}
          /\ \A g \in Fields : c.row.copy[g] = IF g = f THEN document[f] ELSE b.row.copy[g]
          /\ c.read = b.read /\ c.seen = b.seen
      BY <1>3, <1>4, <2>1 DEF Shape, Call, Row
    <2>3. \A g \in Fields \ c.row.left : Saw(c, c.row.doc, g, c.row.copy[g])
      BY <1>4, <2>2 DEF Saw
    <2>4. Copied(c) /\ Matched(c, DOMAIN c.refs) /\ (Complete(b, DOMAIN b.refs) => Complete(c, DOMAIN c.refs))
      BY <1>3, <1>4, <2>2 DEF Found, Copied, Matched, Complete, MayMiss, Saw
    <2>5. Found(c)
      BY <1>3, <1>4, <2>2, <2>3, <2>4 DEF Found
    <2> QED BY <1>1, <1>3, <2>0, <2>1, <2>2, <2>5, GoesOn
  <1>7. CASE b.row.left = {}
             /\ Enters(t, [b EXCEPT !.at = "row", !.rows = With(@, b.row.doc, b.row.copy), !.row = NoRow])
    <2>1. PICK rows : rows = With(b.rows, b.row.doc, b.row.copy)
      OBVIOUS
    <2>2. PICK c : c = [b EXCEPT !.at = "row", !.rows = rows, !.row = NoRow]
      OBVIOUS
    <2>3. /\ Call(c) /\ c.at = "row" /\ c.refs = b.refs /\ c.rows = rows
          /\ c.row = NoRow /\ c.read = b.read /\ c.seen = b.seen
      BY <1>4, <2>2 DEF Shape, Call
    <2>4. work' = [work EXCEPT ![t] = c]
      BY <1>4, <1>7, <2>1, <2>2 DEF Shape, Call, Enters
    <2>5. /\ DOMAIN rows = DOMAIN b.rows \union {b.row.doc}
          /\ \A d \in DOMAIN rows : rows[d] = IF d = b.row.doc THEN b.row.copy ELSE b.rows[d]
      BY <2>1 DEF With
    <2>6. Copied(c)
      BY <1>3, <1>4, <1>7, <2>3, <2>5 DEF Found, Copied, Saw
    <2>7. Matched(c, DOMAIN c.refs) /\ (Complete(b, DOMAIN b.refs) => Complete(c, DOMAIN c.refs))
      BY <1>3, <1>4, <2>3 DEF Found, Matched, Complete, MayMiss, Saw
    <2>8. Found(c)
      BY <1>3, <1>4, <2>3, <2>5, <2>6, <2>7 DEF Found
    <2>9. Row(c.row)
      BY <2>3 DEF NoRow, Row
    <2> QED BY <1>1, <1>3, <2>3, <2>4, <2>8, <2>9, GoesOn
  <1> QED BY <1>1, <1>2, <1>5, <1>6, <1>7 DEF Copy

LEMMA AnswerKeeps ==
    ASSUME StoreInv, NEW t \in Thread, AnswerRows(t)
    PROVE  StoreInv'
  <1>1. PICK b : b = work[t]
    OBVIOUS
  <1>2. b.at = "row" /\ DOMAIN b.rows = DOMAIN b.refs /\ UNCHANGED <<store, heap, lock, latest>>
    BY <1>1 DEF AnswerRows
  <1>3. Shape(b) /\ Found(b) /\ b.read \in Reads
    BY <1>1, <1>2, AtRead DEF ReadPlaces
  <1>4. PICK c : c = [b EXCEPT !.at = "answered", !.refs = <<>>, !.row = NoRow]
    OBVIOUS
  <1>5. /\ Call(c) /\ c.at = "answered" /\ c.rows = b.rows /\ c.row = NoRow /\ c.read = b.read
        /\ c.seen = b.seen
    BY <1>3, <1>4 DEF Shape, Call
  <1>6. Found(c)
    BY <1>2, <1>3, <1>5 DEF Found, Copied, Matched, Complete, MayMiss, Saw
  <1>7. work' = [work EXCEPT ![t] = c]
    BY <1>1, <1>4 DEF AnswerRows, Enters
  <1>8. Row(c.row)
    BY <1>5 DEF NoRow, Row
  <1> QED BY <1>1, <1>2, <1>5, <1>6, <1>7, <1>8, GoesOn

LEMMA ReturnKeeps ==
    ASSUME StoreInv, NEW t \in Thread, Return(t)
    PROVE  StoreInv'
  BY EndKeeps DEF Return

-----------------------------------------------------------------------------
(* Writers.                                                                *)

LEMMA WritesAre ==
    ASSUME NEW w \in Writes
    PROVE  /\ w = [op |-> w.op, doc |-> w.doc, data |-> w.data] /\ w.doc \in Docs
           /\ w.data \in Seq({w.data[i] : i \in DOMAIN w.data}) /\ (w.op = "update" => w.data # <<>>)
           /\ Written(w) \subseteq Fields
           /\ \A i, j \in DOMAIN w.data : w.data[i].field = w.data[j].field => i = j
  BY StoreAssumption

LEMMA Unlocks ==
    ASSUME StoreInv, lock = None
    PROVE  /\ \A u \in Thread : work[u].at # "assign"
           /\ \A d \in Docs : store[d] # None => heap[store[d]] = latest[d]
  <1>1. \A u \in Thread : work[u].at # "assign"
    BY Alone DEF StoreInv
  <1> QED BY <1>1 DEF StoreInv, Settled, Assigning

\* A new version is seen by those who read the document.
LEMMA Superseded ==
    ASSUME StoreInv, NEW t \in Thread, NEW call, NEW d, NEW version, Supersedes(t, call, d, version),
           NEW u \in Thread
    PROVE  /\ u = t => work'[u] = call
           /\ u # t => /\ Call(work'[u]) /\ work'[u].at = work[u].at /\ work'[u].write = work[u].write
                       /\ work'[u].read = work[u].read /\ work'[u].refs = work[u].refs
                       /\ work'[u].rows = work[u].rows /\ work'[u].row = work[u].row
                       /\ work[u].seen \subseteq work'[u].seen
                       /\ work[u].read # None /\ d \in work[u].read.docs => <<d, version>> \in work'[u].seen
  <1>1. work'[u] = IF u = t THEN call
                    ELSE IF work[u].read # None /\ d \in work[u].read.docs
                    THEN [work[u] EXCEPT !.seen = @ \union {<<d, version>>}] ELSE work[u]
    BY DEF Supersedes
  <1>2. Shape(work[u])
    BY DEF StoreInv, CallsOK
  <1>3. PICK b : b = work[u]
    OBVIOUS
  <1>4. CASE u # t /\ b.read # None /\ d \in b.read.docs
    <2>1. PICK c : c = [b EXCEPT !.seen = @ \union {<<d, version>>}]
      OBVIOUS
    <2>2. work'[u] = c
      BY <1>1, <1>3, <1>4, <2>1
    <2>3. /\ Call(c) /\ c.at = b.at /\ c.write = b.write /\ c.read = b.read /\ c.refs = b.refs
          /\ c.rows = b.rows /\ c.row = b.row /\ c.seen = b.seen \union {<<d, version>>}
      BY <1>2, <1>3, <2>1 DEF Shape, Call
    <2> QED BY <1>3, <1>4, <2>2, <2>3
  <1>5. CASE u # t /\ ~(b.read # None /\ d \in b.read.docs)
    <2>1. work'[u] = b /\ Call(b)
      BY <1>1, <1>2, <1>3, <1>5 DEF Shape
    <2> QED BY <1>3, <1>5, <2>1
  <1>6. CASE u = t
    BY <1>1, <1>6
  <1> QED BY <1>3, <1>4, <1>5, <1>6

\* A write, or the beginning of an update, which leaves every dictionary that is another's.
LEMMA WriterStep ==
    ASSUME StoreInv, NoneIsNoDocument, lock = None, NEW t \in Thread, NEW call, NEW d \in Docs, NEW version,
           Supersedes(t, call, d, version), Shape(call), call.read = None,
           call.at = "assign" => /\ lock' = t /\ Midway(call)' /\ call.write.doc = d /\ call.before = latest[d],
           HeapOK', StoreOK', Settled',
           \A r \in DOMAIN heap : /\ r \in DOMAIN heap'
                                 /\ \/ heap'[r] = heap[r]
                                    \/ r = store[d] /\ heap'[r] = version /\ version # None,
           \A e \in Docs : store'[e] = store[e] \/ (e = d /\ store'[e] \notin DOMAIN heap)
    PROVE  StoreInv'
  <1>1. work' = [u \in Thread |-> work'[u]]
    BY DEF Supersedes
  <1>9. ASSUME NEW v \in Thread, v # t PROVE work'[v].at = work[v].at
    <2>1. PICK b, c : b = work[v] /\ c = work'[v]
      OBVIOUS
    <2>2. c.at = b.at
      BY <1>9, <2>1, Superseded
    <2> QED BY <2>1, <2>2
  <1>2. ASSUME NEW u \in Thread
        PROVE  /\ Shape(work'[u]) /\ ReaderOK(work[u])'
               /\ work'[u].at = "assign" => lock' = u /\ Midway(work[u])'
    <2>1. CASE u = t
      <3>1. work'[u] = call
        BY <2>1 DEF Supersedes
      <3>2. ReaderOK(call)'
        BY DEF ReaderOK
      <3> QED BY <2>1, <3>1, <3>2
    <2>2. CASE u # t
      <3>1. PICK b, c : b = work[u] /\ c = work'[u]
        OBVIOUS
      <3>2. /\ Call(c) /\ c.at = b.at /\ c.write = b.write /\ c.read = b.read /\ c.refs = b.refs
            /\ c.rows = b.rows /\ c.row = b.row /\ b.seen \subseteq c.seen
            /\ b.read # None /\ d \in b.read.docs => <<d, version>> \in c.seen
        BY <2>2, <3>1, Superseded
      <3>3. Shape(b) /\ ReaderOK(b) /\ b.at # "assign"
        BY <3>1, Unlocks DEF StoreInv, CallsOK
      <3>4. Shape(c) /\ c.at # "assign"
        BY <3>2, <3>3 DEF Shape
      <3>5. ASSUME b.read # None PROVE Noted(c)' /\ Found(c) /\ Held(c)'
        <4>1. Noted(b) /\ Found(b) /\ Held(b) /\ c.seen \subseteq c.seen
          BY <3>3, <3>5 DEF ReaderOK
        <4>2. /\ \A e, f, x : Saw(b, e, f, x) => Saw(c, e, f, x)
              /\ \A ds : (Complete(b, ds) => Complete(c, ds)) /\ (Matched(b, ds) => Matched(c, ds))
          BY <3>2, SeesMore
        <4>3. Found(c)
          <5>1. Copied(b) => Copied(c)
            BY <3>2, <4>2 DEF Copied
          <5> QED BY <3>2, <4>1, <4>2, <5>1 DEF Found
        <4>4. Noted(c)'
          <5>1. latest' = [latest EXCEPT ![d] = version]
            BY DEF Supersedes
          <5>2. \A e \in c.read.docs : <<e, latest'[e]>> \in c.seen
            <6> SUFFICES ASSUME NEW e \in c.read.docs PROVE <<e, latest'[e]>> \in c.seen
              OBVIOUS
            <6>1. e \in Docs /\ <<e, latest[e]>> \in b.seen
              BY <3>2, <3>3, <3>5, <4>1, ReadsAre DEF Noted, Shape
            <6>2. latest'[e] = IF e = d THEN version ELSE latest[e]
              BY <5>1, <6>1 DEF StoreInv, StoreOK
            <6> QED BY <3>2, <3>5, <6>1, <6>2
          <5>3. ASSUME NEW e \in c.read.docs, NEW v \in Thread, Assigning(work'[v], e)
                PROVE  <<e, work'[v].before>> \in c.seen
            <6>1. CASE v # t
              <7>1. work'[v].at = work[v].at
                BY <1>9, <6>1
              <7>2. work[v].at # "assign"
                BY Unlocks
              <7> QED BY <5>3, <7>1, <7>2 DEF Assigning
            <6>2. CASE v = t
              <7>1. work'[v] = call
                BY <6>2 DEF Supersedes
              <7>2. e = d /\ call.before = latest[d]
                BY <5>3, <7>1 DEF Assigning
              <7> QED BY <3>2, <4>1, <7>1, <7>2 DEF Noted
            <6> QED BY <6>1, <6>2
          <5> QED BY <5>2, <5>3 DEF Noted
        <4>5. Held(c)'
          <5> SUFFICES ASSUME c.at \in {"match", "row", "copy"}, NEW e \in DOMAIN c.refs
                       PROVE  /\ e \in c.read.docs /\ c.refs[e] \in DOMAIN heap'
                              /\ \A g \in Docs : store'[g] = c.refs[e] => g = e
                              /\ \A f \in Fields : Saw(c, e, f, heap'[c.refs[e]][f])
            BY DEF Held
          <5>1. PICK r : r = c.refs[e]
            OBVIOUS
          <5>2. /\ e \in b.read.docs /\ r \in DOMAIN heap /\ \A g \in Docs : store[g] = r => g = e
                /\ \A f \in Fields : Saw(b, e, f, heap[r][f])
            BY <3>2, <4>1, <5>1 DEF Held
          <5>3. \A g \in Docs : store'[g] = r => g = e
            BY <5>2
          <5>4. \A f \in Fields : Saw(c, e, f, heap'[r][f])
            <6>1. CASE heap'[r] = heap[r]
              BY <4>2, <5>2, <6>1
            <6>2. CASE r = store[d] /\ heap'[r] = version /\ version # None
              <7>1. e = d /\ <<d, version>> \in c.seen
                BY <3>2, <3>5, <5>2, <6>2
              <7>2. <<d, version>>[1] = d /\ <<d, version>>[2] = version
                OBVIOUS
              <7> QED BY <6>2, <7>1, <7>2 DEF Saw
            <6> QED BY <5>2, <6>1, <6>2
          <5> QED BY <3>2, <5>1, <5>2, <5>3, <5>4
        <4> QED BY <4>3, <4>4, <4>5
      <3>6. ReaderOK(c)'
        BY <3>2, <3>5 DEF ReaderOK
      <3> QED BY <3>1, <3>4, <3>6
    <2> QED BY <2>1, <2>2
  <1> QED BY <1>1, <1>2 DEF StoreInv, CallsOK

LEMMA Applications ==
    ASSUME NEW document, NEW prior, NEW w
    PROVE  Document(Applied(document, prior, w)) /\ Document(Resolved(w))
  BY DEF Document, Applied, Resolved

LEMMA SetKeeps ==
    ASSUME StoreInv, NoneIsNoDocument, NEW t \in Thread, Set(t)
    PROVE  StoreInv'
  <1>1. PICK w, ref, fresh : w = work[t].write /\ ref = store[w.doc] /\ fresh = Cardinality(DOMAIN heap)
    OBVIOUS
  <1>2. PICK d : d = w.doc
    OBVIOUS
  <1>3. work[t].at = "write" /\ lock = None /\ w \in Writes /\ d \in Docs
    BY <1>1, <1>2, WritesAre DEF Set, StoreInv, CallsOK, Shape
  <1>4. PICK version : /\ Document(version) /\ Supersedes(t, NoCall, d, version)
                       /\ \/ ref # None /\ heap' = [heap EXCEPT ![ref] = version] /\ store' = store
                          \/ heap' = With(heap, fresh, version) /\ store' = [store EXCEPT ![d] = fresh]
    BY <1>1, <1>2, Applications DEF Set
  <1>5. version # None /\ latest' = [latest EXCEPT ![d] = version]
    BY <1>4 DEF Document, NoneIsNoDocument, Supersedes
  <1>6. /\ latest'[d] = version /\ (\A e \in Docs \ {d} : latest'[e] = latest[e])
        /\ latest' = [e \in Docs |-> latest'[e]]
    BY <1>3, <1>5 DEF StoreInv, StoreOK
  <1>7. \A e \in Docs : store[e] # None => heap[store[e]] = latest[e]
    BY <1>3, Unlocks
  <1>8. CASE ref # None /\ heap' = [heap EXCEPT ![ref] = version] /\ store' = store
    <2>1. ref \in DOMAIN heap /\ ref = store[d]
      BY <1>1, <1>2, <1>3, <1>8 DEF StoreInv, StoreOK
    <2>2. DOMAIN heap' = DOMAIN heap /\ heap'[ref] = version /\ \A r \in DOMAIN heap \ {ref} : heap'[r] = heap[r]
      BY <1>8, <2>1 DEF StoreInv, HeapOK
    <2>3. HeapOK'
      BY <1>4, <1>8, <2>2 DEF StoreInv, HeapOK
    <2>4. StoreOK'
      BY <1>4, <1>6, <1>8, <2>1, <2>2 DEF StoreInv, StoreOK
    <2>5. \A e \in Docs : store[e] # None => heap'[store[e]] = latest'[e]
      BY <1>3, <1>6, <1>7, <2>1, <2>2 DEF StoreInv, StoreOK
    <2>6. Settled'
      BY <1>8, <2>5 DEF Settled
    <2>7. \A r \in DOMAIN heap : /\ r \in DOMAIN heap'
                                 /\ \/ heap'[r] = heap[r]
                                    \/ r = store[d] /\ heap'[r] = version /\ version # None
      BY <1>5, <2>1, <2>2
    <2> QED BY <1>3, <1>4, <1>8, <2>3, <2>4, <2>6, <2>7, NoCallIs, WriterStep
  <1>9. CASE heap' = With(heap, fresh, version) /\ store' = [store EXCEPT ![d] = fresh]
    <2>1. fresh \in Nat /\ fresh \notin DOMAIN heap /\ fresh # None
      BY <1>1, FS_CardinalityType, StoreAssumption DEF StoreInv, HeapOK
    <2>2. /\ DOMAIN heap' = DOMAIN heap \union {fresh} /\ heap'[fresh] = version
          /\ \A r \in DOMAIN heap : heap'[r] = heap[r]
      BY <1>9, <2>1 DEF With
    <2>3. store'[d] = fresh /\ \A e \in Docs \ {d} : store'[e] = store[e]
      BY <1>3, <1>9 DEF StoreInv, StoreOK
    <2>4. HeapOK'
      <3>1. heap' = [r \in DOMAIN heap' |-> heap'[r]]
        BY <1>9 DEF With
      <3>2. IsFiniteSet(DOMAIN heap') /\ Cardinality(DOMAIN heap') = fresh + 1
        BY <1>1, <2>1, <2>2, FS_AddElement DEF StoreInv, HeapOK
      <3>3. \A r \in DOMAIN heap' : Document(heap'[r])
        BY <1>4, <2>2 DEF StoreInv, HeapOK
      <3>4. \A n \in DOMAIN heap' \intersect Nat : n < fresh + 1
        BY <1>1, <2>1, <2>2 DEF StoreInv, HeapOK
      <3>5. DOMAIN heap' \subseteq Docs \union Nat
        BY <2>1, <2>2 DEF StoreInv, HeapOK
      <3> QED BY <3>1, <3>2, <3>3, <3>4, <3>5 DEF HeapOK
    <2>5. StoreOK'
      <3>1. store' = [e \in Docs |-> store'[e]]
        BY <1>9 DEF StoreInv, StoreOK
      <3> QED BY <1>4, <1>6, <2>1, <2>2, <2>3, <3>1 DEF StoreInv, StoreOK
    <2>6. \A e \in Docs : store'[e] # None => heap'[store'[e]] = latest'[e]
      BY <1>3, <1>6, <1>7, <2>1, <2>2, <2>3 DEF StoreInv, StoreOK
    <2>7. Settled'
      BY <2>6 DEF Settled
    <2>8. /\ \A r \in DOMAIN heap : r \in DOMAIN heap' /\ heap'[r] = heap[r]
          /\ \A e \in Docs : store'[e] = store[e] \/ (e = d /\ store'[e] \notin DOMAIN heap)
      BY <2>1, <2>2, <2>3
    <2> QED BY <1>3, <1>4, <2>4, <2>5, <2>7, <2>8, NoCallIs, WriterStep
  <1> QED BY <1>4, <1>8, <1>9

LEMMA DeleteKeeps ==
    ASSUME StoreInv, NoneIsNoDocument, NEW t \in Thread, DeleteDoc(t)
    PROVE  StoreInv'
  <1>1. PICK d : d = work[t].write.doc
    OBVIOUS
  <1>2. /\ work[t].at = "write" /\ lock = None /\ d \in Docs /\ heap' = heap
        /\ store' = [store EXCEPT ![d] = None] /\ Supersedes(t, NoCall, d, None)
    BY <1>1, WritesAre DEF DeleteDoc, StoreInv, CallsOK, Shape
  <1>3. /\ latest'[d] = None /\ (\A e \in Docs \ {d} : latest'[e] = latest[e])
        /\ latest' = [e \in Docs |-> latest'[e]]
    BY <1>2 DEF StoreInv, StoreOK, Supersedes
  <1>4. /\ store'[d] = None /\ (\A e \in Docs \ {d} : store'[e] = store[e])
        /\ store' = [e \in Docs |-> store'[e]]
    BY <1>2 DEF StoreInv, StoreOK
  <1>5. HeapOK' /\ StoreOK'
    BY <1>2, <1>3, <1>4 DEF StoreInv, HeapOK, StoreOK
  <1>6. \A e \in Docs : store'[e] # None => heap'[store'[e]] = latest'[e]
    BY <1>2, <1>3, <1>4, Unlocks
  <1>7. Settled'
    BY <1>6 DEF Settled
  <1>8. None \notin DOMAIN heap
    BY StoreAssumption DEF StoreInv, HeapOK
  <1>9. /\ \A r \in DOMAIN heap : r \in DOMAIN heap' /\ heap'[r] = heap[r]
        /\ \A e \in Docs : store'[e] = store[e] \/ (e = d /\ store'[e] \notin DOMAIN heap)
    BY <1>2, <1>4, <1>8
  <1> QED BY <1>2, <1>5, <1>7, <1>9, NoCallIs, WriterStep

LEMMA AppliedIs ==
    ASSUME NEW w \in Writes, NEW document, NEW prior
    PROVE  /\ \A f \in Fields \ Written(w) : Applied(document, prior, w)[f] = document[f]
           /\ \A i \in DOMAIN w.data : Applied(document, prior, w)[w.data[i].field]
                                        = ChangedValue(prior[w.data[i].field], w.data[i])
  <1>1. \A f \in Fields \ Written(w) : Applied(document, prior, w)[f] = document[f]
    BY DEF Applied
  <1>2. ASSUME NEW i \in DOMAIN w.data
        PROVE  Applied(document, prior, w)[w.data[i].field] = ChangedValue(prior[w.data[i].field], w.data[i])
    <2>1. PICK f : f = w.data[i].field
      OBVIOUS
    <2>2. f \in Written(w) /\ f \in Fields
      BY <2>1, WritesAre DEF Written
    <2>3. PICK c : c = CHOOSE x \in {w.data[j] : j \in DOMAIN w.data} : x.field = f
      OBVIOUS
    <2>4. c \in {w.data[j] : j \in DOMAIN w.data} /\ c.field = f
      BY <2>1, <2>3
    <2>5. c = w.data[i]
      BY <2>1, <2>4, WritesAre
    <2>6. Applied(document, prior, w)[f] = ChangedValue(prior[f], c)
      BY <2>2, <2>3 DEF Applied
    <2> QED BY <2>1, <2>5, <2>6
  <1> QED BY <1>1, <1>2

\* An update begins: what it will write is the document's from now on.
LEMMA UpdateKeeps ==
    ASSUME StoreInv, NoneIsNoDocument, NEW t \in Thread, UpdateDoc(t)
    PROVE  StoreInv'
  <1>1. PICK b, w, d : b = work[t] /\ w = b.write /\ d = w.doc
    OBVIOUS
  <1>2. /\ b.at = "write" /\ lock = None /\ w \in Writes /\ w.op = "update" /\ d \in Docs
        /\ heap' = heap /\ store' = store /\ Shape(b)
    BY <1>1, WritesAre DEF UpdateDoc, StoreInv, CallsOK, Shape
  <1>3. CASE store[d] = None
    <2>1. Enters(t, NoCall) /\ UNCHANGED <<store, heap, lock, latest>> /\ work[t].at # "assign"
      BY <1>1, <1>2, <1>3 DEF UpdateDoc
    <2> QED BY <2>1, EndKeeps
  <1>4. CASE store[d] # None
    <2>1. PICK version : version = Applied(latest[d], latest[d], w)
      OBVIOUS
    <2>2. PICK c : c = [b EXCEPT !.at = "assign", !.before = latest[d], !.refs = <<store[d]>>]
      OBVIOUS
    <2>3. lock' = t /\ Supersedes(t, c, d, version)
      BY <1>1, <1>2, <1>4, <2>1, <2>2 DEF UpdateDoc, Locked
    <2>4. /\ Call(c) /\ c.at = "assign" /\ c.before = latest[d] /\ c.refs = <<store[d]>> /\ c.write = w
          /\ c.row = b.row /\ c.read = b.read /\ c.read = None
      BY <1>1, <1>2, <2>2 DEF Shape, Call, ReadPlaces
    <2>5. Shape(c)
      BY <1>2, <2>4 DEF Shape, Places, ReadPlaces
    <2>6. /\ latest'[d] = version /\ (\A e \in Docs \ {d} : latest'[e] = latest[e])
          /\ latest' = [e \in Docs |-> latest'[e]]
      BY <1>2, <2>3 DEF StoreInv, StoreOK, Supersedes
    <2>7. HeapOK' /\ StoreOK'
      <3>1. Document(version)
        BY <2>1, Applications
      <3> QED BY <1>2, <1>4, <2>6, <3>1 DEF StoreInv, HeapOK, StoreOK
    <2>8. \A e \in Docs : store[e] # None => heap[store[e]] = latest[e]
      BY <1>2, Unlocks
    <2>9. Settled'
      <3>1. work'[t] = c
        BY <2>3 DEF Supersedes
      <3>2. Assigning(work'[t], d)
        BY <1>1, <2>4, <3>1 DEF Assigning
      <3> QED BY <1>2, <2>6, <2>8, <3>2 DEF Settled
    <2>10. Midway(c)'
      <3>1. /\ w = [op |-> w.op, doc |-> d, data |-> w.data] /\ w.data \in Seq({w.data[i] : i \in DOMAIN w.data})
            /\ w.data # <<>> /\ Written(w) \subseteq Fields
            /\ \A i, j \in DOMAIN w.data : w.data[i].field = w.data[j].field => i = j
        BY <1>1, <1>2, WritesAre
      <3>2. Due(c) = Written(w)
        BY <2>4 DEF Due, Written
      <3>3. heap[store[d]] = latest[d] /\ Document(latest[d])
        BY <1>2, <1>4, <2>8 DEF StoreInv, StoreOK
      <3>4. \A f \in Fields \ Due(c) : heap'[store'[d]][f] = latest'[d][f]
        BY <1>2, <2>1, <2>6, <3>2, <3>3, AppliedIs
      <3>5. ASSUME NEW i \in DOMAIN w.data
            PROVE  /\ heap'[store'[d]][w.data[i].field] = c.before[w.data[i].field]
                   /\ latest'[d][w.data[i].field] = ChangedValue(c.before[w.data[i].field], w.data[i])
        <4>1. PICK change : change = w.data[i]
          OBVIOUS
        <4>2. version[change.field] = ChangedValue(latest[d][change.field], change)
          BY <1>2, <2>1, <4>1, AppliedIs
        <4>3. heap'[store'[d]] = latest[d] /\ latest'[d] = version /\ c.before = latest[d]
          BY <1>2, <2>4, <2>6, <3>3
        <4> QED BY <4>1, <4>2, <4>3
      <3>6. c.write = w /\ c.write.doc = d /\ store'[d] = store[d] /\ Document(c.before)
        BY <1>1, <1>2, <2>4, <3>3
      <3>7. c.write = [op |-> c.write.op, doc |-> d, data |-> c.write.data]
        BY <2>4, <3>1
      <3>8. /\ d \in Docs /\ store'[d] # None /\ c.refs = <<store'[d]>>
            /\ c.write.data \in Seq({c.write.data[i] : i \in DOMAIN c.write.data}) /\ c.write.data # <<>>
            /\ Due(c) \subseteq Fields
            /\ \A i, j \in DOMAIN c.write.data : c.write.data[i].field = c.write.data[j].field => i = j
        BY <1>2, <1>4, <2>4, <3>1, <3>2, <3>6
      <3>9. \A i \in DOMAIN c.write.data :
               /\ heap'[store'[d]][c.write.data[i].field] = c.before[c.write.data[i].field]
               /\ latest'[d][c.write.data[i].field] = ChangedValue(c.before[c.write.data[i].field], c.write.data[i])
        BY <2>4, <3>5
      <3> QED BY <3>4, <3>6, <3>7, <3>8, <3>9 DEF Midway
    <2>11. /\ \A r \in DOMAIN heap : r \in DOMAIN heap' /\ heap'[r] = heap[r]
           /\ \A e \in Docs : store'[e] = store[e]
      BY <1>2
    <2>12. c.write.doc = d
      BY <1>1, <2>4
    <2> QED BY <1>2, <2>3, <2>4, <2>5, <2>7, <2>9, <2>10, <2>11, <2>12, WriterStep
  <1> QED BY <1>3, <1>4

\* One field more is as it will be.
LEMMA AssignKeeps ==
    ASSUME StoreInv, NoneIsNoDocument, NEW t \in Thread, Assign(t)
    PROVE  StoreInv'
  <1>1. PICK b : b = work[t]
    OBVIOUS
  <1>2. PICK d, data : d = b.write.doc /\ data = b.write.data
    OBVIOUS
  <1>3. PICK ref, change, g : ref = store[d] /\ change = data[1] /\ g = change.field
    OBVIOUS
  <1>4. /\ b.at = "assign" /\ Shape(b) /\ b.read = None /\ Midway(b) /\ lock = t
        /\ \A u \in Thread : work[u].at = "assign" => u = t
    BY <1>1, Alone DEF Assign, StoreInv, CallsOK, Shape, ReadPlaces
  <1>5. /\ d \in Docs /\ ref # None /\ ref \in DOMAIN heap /\ b.refs[1] = ref
        /\ data \in Seq({data[i] : i \in DOMAIN data}) /\ data # <<>> /\ Document(heap[ref]) /\ Document(latest[d])
        /\ latest[d] # None /\ \A e \in Docs \ {d} : store[e] # ref
    <2>1. /\ d \in Docs /\ ref # None /\ b.refs[1] = ref
          /\ data \in Seq({data[i] : i \in DOMAIN data}) /\ data # <<>>
      BY <1>2, <1>3, <1>4 DEF Midway
    <2>2. ref \in DOMAIN heap /\ Document(latest[d]) /\ \A e \in Docs \ {d} : store[e] # ref
      BY <1>3, <2>1 DEF StoreInv, StoreOK
    <2>3. Document(heap[ref])
      BY <2>2 DEF StoreInv, HeapOK
    <2>4. latest[d] # None
      BY <2>2 DEF Document, NoneIsNoDocument
    <2> QED BY <2>1, <2>2, <2>3, <2>4
  <1>6. /\ Len(data) \in Nat \ {0} /\ DOMAIN data = 1 .. Len(data) /\ Head(data) = change /\ 1 \in DOMAIN data
    BY <1>3, <1>5
  <1>7. /\ g \in Fields /\ heap[ref][g] = b.before[g] /\ latest[d][g] = ChangedValue(b.before[g], change)
        /\ \A i \in DOMAIN data : data[i].field = g => i = 1
    BY <1>2, <1>3, <1>4, <1>6 DEF Midway, Due
  <1>8. PICK c, holder : /\ c = IF Len(data) = 1 THEN NoCall ELSE [b EXCEPT !.write.data = Tail(@)]
                         /\ holder = IF Len(data) = 1 THEN None ELSE t
    OBVIOUS
  <1>9. /\ heap' = [heap EXCEPT ![ref][g] = ChangedValue(@, change)] /\ lock' = holder
        /\ work' = [work EXCEPT ![t] = c] /\ UNCHANGED <<store, latest>>
    BY <1>1, <1>2, <1>3, <1>5, <1>6, <1>8 DEF Assign, Enters, Locked
  <1>10. PICK document : document = [heap[ref] EXCEPT ![g] = ChangedValue(@, change)]
    OBVIOUS
  <1>11. /\ Document(document) /\ document[g] = latest[d][g]
         /\ \A f \in Fields \ {g} : document[f] = heap[ref][f]
    BY <1>5, <1>7, <1>10 DEF Document
  <1>12. /\ heap' = [heap EXCEPT ![ref] = document]
    BY <1>9, <1>10
  <1>13. /\ DOMAIN heap' = DOMAIN heap /\ heap'[ref] = document
         /\ \A r \in DOMAIN heap \ {ref} : heap'[r] = heap[r]
    BY <1>5, <1>12 DEF StoreInv, HeapOK
  <1>14. HeapOK' /\ StoreOK'
    BY <1>9, <1>11, <1>12, <1>13 DEF StoreInv, HeapOK, StoreOK
  <1>15. work'[t] = c /\ (\A u \in Thread \ {t} : work'[u] = work[u]) /\ work' = [u \in Thread |-> work'[u]]
    BY <1>9 DEF StoreInv, CallsOK
  <1>16. ASSUME Len(data) = 1
         PROVE  document = latest[d] /\ c = NoCall /\ holder = None
    <2>1. \A f \in Fields : document[f] = latest[d][f]
      <3>1. \A f \in Fields \ {g} : f \notin Due(b)
        BY <1>2, <1>3, <1>6, <1>16 DEF Due
      <3> QED BY <1>2, <1>3, <1>4, <1>11, <3>1 DEF Midway
    <2>2. document = latest[d]
      BY <1>5, <1>11, <2>1 DEF Document
    <2> QED BY <1>8, <1>16, <2>2
  <1>17. ASSUME Len(data) # 1
         PROVE  /\ Shape(c) /\ c.read = None /\ c.at = "assign" /\ c.write.doc = d /\ c.before = b.before
                /\ holder = t /\ Midway(c)'
    <2>1. c = [b EXCEPT !.write.data = Tail(@)] /\ holder = t
      BY <1>8, <1>17
    <2>2. b.write = [op |-> b.write.op, doc |-> d, data |-> data]
      BY <1>2, <1>4 DEF Midway
    <2>3. Call(b)
      BY <1>4 DEF Shape
    <2>4. /\ Call(c) /\ c.at = "assign" /\ c.before = b.before /\ c.refs = b.refs /\ c.row = b.row
          /\ c.read = None /\ c.write = [b.write EXCEPT !.data = Tail(@)]
      BY <1>4, <2>1, <2>3 DEF Call
    <2>5. /\ c.write = [op |-> c.write.op, doc |-> d, data |-> c.write.data]
          /\ c.write.doc = d /\ c.write.data = Tail(data)
      <3>1. PICK w, v : w = b.write /\ v = c.write
        OBVIOUS
      <3>2. w = [op |-> w.op, doc |-> d, data |-> data] /\ v = [w EXCEPT !.data = Tail(@)]
        BY <2>2, <2>4, <3>1
      <3>3. w.doc = d /\ w.data = data
        BY <3>2
      <3>4. v = [op |-> v.op, doc |-> v.doc, data |-> v.data] /\ v.doc = d /\ v.data = Tail(data)
        BY <3>2, <3>3
      <3> QED BY <3>1, <3>4
    <2>6. Row(c.row)
      <3>1. Row(b.row)
        BY <1>4 DEF Shape
      <3> QED BY <2>4, <3>1
    <2>7. Shape(c)
      BY <2>4, <2>6 DEF Shape, Places, ReadPlaces
    <2>8. PICK rest : rest = Tail(data)
      OBVIOUS
    <2>9. /\ Len(rest) = Len(data) - 1 /\ DOMAIN rest = 1 .. Len(data) - 1 /\ Len(data) >= 2
          /\ \A i \in DOMAIN rest : i + 1 \in DOMAIN data /\ rest[i] = data[i + 1] /\ i + 1 # 1
          /\ rest \in Seq({rest[i] : i \in DOMAIN rest}) /\ rest # <<>>
      <3>1. /\ rest \in Seq({data[i] : i \in DOMAIN data}) /\ Len(rest) = Len(data) - 1
            /\ \A i \in 1 .. Len(rest) : rest[i] = data[i + 1]
        BY <1>5, <2>8
      <3>2. DOMAIN rest = 1 .. Len(rest) /\ Len(data) >= 2
        BY <1>6, <1>17, <3>1
      <3>3. rest \in Seq({rest[i] : i \in DOMAIN rest})
        BY <3>1
      <3>4. rest # <<>>
        BY <1>6, <1>17, <3>1
      <3> QED BY <1>6, <3>1, <3>2, <3>3, <3>4
    <2>10. \A i \in DOMAIN rest : rest[i].field \in Fields \ {g} /\ rest[i].field \in Due(b)
      BY <1>2, <1>4, <1>7, <2>9 DEF Midway, Due
    <2>11. \A f \in Fields \ {g} : f \in Due(b) => \E i \in DOMAIN rest : rest[i].field = f
      <3> SUFFICES ASSUME NEW f \in Fields \ {g}, f \in Due(b)
                   PROVE  \E i \in DOMAIN rest : rest[i].field = f
        OBVIOUS
      <3>1. PICK j \in DOMAIN data : data[j].field = f
        BY <1>2 DEF Due
      <3>2. j # 1
        BY <1>3, <3>1
      <3>3. PICK i : i = j - 1
        OBVIOUS
      <3>4. i \in DOMAIN rest /\ i + 1 = j
        <4>1. PICK n : n = Len(data)
          OBVIOUS
        <4>2. n \in Nat /\ j \in 1 .. n
          BY <1>6, <4>1, <3>1
        <4>3. i \in 1 .. n - 1 /\ i + 1 = j
          BY <3>2, <3>3, <4>2
        <4> QED BY <2>9, <4>1, <4>3
      <3>5. rest[i] = data[j]
        BY <2>9, <3>4
      <3> QED BY <3>1, <3>4, <3>5
    <2>12. \A f \in Fields \ Due(c) : document[f] = latest[d][f]
      <3> SUFFICES ASSUME NEW f \in Fields, f \notin Due(c), f # g
                   PROVE  document[f] = latest[d][f]
        BY <1>11
      <3>1. f \notin Due(b)
        BY <2>5, <2>8, <2>11 DEF Due
      <3> QED BY <1>2, <1>3, <1>4, <1>11, <3>1 DEF Midway
    <2>13. ASSUME NEW i \in DOMAIN rest
           PROVE  /\ document[rest[i].field] = c.before[rest[i].field]
                  /\ latest[d][rest[i].field] = ChangedValue(c.before[rest[i].field], rest[i])
      <3>1. PICK j : j = i + 1
        OBVIOUS
      <3>2. j \in DOMAIN data /\ rest[i] = data[j] /\ data[j].field \in Fields \ {g}
        BY <2>9, <2>10, <3>1
      <3>3. /\ heap[ref][data[j].field] = b.before[data[j].field]
            /\ latest[d][data[j].field] = ChangedValue(b.before[data[j].field], data[j])
        BY <1>2, <1>3, <1>4, <3>2 DEF Midway
      <3> QED BY <1>11, <2>4, <3>2, <3>3
    <2>14. \A i, j \in DOMAIN rest : rest[i].field = rest[j].field => i = j
      <3> SUFFICES ASSUME NEW i \in DOMAIN rest, NEW j \in DOMAIN rest, rest[i].field = rest[j].field
                   PROVE  i = j
        OBVIOUS
      <3>1. PICK k, l : k = i + 1 /\ l = j + 1
        OBVIOUS
      <3>2. k \in DOMAIN data /\ l \in DOMAIN data /\ data[k].field = data[l].field
        BY <2>9, <3>1
      <3>3. k = l
        BY <1>2, <1>4, <3>2 DEF Midway
      <3> QED BY <2>9, <3>1, <3>3
    <2>15. /\ d \in Docs /\ store'[d] # None /\ c.refs = <<store'[d]>> /\ Document(c.before)
           /\ store'[d] = ref /\ heap'[ref] = document /\ latest' = latest
      BY <1>2, <1>3, <1>4, <1>9, <1>13, <2>4 DEF Midway
    <2>16. Due(c) \subseteq Fields
      BY <2>5, <2>8, <2>10 DEF Due
    <2>17. c.write.data = rest
      BY <2>5, <2>8
    <2>18. Midway(c)'
      <3>1. /\ c.write.data \in Seq({c.write.data[i] : i \in DOMAIN c.write.data}) /\ c.write.data # <<>>
            /\ \A i, j \in DOMAIN c.write.data : c.write.data[i].field = c.write.data[j].field => i = j
        BY <2>9, <2>14, <2>17
      <3>2. \A i \in DOMAIN c.write.data :
               /\ heap'[store'[d]][c.write.data[i].field] = c.before[c.write.data[i].field]
               /\ latest'[d][c.write.data[i].field] = ChangedValue(c.before[c.write.data[i].field], c.write.data[i])
        BY <2>13, <2>15, <2>17
      <3>3. \A f \in Fields \ Due(c) : heap'[store'[d]][f] = latest'[d][f]
        BY <2>12, <2>15
      <3> QED BY <2>5, <2>15, <2>16, <3>1, <3>2, <3>3 DEF Midway
    <2> QED BY <2>1, <2>4, <2>5, <2>7, <2>18
  <1>18. Settled'
    <2> SUFFICES ASSUME NEW e \in Docs, store'[e] # None, \A u \in Thread : ~Assigning(work'[u], e)
                 PROVE  heap'[store'[e]] = latest'[e]
      BY DEF Settled
    <2>1. CASE e = d
      <3>1. Len(data) = 1
        BY <1>15, <1>17, <2>1 DEF Assigning
      <3> QED BY <1>3, <1>9, <1>13, <1>16, <2>1, <3>1
    <2>2. CASE e # d
      <3>1. \A u \in Thread : ~Assigning(work[u], e)
        BY <1>1, <1>2, <1>4, <2>2 DEF Assigning
      <3>2. heap[store[e]] = latest[e] /\ store[e] \in DOMAIN heap \ {ref}
        BY <1>5, <1>9, <2>2, <3>1 DEF StoreInv, Settled, StoreOK
      <3> QED BY <1>9, <1>13, <3>2
    <2> QED BY <2>1, <2>2
  <1>19. \A u \in Thread : \A e : Assigning(work'[u], e) => Assigning(work[u], e) /\ work'[u].before = work[u].before
    <2> SUFFICES ASSUME NEW u \in Thread, NEW e, Assigning(work'[u], e)
                 PROVE  Assigning(work[u], e) /\ work'[u].before = work[u].before
      OBVIOUS
    <2>1. CASE u # t
      <3>1. work'[u] = work[u]
        BY <1>15, <2>1
      <3>2. PICK x : x = work[u]
        OBVIOUS
      <3>3. Assigning(x, e)
        BY <3>1, <3>2
      <3> QED BY <3>1, <3>2, <3>3
    <2>2. CASE u = t
      <3>1. Assigning(c, e)
        BY <1>15, <2>2
      <3>2. Len(data) # 1
        BY <1>16, <3>1, NoCallIs DEF Assigning
      <3>3. e = d /\ Assigning(b, e) /\ c.before = b.before
        BY <1>2, <1>4, <1>17, <3>1, <3>2 DEF Assigning
      <3> QED BY <1>1, <1>15, <2>2, <3>3
    <2> QED BY <2>1, <2>2
  <1>20. ASSUME NEW x, Shape(x), ReaderOK(x) PROVE ReaderOK(x)'
    <2> SUFFICES ASSUME x.read # None PROVE Noted(x)' /\ Found(x) /\ Held(x)'
      BY DEF ReaderOK
    <2>1. Noted(x) /\ Found(x) /\ Held(x)
      BY <1>20 DEF ReaderOK
    <2>2. Noted(x)'
      BY <1>9, <1>19, <2>1 DEF Noted
    <2>3. Held(x)'
      <3> SUFFICES ASSUME x.at \in {"match", "row", "copy"}, NEW e \in DOMAIN x.refs
                   PROVE  /\ e \in x.read.docs /\ x.refs[e] \in DOMAIN heap'
                          /\ \A h \in Docs : store'[h] = x.refs[e] => h = e
                          /\ \A f \in Fields : Saw(x, e, f, heap'[x.refs[e]][f])
        BY DEF Held
      <3>1. PICK r : r = x.refs[e]
        OBVIOUS
      <3>2. /\ e \in x.read.docs /\ r \in DOMAIN heap /\ \A h \in Docs : store[h] = r => h = e
            /\ \A f \in Fields : Saw(x, e, f, heap[r][f])
        BY <2>1, <3>1 DEF Held
      <3>3. \A f \in Fields : Saw(x, e, f, heap'[r][f])
        <4>1. CASE r # ref
          BY <1>13, <3>2, <4>1
        <4>2. CASE r = ref
          <5>1. e = d /\ <<d, latest[d]>> \in x.seen
            BY <1>3, <1>5, <2>1, <3>2, <4>2 DEF Noted
          <5>2. <<d, latest[d]>>[1] = d /\ <<d, latest[d]>>[2] = latest[d]
            OBVIOUS
          <5>3. Saw(x, e, g, document[g])
            BY <1>5, <1>11, <5>1, <5>2 DEF Saw
          <5>4. \A f \in Fields \ {g} : Saw(x, e, f, document[f])
            BY <1>11, <3>2, <4>2
          <5> QED BY <1>13, <4>2, <5>3, <5>4
        <4> QED BY <4>1, <4>2
      <3> QED BY <1>9, <1>13, <3>1, <3>2, <3>3
    <2> QED BY <2>1, <2>2, <2>3
  <1>21. ASSUME NEW u \in Thread
         PROVE  /\ Shape(work'[u]) /\ ReaderOK(work[u])'
                /\ work'[u].at = "assign" => lock' = u /\ Midway(work[u])'
    <2>1. CASE u # t
      <3>1. PICK x : x = work[u]
        OBVIOUS
      <3>2. Shape(x) /\ ReaderOK(x) /\ work'[u] = x /\ x.at # "assign"
        BY <1>4, <1>15, <2>1, <3>1 DEF StoreInv, CallsOK
      <3>3. ReaderOK(x)'
        BY <1>20, <3>2
      <3> QED BY <3>2, <3>3
    <2>2. CASE u = t /\ Len(data) = 1
      <3>1. work'[u] = NoCall
        BY <1>15, <1>16, <2>2
      <3>2. ReaderOK(NoCall)'
        BY NoCallIs DEF ReaderOK
      <3> QED BY <3>1, <3>2, NoCallIs
    <2>3. CASE u = t /\ Len(data) # 1
      <3>1. /\ work'[u] = c /\ lock' = u /\ Shape(c) /\ c.read = None
        BY <1>9, <1>15, <1>17, <2>3
      <3>2. ReaderOK(c)'
        BY <3>1 DEF ReaderOK
      <3>3. Midway(c)'
        BY <1>17, <2>3
      <3> QED BY <3>1, <3>2, <3>3
    <2> QED BY <2>1, <2>2, <2>3
  <1> QED BY <1>14, <1>15, <1>18, <1>21 DEF StoreInv, CallsOK

-----------------------------------------------------------------------------

LEMMA StoreInitially == ASSUME StoreInit, NoneIsNoDocument PROVE StoreInv
  <1>1. PICK there : there = {d \in Docs : Stored[d] # None}
    OBVIOUS
  <1>2. /\ heap = [d \in there |-> Stored[d]] /\ latest = Stored
        /\ store = [d \in Docs |-> IF Stored[d] = None THEN None ELSE d]
        /\ work = [t \in Thread |-> NoCall] /\ lock = None
    BY <1>1 DEF StoreInit
  <1>3. there \subseteq Docs /\ IsFiniteSet(there) /\ there \intersect Nat = {} /\ DOMAIN heap = there
    BY <1>1, <1>2, StoreAssumption, FS_Subset
  <1>4. \A d \in there : heap[d] = Stored[d] /\ Document(Stored[d])
    BY <1>1, <1>2, <1>3, StoreAssumption DEF Document
  <1>5. HeapOK
    BY <1>2, <1>3, <1>4 DEF HeapOK
  <1>6. \A d \in Docs : /\ store[d] = None <=> Stored[d] = None
                        /\ store[d] # None => store[d] = d /\ d \in there
    BY <1>1, <1>2, StoreAssumption
  <1>7. StoreOK
    BY <1>2, <1>3, <1>4, <1>6, StoreAssumption DEF StoreOK
  <1>8. Settled
    BY <1>2, <1>4, <1>6 DEF Settled
  <1>9. CallsOK
    BY <1>2, NoCallIs DEF CallsOK
  <1> QED BY <1>5, <1>7, <1>8, <1>9 DEF StoreInv

LEMMA StoreStep == ASSUME StoreInv, NoneIsNoDocument, [StoreNext]_<<load, storeVars>> PROVE StoreInv'
  <1>1. CASE UNCHANGED <<load, storeVars>>
    <2>1. UNCHANGED <<store, heap, lock, latest, work>>
      BY <1>1 DEF storeVars
    <2>2. HeapOK' /\ StoreOK' /\ Settled'
      BY <2>1 DEF StoreInv, HeapOK, StoreOK, Settled
    <2>3. ASSUME NEW u \in Thread
          PROVE  /\ Shape(work'[u]) /\ ReaderOK(work[u])'
                 /\ work'[u].at = "assign" => lock' = u /\ Midway(work[u])'
      <3>1. PICK b : b = work[u]
        OBVIOUS
      <3>2. Shape(b) /\ ReaderOK(b) /\ (b.at = "assign" => lock = u /\ Midway(b)) /\ work'[u] = b
        BY <2>1, <3>1 DEF StoreInv, CallsOK
      <3>3. ReaderOK(b)'
        BY <2>1, <3>2 DEF ReaderOK, Noted, Held
      <3>4. b.at = "assign" => Midway(b)'
        BY <2>1, <3>2 DEF Midway
      <3> QED BY <2>1, <3>2, <3>3, <3>4
    <2> QED BY <2>1, <2>2, <2>3 DEF StoreInv, CallsOK
  <1>2. CASE StoreNext
    <2>1. PICK t \in Thread :
             \/ Write(t) \/ Set(t) \/ DeleteDoc(t) \/ UpdateDoc(t) \/ Assign(t) \/ ReadDocs(t) \/ Take(t)
             \/ Match(t) \/ Cut(t) \/ Snapshot(t) \/ Copy(t) \/ AnswerRows(t) \/ Return(t)
      BY <1>2 DEF StoreNext
    <2> QED BY <2>1, WriteKeeps, SetKeeps, DeleteKeeps, UpdateKeeps, AssignKeeps, ReadKeeps, TakeKeeps,
               MatchKeeps, CutKeeps, SnapshotKeeps, CopyKeeps, AnswerKeeps, ReturnKeeps
  <1> QED BY <1>1, <1>2

\* For any documents, fields, writes, queries, limits and threads: what a reader is given is right
\* field by field, its rows matched, and unless it was cut it misses no document that was there
\* and matched all the time (firestore_inmemory.py, _DocumentRef, _Snapshot, _Query.stream).
THEOREM RegularAnswers ==
    ASSUME NoneIsNoDocument
    PROVE  StoreSpec => []AnswersAreRegular
  <1>1. StoreInv => AnswersAreRegular
    <2> SUFFICES ASSUME StoreInv, NEW t \in Thread, work[t].at = "answered"
                 PROVE  LET r == work[t].read
                            rows == work[t].rows
                            Versions(d) == {v \in {s[2] : s \in {x \in work[t].seen : x[1] = d}} : v # None}
                            always == {d \in r.docs : <<d, None>> \notin work[t].seen}
                        IN  /\ \A d \in DOMAIN rows, f \in Fields : \E v \in Versions(d) : v[f] = rows[d][f]
                            /\ r.op = "query" => \A d \in DOMAIN rows : \E v \in Versions(d) : Matches(v, r)
                            /\ Cardinality(DOMAIN rows) < r.limit =>
                                  {d \in always : r.op = "fetch" \/ \A v \in Versions(d) : Matches(v, r)}
                                      \subseteq DOMAIN rows
      BY DEF AnswersAreRegular
    <2>1. PICK c : c = work[t]
      OBVIOUS
    <2> DEFINE Versions(d) == {v \in {s[2] : s \in {x \in c.seen : x[1] = d}} : v # None}
    <2>2. c.at = "answered" /\ Found(c)
      BY <2>1 DEF StoreInv, CallsOK, Shape, ReaderOK, ReadPlaces
    <2>3. \A d \in DOMAIN c.rows, f \in Fields : \E v \in Versions(d) : v[f] = c.rows[d][f]
      BY <2>2 DEF Found, Copied, Saw
    <2>4. c.read.op = "query" => \A d \in DOMAIN c.rows : \E v \in Versions(d) : Matches(v, c.read)
      BY <2>2 DEF Found, Matched, Saw, Matches
    <2>5. ASSUME Cardinality(DOMAIN c.rows) < c.read.limit,
                 NEW d \in c.read.docs, <<d, None>> \notin c.seen,
                 c.read.op = "fetch" \/ \A v \in Versions(d) : Matches(v, c.read)
          PROVE  d \in DOMAIN c.rows
      <3>1. d \in DOMAIN c.rows \/ MayMiss(c, d)
        BY <2>2, <2>5 DEF Found, Complete
      <3>2. ~MayMiss(c, d)
        BY <2>5 DEF MayMiss
      <3> QED BY <3>1, <3>2
    <2> QED BY <2>1, <2>3, <2>4, <2>5
  <1>2. StoreInit => StoreInv
    BY StoreInitially
  <1>3. StoreInv /\ [StoreNext]_<<load, storeVars>> => StoreInv'
    BY StoreStep
  <1> QED BY <1>1, <1>2, <1>3, PTL DEF StoreSpec
===============================================================================
