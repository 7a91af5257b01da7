------------------------------ MODULE LocalStore ------------------------------
(***************************************************************************)
(* The stand-in for Firestore of a local installation                      *)
(* (backend/db/firestore_inmemory.py): one collection, used by the threads *)
(* that handle requests.                                                   *)
(*                                                                         *)
(* A document is a dictionary that the collection refers to.  A lock is    *)
(* held while a write is made, and while a reader takes the references it  *)
(* wants; what they refer to is compared and copied without the lock, item *)
(* by item, and an update writes into the very dictionary.  The order of a *)
(* query's rows is left out, and with it which of them a limit keeps.      *)
(***************************************************************************)
EXTENDS Workload, Sequences, FiniteSets

CONSTANTS
    Docs, Fields,
    Stored,   \* the documents at first, None where there is none
    Writes,   \* what is written: [op, doc, data], data a sequence of changes of fields
    Reads     \* what is read: [op, docs, field, value, limit], field None for a get

VARIABLES
    store,    \* the collection: references to dictionaries
    heap,     \* the dictionaries ever made, by their reference (a document's first one is
              \* the document); None is a field's absence
    lock,     \* the thread that holds the lock between two steps
    work,     \* what each thread is doing
    latest    \* history: the documents, if every write were made at once when it begins

storeVars == <<store, heap, lock, work, latest>>

Written(write) == {write.data[i].field : i \in DOMAIN write.data}

\* A reference is not None, and a new one is a number; a change names a field once.
ASSUME StoreAssumption ==
    /\ IsFiniteSet(Docs) /\ Docs \intersect Nat = {} /\ None \notin Docs \union Nat \union Thread \union Reads
    /\ Stored = [d \in Docs |-> Stored[d]]
    /\ \A d \in Docs : Stored[d] # None => Stored[d] = [f \in Fields |-> Stored[d][f]]
    /\ \A w \in Writes :
          /\ w = [op |-> w.op, doc |-> w.doc, data |-> w.data]
          /\ w.op \in {"set", "merge", "update", "delete"} /\ w.doc \in Docs
          /\ w.data \in Seq({w.data[i] : i \in DOMAIN w.data}) /\ (w.op = "update" => w.data # <<>>)
          /\ Written(w) \subseteq Fields
          /\ \A i, j \in DOMAIN w.data : w.data[i].field = w.data[j].field => i = j
    /\ \A r \in Reads :
          /\ r.op \in {"fetch", "query"} /\ r.docs \subseteq Docs /\ r.limit \in Nat
          /\ r.op = "fetch" => r.field = None /\ r.docs # {} /\ r.limit = 1
          /\ r.op = "query" => r.field \in Fields

\* write and read are the request.  refs are the references a reader has taken, rows the
\* documents it has copied; row is the one it copies: its document, the number of items when
\* the copy began, what is still to be copied (or compared) and what has been.  Histories: before, the document as
\* it was when its update began; seen, the versions documents had during a read.
NoRow == [doc |-> None, size |-> 0, left |-> {}, copy |-> [f \in Fields |-> None]]
NoCall == [at |-> "idle", write |-> None, read |-> None, refs |-> <<>>, rows |-> <<>>,
           row |-> NoRow, before |-> None, seen |-> {}]

Enters(t, call) == work' = [work EXCEPT ![t] = call]
Without(f, x) == [y \in DOMAIN f \ {x} |-> f[y]]
With(f, x, v) == [y \in DOMAIN f \union {x} |-> IF y = x THEN v ELSE f[y]]

-----------------------------------------------------------------------------
(* Writes.                                                                 *)

\* _apply_sentinel, with _union and _remove: a change of a field whose value is prior.  A
\* list is the set of its members.
ChangedValue(prior, change) ==
    CASE change.how = "is" -> change.by
      [] change.how = "increment" -> (IF prior = None THEN 0 ELSE prior) + change.by
      [] change.how = "union" -> (IF prior = None THEN {} ELSE prior) \union change.by
      [] change.how = "remove" -> (IF prior = None THEN {} ELSE prior) \ change.by

\* The document with every change made, of a field's value in prior.
Applied(document, prior, write) ==
    [f \in Fields |->
        IF f \in Written(write)
        THEN ChangedValue(prior[f], CHOOSE c \in {write.data[i] : i \in DOMAIN write.data} : c.field = f)
        ELSE document[f]]

\* set resolves its changes as if nothing were there before.
Blank == [f \in Fields |-> None]
Resolved(write) == Applied(Blank, Blank, write)

Write(t) ==
    /\ work[t] = NoCall /\ Issues("write")
    /\ \E w \in Writes : Enters(t, [NoCall EXCEPT !.at = "write", !.write = w])
    /\ UNCHANGED <<store, heap, lock, latest>>

\* The document d has a new version, which those who are reading may see.
Supersedes(t, call, d, version) ==
    /\ latest' = [latest EXCEPT ![d] = version]
    /\ work' = [u \in Thread |->
          IF u = t THEN call
          ELSE IF work[u].read # None /\ d \in work[u].read.docs
          THEN [work[u] EXCEPT !.seen = @ \union {<<d, version>>}] ELSE work[u]]

\* Under the lock: a new dictionary, or the one there is changed by one call.
Set(t) ==
    LET w == work[t].write
        ref == store[w.doc]
        kept == w.op = "merge" /\ ref # None
        fresh == Cardinality(DOMAIN heap)
        version == IF kept THEN Applied(heap[ref], Blank, w) ELSE Resolved(w)
    IN  /\ work[t].at = "write" /\ w.op \in {"set", "merge"} /\ lock = None
        /\ IF kept THEN heap' = [heap EXCEPT ![ref] = version] /\ UNCHANGED store
           ELSE heap' = With(heap, fresh, version) /\ store' = [store EXCEPT ![w.doc] = fresh]
        /\ Supersedes(t, NoCall, w.doc, version)
        /\ UNCHANGED <<load, lock>>

DeleteDoc(t) ==
    LET w == work[t].write
    IN  /\ work[t].at = "write" /\ w.op = "delete" /\ lock = None
        /\ store' = [store EXCEPT ![w.doc] = None]
        /\ Supersedes(t, NoCall, w.doc, None)
        /\ UNCHANGED <<load, heap, lock>>

\* Mutant: the lock is not held while the fields are written.
Unlocked(t, holder) == lock' = None
Locked(t, holder) == lock' = holder

\* update takes the lock and keeps it; a document that is missing is an error.
UpdateDoc(t) ==
    LET w == work[t].write
    IN  /\ work[t].at = "write" /\ w.op = "update" /\ lock = None
        /\ IF store[w.doc] = None THEN Enters(t, NoCall) /\ UNCHANGED <<lock, latest>>
           ELSE /\ Locked(t, t)
                /\ Supersedes(t, [work[t] EXCEPT !.at = "assign", !.before = latest[w.doc],
                                                  !.refs = <<store[w.doc]>>],
                              w.doc, Applied(latest[w.doc], latest[w.doc], w))
        /\ UNCHANGED <<load, store, heap>>

\* Then one field after the other.
Assign(t) ==
    LET change == Head(work[t].write.data)
        ref == work[t].refs[1]
        last == Len(work[t].write.data) = 1
    IN  /\ work[t].at = "assign"
        /\ heap' = [heap EXCEPT ![ref][change.field] = ChangedValue(@, change)]
        /\ Locked(t, IF last THEN None ELSE t)
        /\ Enters(t, IF last THEN NoCall ELSE [work[t] EXCEPT !.write.data = Tail(@)])
        /\ UNCHANGED <<load, store, latest>>

-----------------------------------------------------------------------------
(* Reads.                                                                  *)

\* What is being written when a read begins may be seen as it was.
ReadDocs(t) ==
    /\ work[t] = NoCall
    /\ \E r \in Reads :
          /\ Issues(r.op)
          /\ Enters(t, [NoCall EXCEPT !.at = "take", !.read = r,
                !.seen = {<<d, latest[d]>> : d \in r.docs} \union
                         {<<work[u].write.doc, work[u].before>> :
                             u \in {v \in Thread : work[v].at = "assign" /\ work[v].write.doc \in r.docs}}])
    /\ UNCHANGED <<store, heap, lock, latest>>

\* Under the lock: the references of the documents.
Take(t) ==
    LET there == {d \in work[t].read.docs : store[d] # None}
        refs == [d \in there |-> store[d]]
    IN  /\ work[t].at = "take" /\ lock = None
        /\ Enters(t, [work[t] EXCEPT !.refs = refs, !.at = IF work[t].read.op = "fetch" THEN "row" ELSE "match",
                                    !.row.left = there])
        /\ UNCHANGED <<load, store, heap, lock, latest>>

\* stream compares one document after the other, then cuts the rows.
Matches(document, r) == document[r.field] = r.value

Match(t) ==
    \E d \in work[t].row.left :
       /\ work[t].at = "match"
       /\ Enters(t, [work[t] EXCEPT !.row.left = @ \ {d},
             !.refs = IF Matches(heap[work[t].refs[d]], work[t].read) THEN @ ELSE Without(@, d)])
       /\ UNCHANGED <<load, store, heap, lock, latest>>

Cut(t) ==
    LET matched == DOMAIN work[t].refs
        limit == work[t].read.limit
    IN  /\ work[t].at = "match" /\ work[t].row.left = {}
        /\ \E kept \in SUBSET matched :
              /\ kept = matched \/ Cardinality(kept) = limit
              /\ Cardinality(kept) <= limit
              /\ Enters(t, [work[t] EXCEPT !.at = "row", !.refs = [d \in kept |-> @[d]]])
        /\ UNCHANGED <<load, store, heap, lock, latest>>

\* A snapshot copies the dictionary: its items are iterated over.
Items(document) == {f \in Fields : document[f] # None}

Snapshot(t) ==
    \E d \in DOMAIN work[t].refs \ DOMAIN work[t].rows :
       LET items == Items(heap[work[t].refs[d]])
       IN  /\ work[t].at = "row"
           /\ Enters(t, [work[t] EXCEPT !.at = "copy",
                 !.row = [NoRow EXCEPT !.doc = d, !.size = Cardinality(items), !.left = items]])
           /\ UNCHANGED <<load, store, heap, lock, latest>>

\* An iteration fails when the dictionary has got more items since it began.
Copy(t) ==
    LET row == work[t].row
        document == heap[work[t].refs[row.doc]]
    IN  /\ work[t].at = "copy"
        /\ \/ /\ Cardinality(Items(document)) # row.size
              /\ Enters(t, NoCall)
           \/ /\ Cardinality(Items(document)) = row.size /\ row.left # {}
              /\ \E f \in row.left :
                    Enters(t, [work[t] EXCEPT !.row.left = @ \ {f}, !.row.copy[f] = document[f]])
           \/ /\ Cardinality(Items(document)) = row.size /\ row.left = {}
              /\ Enters(t, [work[t] EXCEPT !.at = "row", !.rows = With(@, row.doc, row.copy), !.row = NoRow])
        /\ UNCHANGED <<load, store, heap, lock, latest>>

AnswerRows(t) ==
    /\ work[t].at = "row" /\ DOMAIN work[t].rows = DOMAIN work[t].refs
    /\ Enters(t, [work[t] EXCEPT !.at = "answered", !.refs = <<>>, !.row = NoRow])
    /\ UNCHANGED <<load, store, heap, lock, latest>>

Return(t) ==
    /\ work[t].at = "answered"
    /\ Enters(t, NoCall)
    /\ UNCHANGED <<load, store, heap, lock, latest>>

-----------------------------------------------------------------------------

StoreInit ==
    /\ load \in Loads
    /\ heap = [d \in {e \in Docs : Stored[e] # None} |-> Stored[d]]
    /\ store = [d \in Docs |-> IF Stored[d] = None THEN None ELSE d]
    /\ lock = None
    /\ work = [t \in Thread |-> NoCall]
    /\ latest = Stored

StoreNext == \E t \in Thread :
    \/ Write(t) \/ Set(t) \/ DeleteDoc(t) \/ UpdateDoc(t) \/ Assign(t)
    \/ ReadDocs(t) \/ Take(t) \/ Match(t) \/ Cut(t) \/ Snapshot(t) \/ Copy(t) \/ AnswerRows(t) \/ Return(t)

StoreSpec == StoreInit /\ [][StoreNext]_<<load, storeVars>>

-----------------------------------------------------------------------------

\* An answer is right field by field, though its fields need not be of one instant: each
\* has a value that the document had while the read was made, or when a write under way
\* had just begun; a query's rows matched it then; and unless it was cut, an answer misses
\* no document that was there and matched all the time.  As the values a document has are
\* those of its writes made one after the other, no write is lost, nor undone by one before
\* it.  (_DocumentRef, _Snapshot, _Query.stream)
AnswersAreRegular == \A t \in Thread : work[t].at = "answered" =>
    LET r == work[t].read
        rows == work[t].rows
        Versions(d) == {v \in {s[2] : s \in {x \in work[t].seen : x[1] = d}} : v # None}
        always == {d \in r.docs : <<d, None>> \notin work[t].seen}
    IN  /\ \A d \in DOMAIN rows, f \in Fields : \E v \in Versions(d) : v[f] = rows[d][f]
        /\ r.op = "query" => \A d \in DOMAIN rows : \E v \in Versions(d) : Matches(v, r)
        /\ Cardinality(DOMAIN rows) < r.limit =>
              {d \in always : r.op = "fetch" \/ \A v \in Versions(d) : Matches(v, r)} \subseteq DOMAIN rows
=============================================================================
