--------------------------- MODULE DocumentsProofs ---------------------------
(***************************************************************************)
(* What holds of a user's documents, for any files, contents, requests and *)
(* document ids.                                                           *)
(*                                                                         *)
(* Whatever a request does, it overwrites at most one record: Effect says  *)
(* which one and with what.  Every invariant below is shown to survive an  *)
(* Effect once, and then each action is shown to be one.                   *)
(*                                                                         *)
(* The last part is about one session's turns over these documents, and    *)
(* what the model is shown of them.                                        *)
(***************************************************************************)
EXTENDS DocumentContext, FiniteSetTheorems, TLAPS

-----------------------------------------------------------------------------
(* Type correctness *)

\* A request in progress knows its file, and its record unless it imports.
RequestsOK ==
    \A r \in Requests : InProgress(r) =>
       /\ req[r].file \in File
       /\ req[r].op \in {"upload", "reparse", "import"}
       /\ req[r].op = "upload" => req[r].file \in Uploads
       /\ req[r].op = "import" => req[r].file \in References
       /\ req[r].op # "import" => req[r].doc \in DocIds
       /\ req[r].at = "reading" => req[r].op = "upload" /\ req[r].bytes \in Content

TypedInv == DocTypeOK /\ RequestsOK

\* A request record that may be served.
Servable(q) ==
    /\ q \in Request
    /\ q.op \in {"upload", "reparse", "import"}
    /\ q.file \in File
    /\ q.op = "upload" => q.file \in Uploads
    /\ q.op = "import" => q.file \in References
    /\ q.op # "import" => q.doc \in DocIds

LEMMA StoredType ==
    ASSUME NEW f \in File \union {None}, NEW filed \in BOOLEAN, NEW status \in Status,
           NEW blocks \in Content \union {None}
    PROVE  Stored(f, filed, status, blocks) \in Record
  BY DEF Stored, Record

\* Which record q writes, for which file and whether in the folder: an upload
\* its own, a reparse the one it was called for as that one stands, an import the
\* one it found or else a new one.
Target(q, d, x, filed) ==
    \/ /\ q.op = "upload"
       /\ d = q.doc /\ x = q.file /\ filed = TRUE
       /\ UNCHANGED <<issued, unfiled>>
    \/ /\ q.op = "reparse"
       /\ d = q.doc
       /\ IF docs[d] = None THEN x = None /\ filed = FALSE
          ELSE x = docs[d].file /\ filed = docs[d].filed
       /\ UNCHANGED <<issued, unfiled>>
    \/ /\ q.op = "import"
       /\ x = q.file /\ filed = FALSE
       /\ IF q.doc = None THEN d = issued + 1 /\ issued' = d
          ELSE d = q.doc /\ UNCHANGED issued
       /\ unfiled' = IF Present(d) /\ docs[d].filed THEN unfiled \union {d} ELSE unfiled

\* What the end of a parse does to the records: nothing, or one is overwritten.
Effect(q, status, blocks) ==
    \/ UNCHANGED <<docs, issued, unfiled>>
    \/ \E d \in DocIds, x \in File \union {None}, filed \in BOOLEAN :
          /\ docs' = [docs EXCEPT ![d] = Stored(x, filed, status, blocks)]
          /\ Target(q, d, x, filed)

LEMMA FinishEffect ==
    ASSUME DocTypeOK, NEW q, Servable(q),
           NEW status, NEW blocks, Finish(q, status, blocks)
    PROVE  Effect(q, status, blocks)
  <1>1. CASE q.op = "upload" /\ FinishUpload(q, status, blocks)
    <2>1. q.doc \in DocIds /\ q.file \in File \union {None} /\ TRUE \in BOOLEAN
      BY <1>1 DEF Servable
    <2>2. docs' = [docs EXCEPT ![q.doc] = Stored(q.file, TRUE, status, blocks)]
      BY <1>1 DEF FinishUpload
    <2>3. Target(q, q.doc, q.file, TRUE)
      BY <1>1 DEF FinishUpload, Target
    <2> QED BY <2>1, <2>2, <2>3 DEF Effect
  <1>2. CASE q.op = "reparse" /\ FinishReparse(q, status, blocks)
    <2>1. q.doc \in DocIds
      BY <1>2 DEF Servable
    <2>2. CASE docs[q.doc] = None
      <3>1. docs' = [docs EXCEPT ![q.doc] = Stored(None, FALSE, status, blocks)]
        BY <1>2, <2>1, <2>2 DEF FinishReparse, DocTypeOK
      <3>2. Target(q, q.doc, None, FALSE)
        BY <1>2, <2>2 DEF FinishReparse, Target
      <3> QED BY <2>1, <3>1, <3>2 DEF Effect
    <2>3. CASE docs[q.doc] # None
      <3>1. docs[q.doc].file \in File \union {None} /\ docs[q.doc].filed \in BOOLEAN
        BY <2>1, <2>3 DEF DocTypeOK, Record
      <3>2. docs' = [docs EXCEPT ![q.doc] =
                       Stored(docs[q.doc].file, docs[q.doc].filed, status, blocks)]
        BY <1>2, <2>1, <2>3 DEF FinishReparse, DocTypeOK
      <3>3. Target(q, q.doc, docs[q.doc].file, docs[q.doc].filed)
        BY <1>2, <2>3 DEF FinishReparse, Target
      <3> QED BY <2>1, <3>1, <3>2, <3>3 DEF Effect
    <2> QED BY <2>2, <2>3
  <1>3. CASE q.op = "import" /\ FinishImport(q, status, blocks)
    <2>1. CASE UNCHANGED <<docs, issued, unfiled>>
      BY <2>1 DEF Effect
    <2>2. CASE status # "failed"
      <3>1. PICK d \in DocIds :
                /\ IF q.doc = None THEN FreshId(d) ELSE d = q.doc /\ UNCHANGED issued
                /\ docs' = [docs EXCEPT ![d] = Stored(q.file, FALSE, status, blocks)]
                /\ unfiled' = IF Present(d) /\ docs[d].filed
                              THEN unfiled \union {d} ELSE unfiled
        BY <1>3, <2>2 DEF FinishImport
      <3>2. q.file \in File \union {None} /\ FALSE \in BOOLEAN
        BY DEF Servable
      <3>3. Target(q, d, q.file, FALSE)
        BY <1>3, <3>1 DEF FreshId, Target
      <3> QED BY <3>1, <3>2, <3>3 DEF Effect
    <2> QED BY <1>3, <2>1, <2>2 DEF FinishImport
  <1> QED BY <1>1, <1>2, <1>3 DEF Finish

LEMMA EffectType ==
    ASSUME DocTypeOK, NEW q, NEW status \in Status,
           NEW blocks \in Content \union {None}, Effect(q, status, blocks)
    PROVE  /\ docs' \in [DocIds -> Record \union {None}]
           /\ issued' \in 0 .. MaxDocs
           /\ unfiled' \subseteq DocIds
  <1>1. CASE UNCHANGED <<docs, issued, unfiled>>
    BY <1>1 DEF DocTypeOK
  <1>2. CASE ~ UNCHANGED <<docs, issued, unfiled>>
    <2>1. PICK d \in DocIds, x \in File \union {None}, filed \in BOOLEAN :
             /\ docs' = [docs EXCEPT ![d] = Stored(x, filed, status, blocks)]
             /\ Target(q, d, x, filed)
      BY <1>2 DEF Effect
    <2>2. Stored(x, filed, status, blocks) \in Record
      BY StoredType
    <2>3. (issued' = issued \/ issued' = d) /\ unfiled' \subseteq unfiled \union {d}
      BY <2>1 DEF Target
    <2>4. issued' \in 0 .. MaxDocs
      BY <2>3, DocumentsAssumption DEF DocIds, DocTypeOK
    <2> QED BY <2>1, <2>2, <2>3, <2>4 DEF DocTypeOK
  <1> QED BY <1>1, <1>2

LEMMA FinishType ==
    ASSUME DocTypeOK, NEW q, Servable(q), NEW status \in Status,
           NEW blocks \in Content \union {None}, Finish(q, status, blocks)
    PROVE  /\ docs' \in [DocIds -> Record \union {None}]
           /\ issued' \in 0 .. MaxDocs
           /\ unfiled' \subseteq DocIds
           /\ counts' \in [docs : Nat, parsed : Nat]
           /\ smooth' \in BOOLEAN
  <1>1. Effect(q, status, blocks)
    BY FinishEffect
  <1>2. /\ docs' \in [DocIds -> Record \union {None}]
        /\ issued' \in 0 .. MaxDocs
        /\ unfiled' \subseteq DocIds
    BY <1>1, EffectType
  <1>3. Counted(q, status) \in [docs : Nat, parsed : Nat]
    BY DEF Counted, DocTypeOK
  <1>4. counts' \in [docs : Nat, parsed : Nat] /\ smooth' \in BOOLEAN
    <2>1. CASE FinishUpload(q, status, blocks)
      <3>1. smooth' \in BOOLEAN
        BY <2>1, Zenon DEF FinishUpload, DocTypeOK
      <3> QED BY <2>1, <1>3, <3>1 DEF FinishUpload, DocTypeOK
    <2>2. CASE FinishReparse(q, status, blocks)
      <3>1. smooth' \in BOOLEAN
        BY <2>2, Zenon DEF FinishReparse, DocTypeOK
      <3> QED BY <2>2, <3>1 DEF FinishReparse, DocTypeOK
    <2>3. CASE FinishImport(q, status, blocks)
      BY <2>3 DEF FinishImport, DocTypeOK
    <2> QED BY <2>1, <2>2, <2>3 DEF Finish
  <1> QED BY <1>2, <1>4

\* A request that ends is not in progress, and the others are as they were.
LEMMA EndedRequests ==
    ASSUME TypedInv, NEW r \in Requests, NEW q, q \in Request, Ended(r, q)
    PROVE  /\ req' \in [Requests -> Request]
           /\ RequestsOK'
  <1>1. [q EXCEPT !.at = "done", !.bytes = None] \in Request
    BY DEF Request
  <1>2. req' \in [Requests -> Request]
    BY <1>1 DEF Ended, TypedInv, DocTypeOK
  <1>3. ASSUME NEW o \in Requests, InProgress(o)'
        PROVE  req'[o] = req[o] /\ InProgress(o)
    BY <1>1, <1>3 DEF Ended, InProgress, TypedInv, DocTypeOK, Request
  <1> QED BY <1>2, <1>3 DEF RequestsOK, TypedInv, InProgress

\* A request, new or in progress, is recorded as in progress.
LEMMA GoesOn ==
    ASSUME TypedInv, NEW r \in Requests, NEW q, Servable(q),
           q.at = "reading" => q.op = "upload" /\ q.bytes \in Content,
           req' = [req EXCEPT ![r] = q]
    PROVE  /\ req' \in [Requests -> Request]
           /\ RequestsOK'
  <1>1. req' \in [Requests -> Request] /\ req'[r] = q
    BY DEF Servable, TypedInv, DocTypeOK
  <1>2. ASSUME NEW o \in Requests, o # r
        PROVE  req'[o] = req[o]
    BY <1>2 DEF TypedInv, DocTypeOK
  <1> QED BY <1>1, <1>2 DEF RequestsOK, TypedInv, InProgress, Servable

LEMMA StartParseType ==
    ASSUME TypedInv, NEW r \in Requests, NEW q, Servable(q), StartParse(r, q)
    PROVE  /\ docs' \in [DocIds -> Record \union {None}]
           /\ issued' \in 0 .. MaxDocs
           /\ unfiled' \subseteq DocIds
           /\ counts' \in [docs : Nat, parsed : Nat]
           /\ smooth' \in BOOLEAN
           /\ req' \in [Requests -> Request]
           /\ RequestsOK'
  <1>1. CASE q.file \in Unparseable /\ Finish(q, "pending_ai_extraction", None) /\ Ended(r, q)
    BY <1>1, FinishType, EndedRequests DEF TypedInv, Servable, Status
  <1>2. CASE q.file \notin Unparseable /\ Finish(q, "parsed", cache[q.file]) /\ Ended(r, q)
    <2>1. cache[q.file] \in Content \union {None}
      BY DEF TypedInv, DocTypeOK, Servable
    <2> QED BY <1>2, <2>1, FinishType, EndedRequests DEF TypedInv, Servable, Status
  <1>3. CASE /\ req' = [req EXCEPT ![r] = [q EXCEPT !.at = "parsing", !.bytes = None]]
             /\ UNCHANGED <<docs, counts, issued, unfiled, smooth>>
    <2> DEFINE p == [q EXCEPT !.at = "parsing", !.bytes = None]
    <2>1. Servable(p) /\ p.at # "reading"
      BY DEF Servable, Request
    <2>2. req' \in [Requests -> Request] /\ RequestsOK'
      BY <1>3, <2>1, GoesOn
    <2> QED BY <1>3, <2>2 DEF TypedInv, DocTypeOK
  <1> QED BY <1>1, <1>2, <1>3 DEF StartParse

LEMMA InProgressServable ==
    ASSUME TypedInv, NEW r \in Requests, InProgress(r)
    PROVE  Servable(req[r])
  BY DEF TypedInv, RequestsOK, DocTypeOK, Servable

LEMMA FileFacts == References \subseteq File /\ Uploads \subseteq File
  BY DEF File

\* What a new import is, before it is served.
Import(hit, f) == [op |-> "import", at |-> "parsing", doc |-> hit, file |-> f,
                   bytes |-> None, first |-> FALSE]

\* What a new reparse is.
Reparse(d) == [op |-> "reparse", at |-> "parsing", doc |-> d,
               file |-> docs[d].file, bytes |-> None, first |-> FALSE]

LEMMA ImportServable ==
    ASSUME DocTypeOK, NEW f \in References, NEW hit \in RecordsOf(f) \union {None}
    PROVE  Servable(Import(hit, f))
  BY FileFacts DEF Import, Servable, Request, RecordsOf

LEMMA ReparseServable ==
    ASSUME DocTypeOK, NEW d \in DocIds, Present(d), docs[d].file # None
    PROVE  Servable(Reparse(d))
  <1>1. docs[d].file \in File
    BY DEF DocTypeOK, Present, Record
  <1> QED BY <1>1 DEF Reparse, Servable, Request

LEMMA UploadBeginType ==
    ASSUME TypedInv, NEW r \in Requests, NEW f \in Uploads, NEW c \in Content,
           UploadBegin(r, f, c)
    PROVE  TypedInv'
  <1>1. PICK d \in DocIds :
           /\ issued' = d \/ issued' = issued
           /\ docs' = [docs EXCEPT ![d] = Stored(f, TRUE, "pending", None)]
           /\ req' = [req EXCEPT ![r] =
                [op |-> "upload", at |-> "reading", doc |-> d, file |-> f,
                 bytes |-> c, first |-> FiledOf(f) = {}]]
    BY DEF UploadBegin, FreshId, Reused
  <1> DEFINE q == [op |-> "upload", at |-> "reading", doc |-> d, file |-> f,
                   bytes |-> c, first |-> FiledOf(f) = {}]
  <1>2. Stored(f, TRUE, "pending", None) \in Record
    BY StoredType, FileFacts DEF Status
  <1>3. docs' \in [DocIds -> Record \union {None}]
    BY <1>1, <1>2 DEF TypedInv, DocTypeOK
  <1>4. issued' \in 0 .. MaxDocs
    BY <1>1, DocumentsAssumption DEF TypedInv, DocTypeOK, DocIds
  <1>5. (FiledOf(f) = {}) \in BOOLEAN
    OBVIOUS
  <1>6. Servable(q)
    BY <1>5, FileFacts DEF Servable, Request
  <1>7. req' \in [Requests -> Request] /\ RequestsOK'
    <2>1. q.op = "upload" /\ q.bytes \in Content
      OBVIOUS
    <2>2. req' = [req EXCEPT ![r] = q]
      BY <1>1
    <2> HIDE DEF q
    <2> QED BY <2>1, <2>2, <1>6, GoesOn
  <1>8. overlapped' \subseteq File
    BY FileFacts DEF UploadBegin, TypedInv, DocTypeOK
  <1> QED BY <1>3, <1>4, <1>7, <1>8 DEF TypedInv, DocTypeOK, UploadBegin

LEMMA UploadStoredType ==
    ASSUME TypedInv, NEW r \in Requests, UploadStored(r)
    PROVE  TypedInv'
  <1>1. InProgress(r)
    BY DEF UploadStored, InProgress
  <1>2. Servable(req[r])
    BY <1>1, InProgressServable
  <1>3. object' \in [File -> Content \union {None}]
    <2>1. req[r].bytes \in Content \union {None}
      BY <1>2 DEF Servable, Request
    <2> QED BY <2>1 DEF UploadStored, TypedInv, DocTypeOK
  <1>4. StartParse(r, req[r])
    BY DEF UploadStored
  <1> QED BY <1>2, <1>3, <1>4, StartParseType DEF TypedInv, DocTypeOK, UploadStored

LEMMA UploadRefusedType ==
    ASSUME TypedInv, NEW r \in Requests, UploadRefused(r)
    PROVE  TypedInv'
  <1>1. InProgress(r)
    BY DEF UploadRefused, InProgress
  <1>2. Servable(req[r])
    BY <1>1, InProgressServable
  <1>3. Stored(req[r].file, TRUE, "failed", None) \in Record
    BY <1>2, StoredType DEF Servable, Status
  <1>4. docs' \in [DocIds -> Record \union {None}]
    BY <1>3 DEF UploadRefused, TypedInv, DocTypeOK
  <1>5. req' \in [Requests -> Request] /\ RequestsOK'
    BY <1>2, EndedRequests DEF UploadRefused, Servable
  <1> QED BY <1>4, <1>5 DEF TypedInv, DocTypeOK, UploadRefused

LEMMA ReparseBeginType ==
    ASSUME TypedInv, NEW r \in Requests, NEW d \in DocIds, ReparseBegin(r, d)
    PROVE  TypedInv'
  <1>1. Servable(Reparse(d)) /\ StartParse(r, Reparse(d))
    BY ReparseServable DEF ReparseBegin, Reparse, TypedInv
  <1> QED BY <1>1, StartParseType DEF TypedInv, DocTypeOK, ReparseBegin

LEMMA ImportBeginType ==
    ASSUME TypedInv, NEW r \in Requests, NEW f \in References, ImportBegin(r, f)
    PROVE  TypedInv'
  <1>1. PICK hit \in RecordsOf(f) \union {None} :
           \/ /\ Ended(r, Import(hit, f))
              /\ UNCHANGED <<docs, counts, issued, unfiled, smooth>>
           \/ /\ sentinel[f] # None
              /\ FinishImport(Import(hit, f), "parsed", sentinel[f])
              /\ Ended(r, Import(hit, f))
           \/ StartParse(r, Import(hit, f))
    BY DEF ImportBegin, Import
  <1>2. Servable(Import(hit, f)) /\ Import(hit, f) \in Request
    BY ImportServable DEF Servable, TypedInv
  <1>3. /\ docs' \in [DocIds -> Record \union {None}]
        /\ issued' \in 0 .. MaxDocs
        /\ unfiled' \subseteq DocIds
        /\ counts' \in [docs : Nat, parsed : Nat]
        /\ smooth' \in BOOLEAN
        /\ req' \in [Requests -> Request]
        /\ RequestsOK'
    <2>1. CASE Ended(r, Import(hit, f)) /\ UNCHANGED <<docs, counts, issued, unfiled, smooth>>
      BY <2>1, <1>2, EndedRequests DEF TypedInv, DocTypeOK
    <2>2. CASE /\ FinishImport(Import(hit, f), "parsed", sentinel[f])
               /\ Ended(r, Import(hit, f))
      <3>1. Finish(Import(hit, f), "parsed", sentinel[f])
        BY <2>2 DEF Finish, Import
      <3>2. sentinel[f] \in Content \union {None}
        BY DEF TypedInv, DocTypeOK
      <3> QED BY <2>2, <3>1, <3>2, <1>2, FinishType, EndedRequests DEF TypedInv, Status
    <2>3. CASE StartParse(r, Import(hit, f))
      BY <2>3, <1>2, StartParseType
    <2> QED BY <1>1, <2>1, <2>2, <2>3
  <1>4. overlapped' \subseteq File
    BY FileFacts DEF ImportBegin, TypedInv, DocTypeOK
  <1> QED BY <1>3, <1>4 DEF TypedInv, DocTypeOK, ImportBegin

LEMMA FetchType ==
    ASSUME TypedInv, NEW r \in Requests, Fetch(r)
    PROVE  TypedInv'
  <1> DEFINE q == [req[r] EXCEPT !.at = "fetched", !.bytes = object[req[r].file]]
  <1>1. InProgress(r)
    BY DEF Fetch, InProgress
  <1>2. Servable(req[r])
    BY <1>1, InProgressServable
  <1>3. object[req[r].file] \in Content \union {None}
    BY <1>2 DEF TypedInv, DocTypeOK, Servable
  <1>4. Servable(q) /\ q.at = "fetched"
    BY <1>2, <1>3 DEF Servable, Request
  <1>5. req' = [req EXCEPT ![r] = q]
    BY DEF Fetch, TypedInv, DocTypeOK
  <1>6. req' \in [Requests -> Request] /\ RequestsOK'
    <2> HIDE DEF q
    <2> QED BY <1>4, <1>5, GoesOn
  <1> QED BY <1>6 DEF TypedInv, DocTypeOK, Fetch

LEMMA ParseType ==
    ASSUME TypedInv, NEW r \in Requests, ParseOk(r) \/ ParseFailed(r)
    PROVE  TypedInv'
  <1>1. InProgress(r)
    BY DEF ParseOk, ParseFailed, InProgress
  <1>2. Servable(req[r]) /\ req[r] \in Request
    BY <1>1, InProgressServable DEF Servable
  <1>3. CASE ParseOk(r)
    <2>1. req[r].bytes \in Content \union {None}
      BY <1>2 DEF Request
    <2>2. cache' \in [File -> Content \union {None}]
      BY <1>2, <1>3, <2>1 DEF ParseOk, TypedInv, DocTypeOK
    <2>3. Finish(req[r], "parsed", req[r].bytes) /\ Ended(r, req[r])
      BY <1>3 DEF ParseOk
    <2> QED BY <1>2, <1>3, <2>1, <2>2, <2>3, FinishType, EndedRequests
            DEF TypedInv, DocTypeOK, ParseOk, Status
  <1>4. CASE ParseFailed(r)
    <2>1. Finish(req[r], "failed", None) /\ Ended(r, req[r])
      BY <1>4 DEF ParseFailed
    <2> QED BY <1>2, <1>4, <2>1, FinishType, EndedRequests
            DEF TypedInv, DocTypeOK, ParseFailed, Status
  <1> QED BY <1>3, <1>4

LEMMA OtherType ==
    ASSUME TypedInv,
           \/ \E r \in Requests : Dies(r)
           \/ \E d \in DocIds : Delete(d)
           \/ \E f \in References, c \in Content : Prewarm(f, c)
           \/ \E f \in File : Expire(f)
           \/ Restart
           \/ UNCHANGED docVars
    PROVE  TypedInv'
  <1>1. ASSUME NEW r \in Requests, Dies(r) PROVE TypedInv'
    <2>1. InProgress(r) /\ Ended(r, req[r])
      BY <1>1 DEF Dies
    <2>2. Servable(req[r]) /\ req[r] \in Request
      BY <2>1, InProgressServable DEF Servable
    <2>3. abandoned' \subseteq DocIds
      BY <1>1, <2>2 DEF Dies, TypedInv, DocTypeOK, Request
    <2> QED BY <1>1, <2>1, <2>2, <2>3, EndedRequests DEF TypedInv, DocTypeOK, Dies
  <1>2. ASSUME NEW d \in DocIds, Delete(d) PROVE TypedInv'
    <2>1. object' \in [File -> Content \union {None}]
      BY <1>2 DEF Delete, TypedInv, DocTypeOK
    <2>2. docs' \in [DocIds -> Record \union {None}]
      BY <1>2 DEF Delete, TypedInv, DocTypeOK
    <2> QED BY <1>2, <2>1, <2>2 DEF Delete, TypedInv, DocTypeOK, RequestsOK, InProgress
  <1>3. ASSUME NEW f \in References, NEW c \in Content, Prewarm(f, c) PROVE TypedInv'
    BY <1>3 DEF Prewarm, TypedInv, DocTypeOK, RequestsOK, InProgress
  <1>4. ASSUME NEW f \in File, Expire(f) PROVE TypedInv'
    BY <1>4 DEF Expire, TypedInv, DocTypeOK, RequestsOK, InProgress
  <1>5. CASE Restart
    <2> DEFINE killed(r) == [req[r] EXCEPT !.at = "done", !.bytes = None]
    <2>a. \A r \in Requests : req[r] \in Request /\ killed(r) \in Request
      BY DEF TypedInv, DocTypeOK, Request
    <2>1. req' \in [Requests -> Request]
      <3>1. req' = [r \in Requests |-> IF InProgress(r) THEN killed(r) ELSE req[r]]
        BY <1>5 DEF Restart
      <3> HIDE DEF killed
      <3> QED BY <2>a, <3>1
    <2>2. \A r \in Requests : req'[r].at \notin {"reading", "parsing", "fetched"}
      BY <1>5 DEF Restart, TypedInv, DocTypeOK, Request, InProgress
    <2>3. RequestsOK'
      BY <2>2 DEF RequestsOK, InProgress
    <2>4. cache' \in [File -> Content \union {None}] /\ abandoned' \subseteq DocIds
      BY <1>5 DEF Restart, TypedInv, DocTypeOK
    <2>5. smooth' \in BOOLEAN
      BY <1>5, Zenon DEF Restart, TypedInv, DocTypeOK
    <2> QED BY <1>5, <2>1, <2>3, <2>4, <2>5 DEF Restart, TypedInv, DocTypeOK
  <1>6. CASE UNCHANGED docVars
    BY <1>6 DEF docVars, TypedInv, DocTypeOK, RequestsOK, InProgress
  <1> QED BY <1>1, <1>2, <1>3, <1>4, <1>5, <1>6

\* Every step keeps the types and what a request in progress knows of itself.
LEMMA TypedStep == TypedInv /\ [DocNext]_docVars => TypedInv'
  <1> SUFFICES ASSUME TypedInv, [DocNext]_docVars PROVE TypedInv'
    OBVIOUS
  <1> QED BY UploadBeginType, UploadStoredType, UploadRefusedType, ReparseBeginType,
             ImportBeginType, FetchType, ParseType, OtherType
          DEF DocNext, DocStep, Serve

\* They hold at the start.
LEMMA TypedInit == DocInit => TypedInv
  <1> SUFFICES ASSUME DocInit PROVE TypedInv
    OBVIOUS
  <1>1. DocTypeOK
    BY DocumentsAssumption DEF DocInit, DocTypeOK, Request, DocIds
  <1>2. RequestsOK
    BY DEF DocInit, RequestsOK, InProgress
  <1> QED BY <1>1, <1>2 DEF TypedInv

\* The books of documents are well typed in every reachable state
\* (tools/documents/upload.py, routes.py, import_by_reference.py).
THEOREM TypeCorrect == DocSpec => []DocTypeOK
  <1>1. TypedInv => DocTypeOK
    BY DEF TypedInv
  <1> QED BY <1>1, TypedInit, TypedStep, PTL DEF DocSpec

-----------------------------------------------------------------------------
(* One record per file *)

Holds(recs, d, f) == recs[d] # None /\ recs[d].file = f

\* What a request in progress knows of the records: an upload or an import that
\* has a record writes the record of its file, in the folder if it uploads, and
\* an import that has none found none.  A deletion since, an import that took the
\* record out of the folder, or a request for the file beside an import of it is
\* on record: late, out and over stand for these histories.
Known(q, recs, n, late, out, over) ==
    /\ q.doc # None => q.doc <= n
    /\ q.op \in {"upload", "import"} /\ q.doc # None =>
          Holds(recs, q.doc, q.file) \/ q.doc \in late
    /\ q.op = "upload" /\ q.doc # None =>
          recs[q.doc].filed = TRUE \/ q.doc \in late \/ q.doc \in out
    /\ q.op = "import" /\ q.doc = None =>
          q.file \in over \/ \A d \in DocIds : Holds(recs, d, q.file) => d \in late

IdsIn(recs, n, out) ==
    /\ \A d \in DocIds : recs[d] # None => d <= n
    /\ \A d \in out : d <= n

\* Two records of a file, both in the folder or both outside it.
Twins(recs, d, e, f) ==
    Holds(recs, d, f) /\ Holds(recs, e, f) /\ recs[d].filed = recs[e].filed

OneIn(recs, late, out, over) ==
    \A f \in File : \A d, e \in DocIds :
       Twins(recs, d, e, f) =>
          d = e \/ d \in late \/ e \in late \/ d \in out \/ e \in out \/ f \in over

\* Two requests that import one file at once.
Rivals(q, p) == q.op = "import" /\ p.op = "import" /\ q.file = p.file

RecordInv ==
    /\ IdsIn(docs, issued, unfiled)
    /\ OneIn(docs, deletedLate, unfiled, overlapped)
    /\ \A r \in Requests :
          InProgress(r) => Known(req[r], docs, issued, deletedLate, unfiled, overlapped)
    /\ \A r, o \in Requests :
          r # o /\ InProgress(r) /\ InProgress(o) /\ Rivals(req[r], req[o])
             => req[r].file \in overlapped

\* One record is written: that of the file or a deleted one, one that has no
\* file and was not there, or a new one of a file that has none such.
Write(d, x, filed, over) ==
    /\ unfiled \subseteq unfiled' /\ unfiled' \subseteq unfiled \union {d}
    /\ \/ /\ issued' = issued /\ d <= issued
          /\ Holds(docs, d, x) \/ d \in deletedLate \/ (x = None /\ docs[d] = None)
          /\ docs[d].filed = filed \/ d \in deletedLate \/ d \in unfiled' \/ x = None
       \/ /\ d = issued + 1 /\ issued' = d
          /\ x \in over \/ \A e \in DocIds :
                Holds(docs, e, x) /\ docs[e].filed = filed => e \in deletedLate

LEMMA WrittenRecord ==
    ASSUME DocTypeOK, NEW d \in DocIds, NEW x \in File \union {None}, NEW filed \in BOOLEAN,
           NEW status \in Status, NEW blocks \in Content \union {None},
           docs' = [docs EXCEPT ![d] = Stored(x, filed, status, blocks)]
    PROVE  /\ Holds(docs', d, x)
           /\ docs'[d].file = x
           /\ docs'[d].filed = filed
           /\ docs'[d].status = status
           /\ \A e \in DocIds : e # d => docs'[e] = docs[e]
  <1>1. docs'[d] = Stored(x, filed, status, blocks) /\ \A e \in DocIds : e # d => docs'[e] = docs[e]
    BY DEF DocTypeOK
  <1>2. Stored(x, filed, status, blocks) # None
    BY StoredType, NoRecordAssumption
  <1> QED BY <1>1, <1>2 DEF Holds, Stored

LEMMA WriteRecords ==
    ASSUME DocTypeOK, IdsIn(docs, issued, unfiled),
           NEW over, OneIn(docs, deletedLate, unfiled, over),
           NEW d \in DocIds, NEW x \in File \union {None}, NEW filed \in BOOLEAN,
           NEW status \in Status, NEW blocks \in Content \union {None},
           docs' = [docs EXCEPT ![d] = Stored(x, filed, status, blocks)],
           Write(d, x, filed, over)
    PROVE  IdsIn(docs', issued', unfiled') /\ OneIn(docs', deletedLate, unfiled', over)
  <1>1. /\ Holds(docs', d, x) /\ docs'[d].file = x /\ docs'[d].filed = filed
        /\ \A e \in DocIds : e # d => docs'[e] = docs[e]
    BY WrittenRecord
  <1>2. d \in Nat /\ issued \in Nat /\ DocIds \subseteq Nat /\ unfiled \subseteq Nat
    BY DocumentsAssumption DEF DocTypeOK, DocIds
  <1>3. IdsIn(docs', issued', unfiled')
    BY <1>1, <1>2 DEF IdsIn, Write
  <1>4. ASSUME NEW f \in File, NEW e \in DocIds, e # d, Twins(docs', d, e, f)
        PROVE  d \in deletedLate \/ e \in deletedLate \/ d \in unfiled' \/ e \in unfiled' \/ f \in over
    <2>1. x = f /\ Holds(docs, e, f) /\ docs[e].filed = filed
      BY <1>1, <1>4 DEF Twins, Holds
    <2>2. x # None
      BY <2>1, DocumentsAssumption
    <2>3. CASE Holds(docs, d, x) /\ docs[d].filed = filed
      <3>1. Twins(docs, d, e, f)
        BY <2>1, <2>3 DEF Twins
      <3> QED BY <1>4, <3>1 DEF OneIn, Write
    <2>4. CASE ~(Holds(docs, d, x) /\ docs[d].filed = filed)
      BY <1>4, <2>1, <2>2, <2>4 DEF Write
    <2> QED BY <2>3, <2>4
  <1>5. OneIn(docs', deletedLate, unfiled', over)
    <2> SUFFICES ASSUME NEW f \in File, NEW e1 \in DocIds, NEW e2 \in DocIds,
                        Twins(docs', e1, e2, f), e1 # e2
                 PROVE  \/ e1 \in deletedLate \/ e2 \in deletedLate
                        \/ e1 \in unfiled' \/ e2 \in unfiled' \/ f \in over
      BY DEF OneIn
    <2>1. CASE e1 = d
      BY <2>1, <1>4
    <2>2. CASE e2 = d
      <3>1. Twins(docs', e2, e1, f)
        BY DEF Twins
      <3> QED BY <2>2, <3>1, <1>4
    <2>3. CASE e1 # d /\ e2 # d
      <3>1. Twins(docs, e1, e2, f)
        BY <2>3, <1>1 DEF Twins, Holds
      <3> QED BY <3>1 DEF OneIn, Write
    <2> QED BY <2>1, <2>2, <2>3
  <1> QED BY <1>3, <1>5

\* A request beside the one that writes knows what it knew, unless it imports
\* the file whose record appears.
LEMMA WriteKnown ==
    ASSUME DocTypeOK, NEW over,
           NEW d \in DocIds, NEW x \in File \union {None}, NEW filed \in BOOLEAN,
           NEW status \in Status, NEW blocks \in Content \union {None},
           docs' = [docs EXCEPT ![d] = Stored(x, filed, status, blocks)],
           Write(d, x, filed, over),
           NEW k, Servable(k), Known(k, docs, issued, deletedLate, unfiled, over),
           k.op = "import" /\ x = k.file =>
              x \in over \/ Holds(docs, d, x) \/ d \in deletedLate
    PROVE  Known(k, docs', issued', deletedLate, unfiled', over)
  <1>1. /\ Holds(docs', d, x) /\ docs'[d].file = x /\ docs'[d].filed = filed
        /\ \A e \in DocIds : e # d => docs'[e] = docs[e]
    BY WrittenRecord
  <1>2. d \in Nat /\ issued \in Nat /\ issued' \in Nat /\ issued <= issued' /\ DocIds \subseteq Nat
    BY DocumentsAssumption DEF DocTypeOK, DocIds, Write
  <1>3. k.doc \in DocIds \union {None} /\ k.file \in File /\ None \notin File
    BY DocumentsAssumption DEF Servable, Request
  <1>4. ASSUME k.doc # None PROVE k.doc <= issued'
    <2>1. k.doc <= issued
      BY <1>4 DEF Known
    <2>2. k.doc \in Nat
      BY <1>2, <1>3, <1>4
    <2> QED BY <1>2, <2>1, <2>2
  <1>5. ASSUME k.op \in {"upload", "import"}, k.doc # None, k.doc \notin deletedLate
        PROVE  /\ Holds(docs', k.doc, k.file)
               /\ k.op = "upload" => docs'[k.doc].filed = TRUE \/ k.doc \in unfiled'
    <2>1. /\ Holds(docs, k.doc, k.file) /\ k.doc <= issued
          /\ k.op = "upload" => docs[k.doc].filed = TRUE \/ k.doc \in unfiled
      BY <1>5 DEF Known
    <2>2. CASE k.doc = d
      <3>1. ~(d = issued + 1)
        BY <2>1, <2>2, <1>2
      <3>2. /\ Holds(docs, d, x) \/ docs[d] = None
            /\ docs[d].filed = filed \/ d \in unfiled' \/ x = None
        BY <1>5, <2>2, <3>1 DEF Write
      <3>3. x = k.file
        BY <2>1, <2>2, <3>2 DEF Holds
      <3> QED BY <1>1, <1>3, <2>1, <2>2, <3>2, <3>3 DEF Write
    <2>3. CASE k.doc # d
      BY <1>1, <1>3, <1>5, <2>1, <2>3 DEF Holds, Write
    <2> QED BY <2>2, <2>3
  <1>6. ASSUME k.op = "import", k.doc = None, k.file \notin over, NEW e \in DocIds,
               Holds(docs', e, k.file)
        PROVE  e \in deletedLate
    <2>1. Holds(docs, e, k.file) => e \in deletedLate
      BY <1>6 DEF Known
    <2>2. CASE e = d
      BY <1>1, <1>6, <2>1, <2>2 DEF Holds
    <2>3. CASE e # d
      BY <1>1, <1>6, <2>1, <2>3 DEF Holds
    <2> QED BY <2>2, <2>3
  <1> QED BY <1>4, <1>5, <1>6 DEF Known

\* What the end of a parse does is such a write.
LEMMA EffectWrites ==
    ASSUME DocTypeOK, NEW over, NEW q, Servable(q),
           Known(q, docs, issued, deletedLate, unfiled, over),
           NEW status, NEW blocks, Effect(q, status, blocks),
           ~UNCHANGED <<docs, issued, unfiled>>
    PROVE  \E d \in DocIds, x \in File \union {None}, filed \in BOOLEAN :
              /\ docs' = [docs EXCEPT ![d] = Stored(x, filed, status, blocks)]
              /\ Write(d, x, filed, over)
              /\ \/ q.op = "import" /\ x = q.file
                 \/ Holds(docs, d, x) \/ d \in deletedLate \/ x = None
  <1>1. PICK d \in DocIds, x \in File \union {None}, filed \in BOOLEAN :
          /\ docs' = [docs EXCEPT ![d] = Stored(x, filed, status, blocks)]
          /\ Target(q, d, x, filed)
    BY DEF Effect
  <1>2. None \notin DocIds
    BY DocumentsAssumption
  <1>3. CASE q.op = "upload"
    <2>1. /\ d = q.doc /\ x = q.file /\ filed = TRUE /\ UNCHANGED <<issued, unfiled>>
          /\ q.doc # None
      BY <1>1, <1>2, <1>3 DEF Target
    <2>2. /\ d <= issued
          /\ Holds(docs, d, x) \/ d \in deletedLate
          /\ docs[d].filed = filed \/ d \in deletedLate \/ d \in unfiled
      BY <1>3, <2>1 DEF Known
    <2>3. Write(d, x, filed, over)
      BY <1>3, <2>1, <2>2 DEF Write, Known
    <2> QED BY <1>1, <2>2, <2>3
  <1>4. CASE q.op = "reparse"
    <2>1. d = q.doc /\ d <= issued /\ UNCHANGED <<issued, unfiled>>
      BY <1>1, <1>2, <1>4 DEF Target, Known
    <2>2. \/ x = None /\ docs[d] = None
          \/ Holds(docs, d, x) /\ docs[d].filed = filed
      BY <1>1, <1>4, <2>1 DEF Target, Holds
    <2> QED BY <1>1, <2>1, <2>2 DEF Write
  <1>5. CASE q.op = "import"
    <2>1. /\ x = q.file /\ filed = FALSE
          /\ unfiled' = IF Present(d) /\ docs[d].filed THEN unfiled \union {d} ELSE unfiled
      BY <1>1, <1>5 DEF Target
    <2>2. CASE q.doc = None
      BY <1>1, <1>5, <2>1, <2>2 DEF Write, Known, Target
    <2>3. CASE q.doc # None
      <3>1. d = q.doc /\ issued' = issued /\ d <= issued
            /\ (Holds(docs, d, x) \/ d \in deletedLate)
        BY <1>1, <1>5, <2>1, <2>3 DEF Known, Target
      <3>2. docs[d].filed = filed \/ d \in deletedLate \/ d \in unfiled'
        BY <2>1, <3>1 DEF Holds, Present, DocTypeOK, Record
      <3> QED BY <1>1, <1>5, <2>1, <3>1, <3>2 DEF Write
    <2> QED BY <2>2, <2>3
  <1> QED BY <1>3, <1>4, <1>5 DEF Servable

LEMMA EffectRecords ==
    ASSUME DocTypeOK, NEW over, IdsIn(docs, issued, unfiled),
           OneIn(docs, deletedLate, unfiled, over),
           NEW q, Servable(q), Known(q, docs, issued, deletedLate, unfiled, over),
           NEW status \in Status, NEW blocks \in Content \union {None},
           Effect(q, status, blocks)
    PROVE  /\ IdsIn(docs', issued', unfiled') /\ OneIn(docs', deletedLate, unfiled', over)
           /\ unfiled \subseteq unfiled'
  <1>1. CASE UNCHANGED <<docs, issued, unfiled>>
    BY <1>1
  <1>2. CASE ~UNCHANGED <<docs, issued, unfiled>>
    <2>1. PICK d \in DocIds, x \in File \union {None}, filed \in BOOLEAN :
              /\ docs' = [docs EXCEPT ![d] = Stored(x, filed, status, blocks)]
              /\ Write(d, x, filed, over)
      BY <1>2, EffectWrites
    <2>2. unfiled \subseteq unfiled'
      BY <2>1 DEF Write
    <2> QED BY <2>1, <2>2, WriteRecords
  <1> QED BY <1>1, <1>2

LEMMA EffectKnown ==
    ASSUME DocTypeOK, NEW over,
           NEW q, Servable(q), Known(q, docs, issued, deletedLate, unfiled, over),
           NEW status \in Status, NEW blocks \in Content \union {None},
           Effect(q, status, blocks),
           NEW k, Servable(k), Known(k, docs, issued, deletedLate, unfiled, over),
           Rivals(q, k) => q.file \in over
    PROVE  Known(k, docs', issued', deletedLate, unfiled', over)
  <1>1. CASE UNCHANGED <<docs, issued, unfiled>>
    BY <1>1
  <1>2. CASE ~UNCHANGED <<docs, issued, unfiled>>
    <2>1. PICK d \in DocIds, x \in File \union {None}, filed \in BOOLEAN :
              /\ docs' = [docs EXCEPT ![d] = Stored(x, filed, status, blocks)]
              /\ Write(d, x, filed, over)
              /\ \/ q.op = "import" /\ x = q.file
                 \/ Holds(docs, d, x) \/ d \in deletedLate \/ x = None
      BY <1>2, EffectWrites
    <2>2. ASSUME k.op = "import", x = k.file, ~Holds(docs, d, x), d \notin deletedLate
          PROVE  x \in over
      <3>1. x # None
        BY <2>2, DocumentsAssumption DEF Servable
      <3>2. q.op = "import" /\ x = q.file
        BY <2>1, <2>2, <3>1
      <3> QED BY <2>2, <3>2 DEF Rivals
    <2> QED BY <2>1, <2>2, WriteKnown
  <1> QED BY <1>1, <1>2

\* What is known stays so as the histories grow.
LEMMA KnownGrows ==
    ASSUME NEW q, NEW over, NEW more, over \subseteq more, unfiled \subseteq unfiled',
           Known(q, docs, issued, deletedLate, unfiled, over)
    PROVE  Known(q, docs, issued, deletedLate, unfiled', more)
  BY DEF Known

\* The other requests are as they were, and this one is over or knows enough.
LEMMA KeepsRecords ==
    ASSUME TypedInv, RecordInv, NEW r \in Requests, NEW p,
           req' = [req EXCEPT ![r] = p],
           deletedLate' = deletedLate, overlapped \subseteq overlapped',
           IdsIn(docs', issued', unfiled'), OneIn(docs', deletedLate, unfiled', overlapped'),
           \A o \in Requests : o # r /\ InProgress(o) =>
              Known(req[o], docs', issued', deletedLate, unfiled', overlapped'),
           p.at \in {"reading", "parsing", "fetched"} =>
              /\ Known(p, docs', issued', deletedLate, unfiled', overlapped')
              /\ \A o \in Requests :
                    o # r /\ InProgress(o) /\ Rivals(p, req[o]) => p.file \in overlapped'
    PROVE  RecordInv'
  <1>1. req'[r] = p /\ \A o \in Requests : o # r => req'[o] = req[o]
    BY DEF TypedInv, DocTypeOK
  <1>2. ASSUME NEW o \in Requests, InProgress(o)'
        PROVE  Known(req'[o], docs', issued', deletedLate', unfiled', overlapped')
    BY <1>1, <1>2 DEF InProgress
  <1>3. ASSUME NEW o \in Requests, NEW e \in Requests, o # e,
               InProgress(o)', InProgress(e)', Rivals(req'[o], req'[e])
        PROVE  req'[o].file \in overlapped'
    <2>1. CASE o # r /\ e # r
      BY <1>1, <1>3, <2>1 DEF InProgress, RecordInv
    <2>2. CASE o = r
      BY <1>1, <1>3, <2>2 DEF InProgress
    <2>3. CASE e = r
      BY <1>1, <1>3, <2>3 DEF InProgress, Rivals
    <2> QED BY <2>1, <2>2, <2>3
  <1> QED BY <1>2, <1>3 DEF RecordInv

LEMMA EndedAs ==
    ASSUME NEW r, NEW q, Ended(r, q), q \in Request
    PROVE  \E p : req' = [req EXCEPT ![r] = p] /\ p.at = "done"
  <1>1. [q EXCEPT !.at = "done", !.bytes = None].at = "done"
    BY DEF Request
  <1> QED BY <1>1 DEF Ended

\* A request served as q: its parse ends.
LEMMA ServedRecords ==
    ASSUME TypedInv, RecordInv, NEW r \in Requests, NEW q, Servable(q),
           deletedLate' = deletedLate, overlapped \subseteq overlapped',
           Known(q, docs, issued, deletedLate, unfiled, overlapped'),
           \A o \in Requests :
              o # r /\ InProgress(o) /\ Rivals(q, req[o]) => q.file \in overlapped',
           NEW status \in Status, NEW blocks \in Content \union {None},
           Effect(q, status, blocks), Ended(r, q)
    PROVE  RecordInv'
  <1>1. PICK p : req' = [req EXCEPT ![r] = p] /\ p.at = "done"
    BY EndedAs DEF Servable
  <1>2. OneIn(docs, deletedLate, unfiled, overlapped')
    BY DEF RecordInv, OneIn
  <1>3. /\ IdsIn(docs', issued', unfiled') /\ OneIn(docs', deletedLate, unfiled', overlapped')
        /\ unfiled \subseteq unfiled'
    BY <1>2, EffectRecords DEF RecordInv, TypedInv
  <1>4. ASSUME NEW o \in Requests, o # r, InProgress(o)
        PROVE  Known(req[o], docs', issued', deletedLate, unfiled', overlapped')
    <2>1. Servable(req[o])
      BY <1>4, InProgressServable
    <2>2. Known(req[o], docs, issued, deletedLate, unfiled, overlapped')
      BY <1>4 DEF RecordInv, Known
    <2>3. Rivals(q, req[o]) => q.file \in overlapped'
      BY <1>4
    <2> QED BY <2>1, <2>2, <2>3, EffectKnown DEF TypedInv
  <1> QED BY <1>1, <1>3, <1>4, KeepsRecords

\* A request served as q: it goes on, as a request for the same record and file.
LEMMA GoesOnRecords ==
    ASSUME TypedInv, RecordInv, NEW r \in Requests, NEW q,
           deletedLate' = deletedLate, overlapped \subseteq overlapped',
           Known(q, docs, issued, deletedLate, unfiled, overlapped'),
           \A o \in Requests :
              o # r /\ InProgress(o) /\ Rivals(q, req[o]) => q.file \in overlapped',
           NEW p, p.op = q.op, p.doc = q.doc, p.file = q.file,
           req' = [req EXCEPT ![r] = p], UNCHANGED <<docs, issued, unfiled>>
    PROVE  RecordInv'
  <1>1. IdsIn(docs', issued', unfiled') /\ OneIn(docs', deletedLate, unfiled', overlapped')
    BY DEF RecordInv, OneIn
  <1>2. Known(p, docs', issued', deletedLate, unfiled', overlapped')
    BY DEF Known
  <1>3. \A o \in Requests : Rivals(p, req[o]) <=> Rivals(q, req[o])
    BY DEF Rivals
  <1>4. \A o \in Requests : InProgress(o) =>
           Known(req[o], docs', issued', deletedLate, unfiled', overlapped')
    BY DEF RecordInv, Known
  <1> QED BY <1>1, <1>2, <1>3, <1>4, KeepsRecords

LEMMA StartParseRecords ==
    ASSUME TypedInv, RecordInv, NEW r \in Requests, NEW q, Servable(q),
           deletedLate' = deletedLate, overlapped \subseteq overlapped',
           Known(q, docs, issued, deletedLate, unfiled, overlapped'),
           \A o \in Requests :
              o # r /\ InProgress(o) /\ Rivals(q, req[o]) => q.file \in overlapped',
           StartParse(r, q)
    PROVE  RecordInv'
  <1>1. CASE Finish(q, "pending_ai_extraction", None) /\ Ended(r, q)
    BY <1>1, FinishEffect, ServedRecords DEF TypedInv, Status
  <1>2. CASE Finish(q, "parsed", cache[q.file]) /\ Ended(r, q)
    <2>1. cache[q.file] \in Content \union {None}
      BY DEF TypedInv, DocTypeOK, Servable
    <2> QED BY <1>2, <2>1, FinishEffect, ServedRecords DEF TypedInv, Status
  <1>3. CASE /\ req' = [req EXCEPT ![r] = [q EXCEPT !.at = "parsing", !.bytes = None]]
             /\ UNCHANGED <<docs, counts, issued, unfiled, smooth>>
    <2> DEFINE p == [q EXCEPT !.at = "parsing", !.bytes = None]
    <2>1. p.op = q.op /\ p.doc = q.doc /\ p.file = q.file
      BY DEF Servable, Request
    <2>2. req' = [req EXCEPT ![r] = p]
      BY <1>3
    <2> HIDE DEF p
    <2> QED BY <1>3, <2>1, <2>2, GoesOnRecords
  <1> QED BY <1>1, <1>2, <1>3 DEF StartParse

LEMMA InProgressKnown ==
    ASSUME TypedInv, RecordInv, NEW r \in Requests, InProgress(r), overlapped' = overlapped
    PROVE  /\ Servable(req[r]) /\ req[r] \in Request
           /\ Known(req[r], docs, issued, deletedLate, unfiled, overlapped')
           /\ \A o \in Requests :
                 o # r /\ InProgress(o) /\ Rivals(req[r], req[o])
                    => req[r].file \in overlapped'
  BY InProgressServable DEF RecordInv, Servable

LEMMA ServeRecords ==
    ASSUME TypedInv, RecordInv, NEW r \in Requests, Serve(r)
    PROVE  RecordInv'
  <1>1. InProgress(r) /\ overlapped' = overlapped /\ deletedLate' = deletedLate
    BY DEF Serve, UploadStored, UploadRefused, Fetch, ParseOk, ParseFailed, InProgress
  <1>2. /\ Servable(req[r]) /\ req[r] \in Request
        /\ Known(req[r], docs, issued, deletedLate, unfiled, overlapped')
        /\ \A o \in Requests :
              o # r /\ InProgress(o) /\ Rivals(req[r], req[o])
                 => req[r].file \in overlapped'
    BY <1>1, InProgressKnown
  <1>3. CASE UploadStored(r)
    BY <1>1, <1>2, <1>3, StartParseRecords DEF UploadStored
  <1>4. CASE UploadRefused(r)
    <2>1. req[r].op = "upload" /\ req[r].doc \in DocIds
      BY <1>1, <1>4 DEF UploadRefused, TypedInv, RequestsOK
    <2>2. Effect(req[r], "failed", None)
      <3>1. Target(req[r], req[r].doc, req[r].file, TRUE)
        BY <1>4, <2>1 DEF UploadRefused, Target
      <3>2. req[r].file \in File \union {None} /\ TRUE \in BOOLEAN
        BY <1>2 DEF Servable
      <3> QED BY <1>4, <2>1, <3>1, <3>2 DEF UploadRefused, Effect
    <2> QED BY <1>1, <1>2, <1>4, <2>2, ServedRecords DEF UploadRefused, Status
  <1>5. CASE Fetch(r)
    <2> DEFINE p == [req[r] EXCEPT !.at = "fetched", !.bytes = object[req[r].file]]
    <2>1. p.op = req[r].op /\ p.doc = req[r].doc /\ p.file = req[r].file
      BY <1>2 DEF Request
    <2>2. req' = [req EXCEPT ![r] = p] /\ UNCHANGED <<docs, issued, unfiled>>
      BY <1>5 DEF Fetch, TypedInv, DocTypeOK
    <2> HIDE DEF p
    <2> QED BY <1>1, <1>2, <2>1, <2>2, GoesOnRecords
  <1>6. CASE ParseOk(r)
    <2>1. Finish(req[r], "parsed", req[r].bytes) /\ Ended(r, req[r])
      BY <1>6 DEF ParseOk
    <2>2. req[r].bytes \in Content \union {None}
      BY <1>2 DEF Request
    <2> QED BY <1>1, <1>2, <2>1, <2>2, FinishEffect, ServedRecords DEF TypedInv, Status
  <1>7. CASE ParseFailed(r)
    <2>1. Finish(req[r], "failed", None) /\ Ended(r, req[r])
      BY <1>7 DEF ParseFailed
    <2> QED BY <1>1, <1>2, <2>1, FinishEffect, ServedRecords DEF TypedInv, Status
  <1> QED BY <1>3, <1>4, <1>5, <1>6, <1>7 DEF Serve

LEMMA UploadBeginRecords ==
    ASSUME TypedInv, RecordInv, NEW r \in Requests, NEW f \in Uploads, NEW c \in Content,
           UploadBegin(r, f, c)
    PROVE  RecordInv'
  <1>1. PICK d \in DocIds :
           /\ IF FiledOf(f) = {} THEN FreshId(d) ELSE Reused(d, f)
           /\ docs' = [docs EXCEPT ![d] = Stored(f, TRUE, "pending", None)]
           /\ req' = [req EXCEPT ![r] =
                [op |-> "upload", at |-> "reading", doc |-> d, file |-> f,
                 bytes |-> c, first |-> FiledOf(f) = {}]]
    BY DEF UploadBegin
  <1> DEFINE p == [op |-> "upload", at |-> "reading", doc |-> d, file |-> f,
                   bytes |-> c, first |-> FiledOf(f) = {}]
  <1>2. f \in File /\ f # None /\ d # None
    BY FileFacts, DocumentsAssumption
  <1>a. overlapped \subseteq overlapped' /\ deletedLate' = deletedLate /\ unfiled' = unfiled
        /\ (Importing(f) => f \in overlapped')
    BY DEF UploadBegin
  <1>3. Write(d, f, TRUE, overlapped')
    <2>1. CASE FiledOf(f) = {}
      <3>1. d = issued + 1 /\ issued' = d
        BY <1>1, <2>1 DEF FreshId
      <3>2. \A e \in DocIds : ~(Holds(docs, e, f) /\ docs[e].filed = TRUE)
        BY <2>1 DEF FiledOf, RecordsOf, Holds, Present
      <3> QED BY <1>a, <3>1, <3>2 DEF Write
    <2>2. CASE Reused(d, f)
      <3>1. Holds(docs, d, f) /\ docs[d].filed = TRUE /\ d <= issued /\ issued' = issued
        BY <2>2 DEF Reused, FiledOf, RecordsOf, Holds, Present, RecordInv, IdsIn,
                    TypedInv, DocTypeOK, Record
      <3> QED BY <1>a, <3>1 DEF Write
    <2> QED BY <1>1, <2>1, <2>2
  <1>b. OneIn(docs, deletedLate, unfiled, overlapped')
    BY <1>a DEF RecordInv, OneIn
  <1>4. /\ Holds(docs', d, f) /\ docs'[d].filed = TRUE
        /\ IdsIn(docs', issued', unfiled') /\ OneIn(docs', deletedLate, unfiled', overlapped')
    <2>1. f \in File \union {None} /\ TRUE \in BOOLEAN /\ "pending" \in Status
          /\ None \in Content \union {None}
      BY <1>2 DEF Status
    <2> QED BY <1>1, <1>3, <1>b, <2>1, WrittenRecord, WriteRecords DEF RecordInv, TypedInv
  <1>5. ASSUME NEW o \in Requests, o # r, InProgress(o)
        PROVE  Known(req[o], docs', issued', deletedLate, unfiled', overlapped')
    <2>1. Servable(req[o]) /\ Known(req[o], docs, issued, deletedLate, unfiled, overlapped')
      BY <1>5, <1>a, InProgressServable, KnownGrows DEF RecordInv
    <2>2. req[o].op = "import" /\ f = req[o].file => f \in overlapped'
      BY <1>5, <1>a DEF Importing
    <2>3. f \in File \union {None} /\ TRUE \in BOOLEAN /\ "pending" \in Status
          /\ None \in Content \union {None}
      BY <1>2 DEF Status
    <2> QED BY <1>1, <1>3, <2>1, <2>2, <2>3, WriteKnown DEF TypedInv
  <1>6. p.op = "upload" /\ p.doc = d /\ p.file = f
    OBVIOUS
  <1>7. req' = [req EXCEPT ![r] = p]
    BY <1>1
  <1>8. d <= issued'
    BY <1>1, <1>4, <1>2 DEF IdsIn, Holds
  <1> HIDE DEF p
  <1>9. Known(p, docs', issued', deletedLate, unfiled', overlapped') /\ \A q : ~Rivals(p, q)
    BY <1>4, <1>6, <1>8 DEF Known, Rivals
  <1> QED BY <1>4, <1>5, <1>7, <1>9, <1>a, KeepsRecords

LEMMA ReparseBeginRecords ==
    ASSUME TypedInv, RecordInv, NEW r \in Requests, NEW d \in DocIds, ReparseBegin(r, d)
    PROVE  RecordInv'
  <1>1. Servable(Reparse(d)) /\ StartParse(r, Reparse(d))
    BY ReparseServable DEF ReparseBegin, Reparse, TypedInv
  <1>2. deletedLate' = deletedLate /\ overlapped' = overlapped /\ d <= issued
    BY DEF ReparseBegin, Present, RecordInv, IdsIn
  <1>3. Known(Reparse(d), docs, issued, deletedLate, unfiled, overlapped')
    BY <1>2 DEF Known, Reparse
  <1>4. \A k : ~Rivals(Reparse(d), k)
    BY DEF Rivals, Reparse
  <1> QED BY <1>1, <1>2, <1>3, <1>4, StartParseRecords

LEMMA ImportBeginRecords ==
    ASSUME TypedInv, RecordInv, NEW r \in Requests, NEW f \in References, ImportBegin(r, f)
    PROVE  RecordInv'
  <1>1. PICK hit \in RecordsOf(f) \union {None} :
           /\ hit = None => RecordsOf(f) = {}
           /\ \/ /\ Ended(r, Import(hit, f))
                 /\ UNCHANGED <<docs, counts, issued, unfiled, smooth>>
              \/ /\ FinishImport(Import(hit, f), "parsed", sentinel[f])
                 /\ Ended(r, Import(hit, f))
              \/ StartParse(r, Import(hit, f))
    BY DEF ImportBegin, Import
  <1> DEFINE q == Import(hit, f)
  <1>2. Servable(q)
    BY ImportServable DEF TypedInv
  <1>3. q.op = "import" /\ q.doc = hit /\ q.file = f
    BY DEF Import
  <1>4. deletedLate' = deletedLate /\ overlapped \subseteq overlapped'
    BY DEF ImportBegin
  <1>5. Known(q, docs, issued, deletedLate, unfiled, overlapped')
    <2> HIDE DEF q
    <2>1. CASE hit = None
      <3>1. \A d \in DocIds : ~Holds(docs, d, f)
        BY <1>1, <2>1 DEF RecordsOf, Holds, Present
      <3> QED BY <1>3, <2>1, <3>1 DEF Known
    <2>2. CASE hit \in RecordsOf(f)
      <3>1. Holds(docs, hit, f) /\ hit <= issued /\ hit # None
        BY <2>2, DocumentsAssumption DEF RecordsOf, Holds, Present, RecordInv, IdsIn
      <3> QED BY <1>3, <3>1 DEF Known
    <2> QED BY <1>1, <2>1, <2>2
  <1>6. \A o \in Requests :
           o # r /\ InProgress(o) /\ Rivals(q, req[o]) => q.file \in overlapped'
    BY <1>3 DEF ImportBegin, Importing, Rivals
  <1>7. CASE Ended(r, q) /\ UNCHANGED <<docs, counts, issued, unfiled, smooth>>
    <2>1. Effect(q, "parsed", None)
      BY <1>7 DEF Effect
    <2> QED BY <1>2, <1>4, <1>5, <1>6, <1>7, <2>1, ServedRecords DEF Status
  <1>8. CASE FinishImport(q, "parsed", sentinel[f]) /\ Ended(r, q)
    <2>1. sentinel[f] \in Content \union {None}
      BY DEF TypedInv, DocTypeOK
    <2>2. Effect(q, "parsed", sentinel[f])
      BY <1>2, <1>3, <1>8, FinishEffect DEF Finish, TypedInv
    <2> QED BY <1>2, <1>4, <1>5, <1>6, <1>8, <2>1, <2>2, ServedRecords DEF Status
  <1>9. CASE StartParse(r, q)
    BY <1>2, <1>4, <1>5, <1>6, <1>9, StartParseRecords
  <1> QED BY <1>1, <1>7, <1>8, <1>9

LEMMA DeleteRecords ==
    ASSUME TypedInv, RecordInv, NEW d \in DocIds, Delete(d)
    PROVE  RecordInv'
  <1>1. docs'[d] = None /\ \A e \in DocIds : e # d => docs'[e] = docs[e]
    BY DEF Delete, TypedInv, DocTypeOK
  <1>2. /\ req' = req /\ issued' = issued /\ overlapped' = overlapped /\ unfiled' = unfiled
        /\ deletedLate \subseteq deletedLate'
        /\ \A r \in Requests : InProgress(r) /\ req[r].doc = d => d \in deletedLate'
    BY DEF Delete, Writes
  <1>3. \A e \in DocIds, f \in File : Holds(docs', e, f) => Holds(docs, e, f)
    BY <1>1 DEF Holds
  <1>a. \A e, g \in DocIds, f \in File : Twins(docs', e, g, f) => Twins(docs, e, g, f)
    BY <1>1 DEF Twins, Holds
  <1>4. IdsIn(docs', issued', unfiled') /\ OneIn(docs', deletedLate', unfiled', overlapped')
    BY <1>1, <1>2, <1>a DEF RecordInv, IdsIn, OneIn
  <1>5. ASSUME NEW r \in Requests, InProgress(r)
        PROVE  Known(req[r], docs', issued, deletedLate', unfiled, overlapped)
    <2>1. Known(req[r], docs, issued, deletedLate, unfiled, overlapped)
      BY <1>5 DEF RecordInv
    <2>2. req[r].doc \in DocIds \union {None} /\ req[r].file \in File
      BY <1>5 DEF TypedInv, DocTypeOK, RequestsOK, Request
    <2>3. ASSUME req[r].doc # None, Holds(docs, req[r].doc, req[r].file)
          PROVE  \/ /\ Holds(docs', req[r].doc, req[r].file)
                    /\ docs'[req[r].doc] = docs[req[r].doc]
                 \/ req[r].doc \in deletedLate'
      BY <1>1, <1>2, <1>5, <2>2, <2>3 DEF Holds
    <2> QED BY <1>2, <1>3, <2>1, <2>2, <2>3 DEF Known
  <1> QED BY <1>2, <1>4, <1>5 DEF RecordInv, InProgress

\* What writes no record, and ends requests if it does anything to them.
LEMMA QuietRecords ==
    ASSUME TypedInv, RecordInv,
           UNCHANGED <<docs, issued, deletedLate, unfiled, overlapped>>,
           \A r \in Requests : InProgress(r)' => InProgress(r) /\ req'[r] = req[r]
    PROVE  RecordInv'
  <1>1. \A r \in Requests : InProgress(r)' =>
           Known(req'[r], docs', issued', deletedLate', unfiled', overlapped')
    BY DEF RecordInv
  <1> QED BY <1>1 DEF RecordInv

LEMMA OtherRecords ==
    ASSUME TypedInv, RecordInv,
           \/ \E r \in Requests : Dies(r)
           \/ \E f \in References, c \in Content : Prewarm(f, c)
           \/ \E f \in File : Expire(f)
           \/ Restart
           \/ UNCHANGED docVars
    PROVE  RecordInv'
  <1>1. UNCHANGED <<docs, issued, deletedLate, unfiled, overlapped>>
    BY DEF Dies, Prewarm, Expire, Restart, docVars
  <1>2. ASSUME NEW o \in Requests, InProgress(o)'
        PROVE  InProgress(o) /\ req'[o] = req[o]
    <2>1. ASSUME NEW r \in Requests, Dies(r)
          PROVE  InProgress(o) /\ req'[o] = req[o]
      <3>1. PICK p : req' = [req EXCEPT ![r] = p] /\ p.at = "done"
        BY <2>1, EndedAs DEF Dies, TypedInv, DocTypeOK
      <3> QED BY <1>2, <3>1 DEF InProgress, TypedInv, DocTypeOK
    <2>2. CASE Restart
      BY <1>2, <2>2 DEF Restart, InProgress, TypedInv, DocTypeOK, Request
    <2>3. CASE req' = req
      BY <1>2, <2>3 DEF InProgress
    <2> QED BY <2>1, <2>2, <2>3 DEF Prewarm, Expire, docVars
  <1> QED BY <1>1, <1>2, QuietRecords

\* Every step keeps what requests know of the records.
LEMMA RecordStep == TypedInv /\ RecordInv /\ [DocNext]_docVars => RecordInv'
  <1> SUFFICES ASSUME TypedInv, RecordInv, [DocNext]_docVars
               PROVE  RecordInv'
    OBVIOUS
  <1> QED BY UploadBeginRecords, ReparseBeginRecords, ImportBeginRecords, ServeRecords,
             DeleteRecords, OtherRecords
          DEF DocNext, DocStep

\* There is nothing to know at the start.
LEMMA RecordInit == DocInit => RecordInv
  BY DEF DocInit, RecordInv, IdsIn, OneIn, Twins, Holds, InProgress

\* Uploads, imports and reparses, however they are interleaved with deletions
\* and restarts, leave a file with one record in the folder and one outside it
\* at most, but for the cases the property names (upload.py:244-256,
\* import_by_reference.py:115-117).
THEOREM OneRecord == DocSpec => []OneRecordPerFile
  <1>1. TypedInv /\ RecordInv => OneRecordPerFile
    BY DEF RecordInv, OneIn, OneRecordPerFile, RecordsOf, Present, Holds, Twins
  <1> QED BY <1>1, TypedInit, TypedStep, RecordInit, RecordStep, PTL DEF DocSpec

-----------------------------------------------------------------------------
(* Pending records have writers *)

Pending(recs, d) == recs[d] # None /\ recs[d].status = "pending"

UploadOf(r, d) == Writes(r, d) /\ req[r].op = "upload"

\* One request changes: each pending record is one it uploads from now on, an
\* abandoned one, or was pending and another's.
LEMMA KeepsPending ==
    ASSUME TypedInv, PendingHasWriter, NEW r \in Requests, NEW p,
           req' = [req EXCEPT ![r] = p], abandoned \subseteq abandoned',
           \A d \in DocIds : Pending(docs', d) =>
              \/ p.at \in {"reading", "parsing", "fetched"} /\ p.op = "upload" /\ p.doc = d
              \/ d \in abandoned'
              \/ Pending(docs, d) /\ ~UploadOf(r, d)
    PROVE  PendingHasWriter'
  <1>1. req'[r] = p /\ \A o \in Requests : o # r => req'[o] = req[o]
    BY DEF TypedInv, DocTypeOK
  <1>2. ASSUME NEW d \in DocIds, Pending(docs', d), d \notin abandoned'
        PROVE  \E o \in Requests : Writes(o, d)' /\ req'[o].op = "upload"
    <2>1. CASE p.at \in {"reading", "parsing", "fetched"} /\ p.op = "upload" /\ p.doc = d
      BY <1>1, <2>1 DEF Writes, InProgress
    <2>2. CASE Pending(docs, d) /\ ~UploadOf(r, d)
      <3>1. PICK o \in Requests : Writes(o, d) /\ req[o].op = "upload"
        BY <1>2, <2>2 DEF PendingHasWriter, Pending, Present
      <3>2. o # r
        BY <2>2, <3>1 DEF UploadOf
      <3> QED BY <1>1, <3>1, <3>2 DEF Writes, InProgress
    <2> QED BY <1>2, <2>1, <2>2
  <1> QED BY <1>2 DEF PendingHasWriter, Pending, Present

\* The end of a parse leaves no record it writes pending, and an upload's parse
\* writes the upload's record.
LEMMA FinishPending ==
    ASSUME DocTypeOK, NEW q, Servable(q), NEW status \in Status, status # "pending",
           NEW blocks \in Content \union {None}, Finish(q, status, blocks),
           NEW d \in DocIds, Pending(docs', d)
    PROVE  Pending(docs, d) /\ ~(q.op = "upload" /\ q.doc = d)
  <1>1. CASE UNCHANGED <<docs, issued, unfiled>> /\ q.op # "upload"
    BY <1>1 DEF Pending
  <1>2. ASSUME NEW e \in DocIds, NEW x \in File \union {None}, NEW filed \in BOOLEAN,
               docs' = [docs EXCEPT ![e] = Stored(x, filed, status, blocks)],
               q.op = "upload" => e = q.doc
        PROVE  Pending(docs, d) /\ ~(q.op = "upload" /\ q.doc = d)
    <2>1. docs'[e].status = status /\ \A g \in DocIds : g # e => docs'[g] = docs[g]
      BY <1>2 DEF DocTypeOK, Stored
    <2>2. d # e
      BY <2>1 DEF Pending
    <2> QED BY <1>2, <2>1, <2>2 DEF Pending
  <1>3. CASE q.op = "upload"
    <2>1. docs' = [docs EXCEPT ![q.doc] = Stored(q.file, TRUE, status, blocks)]
      BY <1>3 DEF Finish, FinishUpload
    <2>2. q.doc \in DocIds /\ q.file \in File \union {None} /\ TRUE \in BOOLEAN
      BY <1>3 DEF Servable
    <2> QED BY <1>2, <2>1, <2>2
  <1>4. CASE q.op # "upload"
    <2>1. Effect(q, status, blocks)
      BY FinishEffect
    <2> QED BY <1>1, <1>2, <1>4, <2>1 DEF Effect
  <1> QED BY <1>3, <1>4

\* A request served as q, which uploads what the request uploaded.
LEMMA ServedPending ==
    ASSUME TypedInv, PendingHasWriter, NEW r \in Requests, NEW q, Servable(q),
           abandoned' = abandoned,
           \A d \in DocIds : UploadOf(r, d) => q.op = "upload" /\ q.doc = d,
           NEW status \in Status, status # "pending",
           NEW blocks \in Content \union {None},
           Finish(q, status, blocks), Ended(r, q)
    PROVE  PendingHasWriter'
  <1>1. PICK p : req' = [req EXCEPT ![r] = p] /\ p.at = "done"
    BY EndedAs DEF Servable
  <1>2. ASSUME NEW d \in DocIds, Pending(docs', d)
        PROVE  Pending(docs, d) /\ ~UploadOf(r, d)
    BY <1>2, FinishPending DEF TypedInv
  <1> QED BY <1>1, <1>2, KeepsPending

LEMMA StartParsePending ==
    ASSUME TypedInv, PendingHasWriter, NEW r \in Requests, NEW q, Servable(q),
           abandoned' = abandoned,
           \A d \in DocIds : UploadOf(r, d) => q.op = "upload" /\ q.doc = d,
           StartParse(r, q)
    PROVE  PendingHasWriter'
  <1>1. CASE Finish(q, "pending_ai_extraction", None) /\ Ended(r, q)
    BY <1>1, ServedPending DEF Status
  <1>2. CASE Finish(q, "parsed", cache[q.file]) /\ Ended(r, q)
    <2>1. cache[q.file] \in Content \union {None}
      BY DEF TypedInv, DocTypeOK, Servable
    <2> QED BY <1>2, <2>1, ServedPending DEF Status
  <1>3. CASE /\ req' = [req EXCEPT ![r] = [q EXCEPT !.at = "parsing", !.bytes = None]]
             /\ UNCHANGED <<docs, counts, issued, unfiled, smooth>>
    <2> DEFINE p == [q EXCEPT !.at = "parsing", !.bytes = None]
    <2>1. p.at = "parsing" /\ p.op = q.op /\ p.doc = q.doc
      BY DEF Servable, Request
    <2>2. req' = [req EXCEPT ![r] = p]
      BY <1>3
    <2>3. ASSUME NEW d \in DocIds, Pending(docs', d)
          PROVE  Pending(docs, d)
      BY <1>3, <2>3 DEF Pending
    <2> HIDE DEF p
    <2> QED BY <2>1, <2>2, <2>3, KeepsPending
  <1> QED BY <1>1, <1>2, <1>3 DEF StartParse

LEMMA ServePending ==
    ASSUME TypedInv, PendingHasWriter, NEW r \in Requests, Serve(r)
    PROVE  PendingHasWriter'
  <1>1. InProgress(r) /\ abandoned' = abandoned
    BY DEF Serve, UploadStored, UploadRefused, Fetch, ParseOk, ParseFailed, InProgress
  <1>2. Servable(req[r]) /\ req[r] \in Request
    BY <1>1, InProgressServable DEF Servable
  <1>3. \A d \in DocIds : UploadOf(r, d) => req[r].op = "upload" /\ req[r].doc = d
    BY DEF UploadOf, Writes
  <1>4. CASE UploadStored(r)
    BY <1>1, <1>2, <1>3, <1>4, StartParsePending DEF UploadStored
  <1>5. CASE UploadRefused(r)
    <2>1. /\ req[r].file \in File \union {None} /\ req[r].doc \in DocIds /\ TRUE \in BOOLEAN
          /\ "failed" \in Status /\ None \in Content \union {None}
      BY <1>1, <1>5 DEF UploadRefused, TypedInv, RequestsOK, Status
    <2>2. /\ docs'[req[r].doc].status = "failed"
          /\ \A e \in DocIds : e # req[r].doc => docs'[e] = docs[e]
      <3>1. docs' = [docs EXCEPT ![req[r].doc] = Stored(req[r].file, TRUE, "failed", None)]
        BY <1>5 DEF UploadRefused
      <3>2. DocTypeOK
        BY DEF TypedInv
      <3> QED BY <2>1, <3>1, <3>2 DEF DocTypeOK, Stored
    <2>3. PICK p : req' = [req EXCEPT ![r] = p] /\ p.at = "done"
      BY <1>2, <1>5, EndedAs DEF UploadRefused
    <2>4. ASSUME NEW d \in DocIds, Pending(docs', d)
          PROVE  Pending(docs, d) /\ ~UploadOf(r, d)
      BY <2>2, <2>4 DEF Pending, UploadOf, Writes
    <2> QED BY <1>1, <2>3, <2>4, KeepsPending
  <1>6. CASE Fetch(r)
    <2> DEFINE p == [req[r] EXCEPT !.at = "fetched", !.bytes = object[req[r].file]]
    <2>1. p.at = "fetched" /\ p.op = req[r].op /\ p.doc = req[r].doc
      BY <1>2 DEF Request
    <2>2. req' = [req EXCEPT ![r] = p] /\ docs' = docs
      BY <1>6 DEF Fetch, TypedInv, DocTypeOK
    <2> HIDE DEF p
    <2> QED BY <1>1, <1>3, <2>1, <2>2, KeepsPending
  <1>7. CASE ParseOk(r)
    <2>1. Finish(req[r], "parsed", req[r].bytes) /\ Ended(r, req[r])
      BY <1>7 DEF ParseOk
    <2>2. req[r].bytes \in Content \union {None}
      BY <1>2 DEF Request
    <2> QED BY <1>1, <1>2, <1>3, <2>1, <2>2, ServedPending DEF Status
  <1>8. CASE ParseFailed(r)
    <2>1. Finish(req[r], "failed", None) /\ Ended(r, req[r])
      BY <1>8 DEF ParseFailed
    <2> QED BY <1>1, <1>2, <1>3, <2>1, ServedPending DEF Status
  <1> QED BY <1>4, <1>5, <1>6, <1>7, <1>8 DEF Serve

LEMMA BeginPending ==
    ASSUME TypedInv, PendingHasWriter, NEW r \in Requests,
           \/ \E f \in Uploads, c \in Content : UploadBegin(r, f, c)
           \/ \E d \in DocIds : ReparseBegin(r, d)
           \/ \E f \in References : ImportBegin(r, f)
    PROVE  PendingHasWriter'
  <1>1. ASSUME NEW d \in DocIds PROVE ~UploadOf(r, d)
    BY DEF UploadBegin, ReparseBegin, ImportBegin, UploadOf, Writes, InProgress
  <1>2. ASSUME NEW f \in Uploads, NEW c \in Content, UploadBegin(r, f, c)
        PROVE  PendingHasWriter'
    <2>1. PICK d \in DocIds :
             /\ docs' = [docs EXCEPT ![d] = Stored(f, TRUE, "pending", None)]
             /\ req' = [req EXCEPT ![r] =
                  [op |-> "upload", at |-> "reading", doc |-> d, file |-> f,
                   bytes |-> c, first |-> FiledOf(f) = {}]]
      BY <1>2 DEF UploadBegin
    <2> DEFINE p == [op |-> "upload", at |-> "reading", doc |-> d, file |-> f,
                     bytes |-> c, first |-> FiledOf(f) = {}]
    <2>2. p.op = "upload" /\ p.at = "reading" /\ p.doc = d
      OBVIOUS
    <2>3. req' = [req EXCEPT ![r] = p] /\ abandoned' = abandoned
      BY <1>2, <2>1 DEF UploadBegin
    <2>4. ASSUME NEW e \in DocIds, Pending(docs', e), e # d
          PROVE  Pending(docs, e)
      BY <2>1, <2>4 DEF Pending, TypedInv, DocTypeOK
    <2> HIDE DEF p
    <2> QED BY <1>1, <2>2, <2>3, <2>4, KeepsPending
  <1>3. ASSUME NEW d \in DocIds, ReparseBegin(r, d)
        PROVE  PendingHasWriter'
    <2>1. Servable(Reparse(d)) /\ StartParse(r, Reparse(d)) /\ abandoned' = abandoned
      BY <1>3, ReparseServable DEF ReparseBegin, Reparse, TypedInv
    <2> QED BY <1>1, <2>1, StartParsePending
  <1>4. ASSUME NEW f \in References, ImportBegin(r, f)
        PROVE  PendingHasWriter'
    <2>1. PICK hit \in RecordsOf(f) \union {None} :
             \/ /\ Ended(r, Import(hit, f))
                /\ UNCHANGED <<docs, counts, issued, unfiled, smooth>>
             \/ /\ FinishImport(Import(hit, f), "parsed", sentinel[f])
                /\ Ended(r, Import(hit, f))
             \/ StartParse(r, Import(hit, f))
      BY <1>4 DEF ImportBegin, Import
    <2>2. Servable(Import(hit, f)) /\ Import(hit, f) \in Request
      BY ImportServable DEF TypedInv, Servable
    <2>3. abandoned' = abandoned
      BY <1>4 DEF ImportBegin
    <2>4. CASE Ended(r, Import(hit, f)) /\ UNCHANGED <<docs, counts, issued, unfiled, smooth>>
      <3>1. PICK p : req' = [req EXCEPT ![r] = p] /\ p.at = "done"
        BY <2>2, <2>4, EndedAs
      <3> QED BY <1>1, <2>3, <2>4, <3>1, KeepsPending
    <2>5. CASE FinishImport(Import(hit, f), "parsed", sentinel[f]) /\ Ended(r, Import(hit, f))
      <3>1. Finish(Import(hit, f), "parsed", sentinel[f])
        BY <2>5 DEF Finish, Import
      <3>2. sentinel[f] \in Content \union {None}
        BY DEF TypedInv, DocTypeOK
      <3> QED BY <1>1, <2>2, <2>3, <2>5, <3>1, <3>2, ServedPending DEF Status
    <2>6. CASE StartParse(r, Import(hit, f))
      BY <1>1, <2>2, <2>3, <2>6, StartParsePending
    <2> QED BY <2>1, <2>4, <2>5, <2>6
  <1> QED BY <1>2, <1>3, <1>4

LEMMA OtherPending ==
    ASSUME TypedInv, PendingHasWriter,
           \/ \E r \in Requests : Dies(r)
           \/ \E d \in DocIds : Delete(d)
           \/ \E f \in References, c \in Content : Prewarm(f, c)
           \/ \E f \in File : Expire(f)
           \/ Restart
           \/ UNCHANGED docVars
    PROVE  PendingHasWriter'
  <1>1. ASSUME NEW r \in Requests, Dies(r) PROVE PendingHasWriter'
    <2>1. InProgress(r) /\ abandoned' = abandoned \union ({req[r].doc} \ {None})
          /\ docs' = docs
      BY <1>1 DEF Dies
    <2>2. PICK p : req' = [req EXCEPT ![r] = p] /\ p.at = "done"
      BY <1>1, EndedAs DEF Dies, TypedInv, DocTypeOK
    <2>3. ASSUME NEW d \in DocIds, UploadOf(r, d) PROVE d \in abandoned'
      BY <2>1, <2>3, DocumentsAssumption DEF UploadOf, Writes
    <2>4. abandoned \subseteq abandoned'
      BY <2>1
    <2> QED BY <2>1, <2>2, <2>3, <2>4, KeepsPending
  <1>2. ASSUME NEW d \in DocIds, Delete(d) PROVE PendingHasWriter'
    <2>1. docs'[d] = None /\ \A e \in DocIds : e # d => docs'[e] = docs[e]
      BY <1>2 DEF Delete, TypedInv, DocTypeOK
    <2>2. req' = req /\ abandoned' = abandoned
      BY <1>2 DEF Delete
    <2>3. \A e \in DocIds, r \in Requests : Writes(r, e)' <=> Writes(r, e)
      BY <2>2 DEF Writes, InProgress
    <2> QED BY <2>1, <2>2, <2>3 DEF PendingHasWriter, Present
  <1>3. CASE Restart
    <2>1. docs' = docs /\ abandoned \subseteq abandoned'
          /\ \A d \in DocIds, r \in Requests : Writes(r, d) => d \in abandoned'
      BY <1>3 DEF Restart
    <2> QED BY <2>1 DEF PendingHasWriter, Present
  <1>4. CASE UNCHANGED <<docs, req, abandoned>>
    BY <1>4 DEF PendingHasWriter, Present, Writes, InProgress
  <1> QED BY <1>1, <1>2, <1>3, <1>4 DEF Prewarm, Expire, docVars

LEMMA PendingInit == DocInit => PendingHasWriter
  BY DEF DocInit, PendingHasWriter, Present

LEMMA PendingStep == TypedInv /\ PendingHasWriter /\ [DocNext]_docVars => PendingHasWriter'
  BY BeginPending, ServePending, OtherPending DEF DocNext, DocStep

\* No record is left pending but by an upload that is under way or that died:
\* neither an outcome of an upload, nor a reparse or a deletion in between
\* (upload.py, the flow of upload_document).
THEOREM PendingHasWriterAlways == DocSpec => []PendingHasWriter
  BY PendingInit, PendingStep, TypedInit, TypedStep, PTL DEF DocSpec

-----------------------------------------------------------------------------
(* What a folder counts *)

Final(f) == IF f \in Unparseable THEN "pending_ai_extraction" ELSE "parsed"

\* An upload that the folder has still to count, and the records of such ones.
FirstUpload(q) == q.at \in {"reading", "parsing", "fetched"} /\ q.op = "upload" /\ q.first
Owed == {d \in DocIds : \E r \in Requests : FirstUpload(req[r]) /\ req[r].doc = d}

Listed == {d \in DocIds : Present(d) /\ (docs[d].filed \/ d \in unfiled)}
Settled == Listed \ Owed
SettledParsed == {d \in Settled : docs[d].file \notin Unparseable}

\* What the folder has counted or is to count are documents that got an id.
BooksInv ==
    /\ \A r, o \in Requests :
          FirstUpload(req[r]) /\ FirstUpload(req[o]) /\ req[r].doc = req[o].doc => r = o
    /\ counts.parsed <= counts.docs
    /\ counts.docs + Cardinality(Owed) <= issued
    /\ \A r \in Requests : req[r].at \in {"parsing", "fetched"} => req[r].file \notin Unparseable

\* A record of a file the parser takes is parsed, or its upload is under way.
StatusOK(status, f) == f \notin Unparseable => status \in {"pending", "parsed"}

\* The record of a request is its file's, and an upload's counts as the folder's.
Kept(q) ==
    q.doc # None =>
       /\ Holds(docs, q.doc, q.file)
       /\ q.op = "upload" => q.doc \in Listed

FilesOK ==
    /\ abandoned = {}
    /\ \A r \in Requests : InProgress(r) => Kept(req[r])
    /\ \A d \in Listed : StatusOK(docs[d].status, docs[d].file)

Exact == counts.docs = Cardinality(Settled) /\ counts.parsed = Cardinality(SettledParsed)

FolderInv == BooksInv /\ (smooth => FilesOK /\ Exact)

LEMMA IdsFinite ==
    /\ \A S : S \subseteq DocIds => IsFiniteSet(S) /\ Cardinality(S) \in Nat
    /\ DocIds \subseteq Nat /\ None \notin DocIds
  <1>1. IsFiniteSet(DocIds)
    BY DocumentsAssumption, FS_Interval DEF DocIds
  <1> QED BY <1>1, FS_Subset, FS_CardinalityType, DocumentsAssumption DEF DocIds

\* One request changes; if it was a first upload and is none any more it may have been counted.
LEMMA BooksKeep ==
    ASSUME TypedInv, BooksInv, NEW r \in Requests, NEW p, req' = [req EXCEPT ![r] = p],
           counts' \in [docs : Nat, parsed : Nat], issued' \in Nat, issued <= issued',
           FirstUpload(p) => FirstUpload(req[r]) /\ p.doc = req[r].doc /\ counts' = counts,
           counts' = counts \/ (FirstUpload(req[r]) /\ counts'.docs = counts.docs + 1),
           counts'.parsed <= counts'.docs,
           p.at \in {"parsing", "fetched"} => p.file \notin Unparseable
    PROVE  BooksInv'
  <1>1. req'[r] = p /\ \A o \in Requests : o # r => req'[o] = req[o]
    BY DEF TypedInv, DocTypeOK
  <1>2. \A o, e \in Requests :
           FirstUpload(req'[o]) /\ FirstUpload(req'[e]) /\ req'[o].doc = req'[e].doc => o = e
    BY <1>1 DEF BooksInv
  <1>3. Owed' \subseteq Owed
    BY <1>1 DEF Owed
  <1>4. /\ IsFiniteSet(Owed) /\ Cardinality(Owed) \in Nat /\ Cardinality(Owed') \in Nat
        /\ Cardinality(Owed') <= Cardinality(Owed)
    BY <1>3, IdsFinite, FS_Subset DEF Owed
  <1>5. counts'.docs + Cardinality(Owed') <= issued'
    <2>1. counts.docs \in Nat /\ counts'.docs \in Nat /\ issued \in Nat
          /\ counts.docs + Cardinality(Owed) <= issued
      BY DocumentsAssumption DEF TypedInv, DocTypeOK, BooksInv
    <2>2. CASE counts' = counts
      BY <1>4, <2>1, <2>2
    <2>3. CASE FirstUpload(req[r]) /\ counts'.docs = counts.docs + 1
      <3>1. ~FirstUpload(p)
        BY <2>1, <2>3
      <3>2. PICK d : d = req[r].doc
        OBVIOUS
      <3>3. d \in DocIds
        BY <2>3, <3>2 DEF TypedInv, RequestsOK, FirstUpload, InProgress
      <3>4. d \in Owed
        BY <2>3, <3>2, <3>3 DEF Owed
      <3>5. d \notin Owed'
        BY <1>1, <2>3, <3>1, <3>2 DEF Owed, BooksInv
      <3>6. Owed' \subseteq Owed \ {d}
        BY <1>3, <3>5
      <3>7. IsFiniteSet(Owed \ {d}) /\ Cardinality(Owed \ {d}) = Cardinality(Owed) - 1
        BY <1>4, <3>4, FS_RemoveElement
      <3>8. Cardinality(Owed') <= Cardinality(Owed) - 1
        BY <3>6, <3>7, FS_Subset
      <3> QED BY <1>4, <2>1, <2>3, <3>8
    <2> QED BY <2>2, <2>3
  <1>6. \A o \in Requests : req'[o].at \in {"parsing", "fetched"} => req'[o].file \notin Unparseable
    BY <1>1 DEF BooksInv
  <1> QED BY <1>2, <1>5, <1>6 DEF BooksInv

\* The files of the records are as they were, and their statuses.
SameFiles ==
    /\ Listed' = Listed
    /\ \A d \in Listed : docs'[d].file = docs[d].file
    /\ \A d, f : Holds(docs, d, f) => Holds(docs', d, f)
    /\ \A d \in Listed : StatusOK(docs'[d].status, docs[d].file)

LEMMA Rewritten ==
    ASSUME DocTypeOK, \A d \in Listed : StatusOK(docs[d].status, docs[d].file),
           NEW d \in DocIds, NEW x \in File \union {None}, NEW filed \in BOOLEAN,
           NEW status \in Status, NEW blocks \in Content \union {None},
           docs' = [docs EXCEPT ![d] = Stored(x, filed, status, blocks)],
           unfiled \subseteq unfiled', unfiled' \subseteq unfiled \union {d},
           Holds(docs, d, x) \/ docs[d] = None,
           d \in Listed <=> filed \/ d \in unfiled',
           StatusOK(status, x)
    PROVE  SameFiles
  <1>1. /\ Holds(docs', d, x)
        /\ docs'[d].file = x
        /\ docs'[d].filed = filed
        /\ docs'[d].status = status
        /\ \A e \in DocIds : e # d => docs'[e] = docs[e]
    <2>1. /\ docs'[d] = Stored(x, filed, status, blocks)
          /\ \A e \in DocIds : e # d => docs'[e] = docs[e]
      BY DEF DocTypeOK
    <2>2. Stored(x, filed, status, blocks) # None
      BY StoredType, NoRecordAssumption
    <2> QED BY <2>1, <2>2 DEF Holds, Stored
  <1>2. ASSUME NEW e \in DocIds PROVE e \in Listed' <=> e \in Listed
    <2>1. CASE e = d
      BY <1>1, <2>1 DEF Holds, Listed, Present
    <2>2. CASE e # d
      BY <1>1, <2>2 DEF Listed, Present
    <2> QED BY <2>1, <2>2
  <1>3. Listed' = Listed
    BY <1>2 DEF Listed
  <1>4. \A e \in Listed : docs'[e].file = docs[e].file
    BY <1>1 DEF Listed, Present, Holds
  <1>5. \A e, f : Holds(docs, e, f) => Holds(docs', e, f)
    <2> SUFFICES ASSUME NEW e, NEW f, Holds(docs, e, f)
                 PROVE  Holds(docs', e, f)
      OBVIOUS
    <2>1. CASE e = d
      BY <1>1, <2>1 DEF Holds
    <2>2. CASE e # d
      <3>1. docs'[e] = docs[e]
        BY <2>2 DEF TypedInv, DocTypeOK
      <3> QED BY <3>1 DEF Holds
    <2> QED BY <2>1, <2>2
  <1>6. ASSUME NEW e \in Listed PROVE StatusOK(docs'[e].status, docs[e].file)
    <2>1. CASE e = d
      BY <1>1, <2>1 DEF Listed, Holds, Present
    <2>2. CASE e # d
      BY <1>1, <2>2 DEF Listed
    <2> QED BY <2>1, <2>2
  <1> QED BY <1>3, <1>4, <1>5, <1>6 DEF SameFiles

LEMMA FilesKeep ==
    ASSUME TypedInv, FilesOK, NEW r \in Requests, NEW p, req' = [req EXCEPT ![r] = p],
           SameFiles, abandoned' = abandoned,
           p.at \in {"reading", "parsing", "fetched"} => Kept(p)'
    PROVE  FilesOK'
  <1>1. req'[r] = p /\ \A o \in Requests : o # r => req'[o] = req[o]
    BY DEF TypedInv, DocTypeOK
  <1>2. ASSUME NEW o \in Requests, InProgress(o)'
        PROVE  Kept(req[o])'
    <2>1. CASE o = r
      BY <1>1, <1>2, <2>1 DEF InProgress, Kept
    <2>2. CASE o # r
      <3>1. Kept(req[o]) /\ req'[o] = req[o]
        BY <1>1, <1>2, <2>2 DEF FilesOK, InProgress
      <3> QED BY <3>1 DEF SameFiles, Kept
    <2> QED BY <2>1, <2>2
  <1>3. \A d \in Listed' : StatusOK(docs'[d].status, docs'[d].file)
    BY DEF SameFiles
  <1> QED BY <1>2, <1>3 DEF FilesOK, StatusOK, Kept

\* What is owed is as it was, and so is what is counted.
LEMMA ExactKeeps ==
    ASSUME Exact, SameFiles, Owed' = Owed, counts' = counts
    PROVE  Exact'
  <1>1. Settled' = Settled
    BY DEF SameFiles, Settled
  <1>2. SettledParsed' = SettledParsed
    BY <1>1 DEF SettledParsed, SameFiles, Settled
  <1> QED BY <1>1, <1>2 DEF Exact

\* A first upload that ends is counted, and no longer owed.
LEMMA ExactCounts ==
    ASSUME TypedInv, BooksInv, FilesOK, Exact, SameFiles,
           NEW r \in Requests, NEW p, req' = [req EXCEPT ![r] = p], FirstUpload(req[r]), ~FirstUpload(p),
           NEW status, status = Final(req[r].file), counts' = Counted(req[r], status)
    PROVE  Exact'
  <1>1. req'[r] = p /\ \A o \in Requests : o # r => req'[o] = req[o]
    BY DEF TypedInv, DocTypeOK
  <1>2. PICK d, f : d = req[r].doc /\ f = req[r].file
    OBVIOUS
  <1>3. d \in DocIds /\ f \in Uploads
    BY <1>2 DEF TypedInv, RequestsOK, FirstUpload, InProgress
  <1>4. Holds(docs, d, f)
    BY <1>2, <1>3, IdsFinite DEF FilesOK, Kept, FirstUpload, InProgress
  <1>5. d \in Listed /\ docs[d].file = f
    BY <1>2, <1>3, <1>4, IdsFinite DEF Holds, FilesOK, Kept, FirstUpload, InProgress
  <1>6. d \in Owed /\ Owed' = Owed \ {d}
    BY <1>1, <1>2, <1>3 DEF Owed, BooksInv
  <1>7. d \notin Settled /\ Settled' = Settled \union {d}
    BY <1>5, <1>6 DEF Settled, SameFiles
  <1>8. /\ f \in Unparseable => SettledParsed' = SettledParsed
        /\ f \notin Unparseable => SettledParsed' = SettledParsed \union {d}
        /\ d \notin SettledParsed
    BY <1>5, <1>7 DEF SettledParsed, SameFiles, Settled
  <1>9. /\ IsFiniteSet(Settled) /\ IsFiniteSet(SettledParsed)
        /\ Cardinality(Settled) \in Nat /\ Cardinality(SettledParsed) \in Nat
    BY IdsFinite DEF Settled, SettledParsed, Listed
  <1>10. Cardinality(Settled \union {d}) = Cardinality(Settled) + 1
    BY <1>7, <1>9, FS_AddElement
  <1>11. Cardinality(SettledParsed \union {d}) = Cardinality(SettledParsed) + 1
    BY <1>8, <1>9, FS_AddElement
  <1>12. /\ counts'.docs = counts.docs + 1
         /\ counts'.parsed = counts.parsed + (IF f \in Unparseable THEN 0 ELSE 1)
    BY <1>2 DEF Counted, FirstUpload, Final
  <1>13. counts'.docs = Cardinality(Settled')
    BY <1>7, <1>10, <1>12 DEF Exact
  <1>14. counts'.parsed = Cardinality(SettledParsed')
    BY <1>8, <1>9, <1>11, <1>12 DEF Exact
  <1> QED BY <1>13, <1>14 DEF Exact

\* A request served as q: it is under way, or begins and uploads nothing.
Serves(r, q) ==
    /\ Servable(q)
    /\ req[r] = q \/ (~FirstUpload(req[r]) /\ ~FirstUpload(q) /\ ~q.first)
    /\ q.op = "upload" => FirstUpload(req[r]) <=> q.first
    /\ q.doc # None => q.doc <= issued
    /\ smooth => Kept(q)

\* Its parse ends.
LEMMA ServedFolder ==
    ASSUME TypedInv, RecordInv, FolderInv, NEW r \in Requests, NEW q, Serves(r, q),
           NEW status \in Status, NEW blocks \in Content \union {None},
           status \in {Final(q.file), "failed"} \/ (q.op = "import" /\ status = "parsed"),
           Finish(q, status, blocks), Ended(r, q), abandoned' = abandoned
    PROVE  FolderInv'
  <1>1. PICK p : req' = [req EXCEPT ![r] = p] /\ p.at = "done"
    BY EndedAs DEF Serves, Servable
  <1>2. ~FirstUpload(p) /\ ~(p.at \in {"reading", "parsing", "fetched"})
    BY <1>1 DEF FirstUpload
  <1>3. /\ counts' \in [docs : Nat, parsed : Nat] /\ issued' \in 0 .. MaxDocs
    BY FinishType DEF TypedInv, Serves
  <1>4. issued \in Nat /\ issued' \in Nat /\ issued <= issued'
    <2>1. issued \in Nat /\ issued' \in Nat
      BY <1>3, DocumentsAssumption DEF TypedInv, DocTypeOK
    <2>2. issued' = issued \/ issued' = issued + 1
      BY DEF Finish, FinishUpload, FinishReparse, FinishImport, FreshId
    <2> QED BY <2>1, <2>2
  <1>5. counts' = counts \/ (q.op = "upload" /\ q.first /\ status # "failed" /\ counts' = Counted(q, status))
    BY DEF Finish, FinishUpload, FinishReparse, FinishImport, Counted
  <1>6. q.op = "upload" /\ q.first => FirstUpload(req[r]) /\ req[r] = q
    BY DEF Serves
  <1>7. BooksInv'
    <2>1. counts.parsed <= counts.docs /\ counts.docs \in Nat /\ counts.parsed \in Nat
      BY DEF FolderInv, BooksInv, TypedInv, DocTypeOK
    <2>2. counts' = counts \/ (FirstUpload(req[r]) /\ counts'.docs = counts.docs + 1)
      BY <1>5, <1>6 DEF Counted
    <2>3. counts'.parsed <= counts'.docs
      BY <1>5, <2>1 DEF Counted
    <2> QED BY <1>1, <1>2, <1>3, <1>4, <2>2, <2>3, BooksKeep DEF FolderInv
  <1>8. ASSUME smooth' PROVE FilesOK' /\ Exact'
    <2>1. smooth /\ FilesOK /\ Exact
      BY <1>8, Zenon DEF FolderInv, Finish, FinishUpload, FinishReparse, FinishImport
    <2>2. Kept(q)
      BY <2>1 DEF Serves
    <2>3. \A d \in Listed : StatusOK(docs[d].status, docs[d].file)
      BY <2>1 DEF FilesOK
    <2>4. q.op # "import" => status # "failed" /\ q.doc \in DocIds /\ q.doc # None
      BY <1>8, IdsFinite DEF Finish, FinishUpload, FinishReparse, Serves, Servable
    <2>6. SameFiles
      <3>1. CASE UNCHANGED <<docs, issued, unfiled>>
        BY <2>3, <3>1 DEF SameFiles, Listed, Present, Holds
      <3>2. CASE ~UNCHANGED <<docs, issued, unfiled>>
        <4>1. PICK d \in DocIds, x \in File \union {None}, filed \in BOOLEAN :
                 /\ docs' = [docs EXCEPT ![d] = Stored(x, filed, status, blocks)]
                 /\ Target(q, d, x, filed)
          BY <3>2, FinishEffect DEF Effect, TypedInv, Serves
        <4>2. IdsIn(docs, issued, unfiled)
          BY DEF RecordInv
        <4>3. unfiled \subseteq unfiled' /\ unfiled' \subseteq unfiled \union {d}
          BY <4>1 DEF Target
        <4>4. /\ Holds(docs, d, x) \/ docs[d] = None
              /\ x = q.file
              /\ d \in Listed <=> filed \/ d \in unfiled'
          <5>1. CASE q.op = "upload"
            <6>1. d = q.doc /\ x = q.file /\ filed = TRUE
              BY <4>1, <5>1 DEF Target
            <6> QED BY <2>2, <2>4, <5>1, <6>1 DEF Kept
          <5>2. CASE q.op = "reparse"
            <6>1. /\ d = q.doc /\ Holds(docs, d, q.file) /\ unfiled' = unfiled
                  /\ x = docs[d].file /\ filed = docs[d].filed
              BY <2>2, <2>4, <4>1, <5>2 DEF Kept, Target, Holds
            <6> QED BY <6>1 DEF Holds, Listed, Present
          <5>3. CASE q.op = "import"
            <6>1. /\ x = q.file /\ filed = FALSE
                  /\ unfiled' = IF Present(d) /\ docs[d].filed THEN unfiled \union {d} ELSE unfiled
                  /\ IF q.doc = None THEN d = issued + 1 ELSE d = q.doc
              BY <4>1, <5>3 DEF Target
            <6>2. CASE q.doc = None
              <7>1. d \notin unfiled /\ docs[d] = None
                BY <1>4, <4>2, <6>1, <6>2 DEF IdsIn
              <7> QED BY <6>1, <7>1 DEF Listed, Present
            <6>3. CASE q.doc # None
              <7>1. Holds(docs, d, x) /\ Present(d)
                BY <2>2, <6>1, <6>3 DEF Kept, Holds, Present
              <7> QED BY <6>1, <7>1 DEF Listed
            <6> QED BY <6>2, <6>3
          <5> QED BY <5>1, <5>2, <5>3 DEF Serves, Servable
        <4>5. status # "failed"
          <5>1. CASE q.op # "import"
            BY <2>4, <5>1
          <5>2. CASE q.op = "import"
            BY <3>2, <5>2 DEF Finish, FinishImport
          <5> QED BY <5>1, <5>2
        <4>6. StatusOK(status, x)
          BY <4>4, <4>5 DEF StatusOK, Final
        <4> QED BY <2>3, <4>1, <4>3, <4>4, <4>6, Rewritten DEF TypedInv
      <3> QED BY <3>1, <3>2
    <2>7. FilesOK'
      BY <1>1, <1>2, <2>1, <2>6, FilesKeep
    <2>8. CASE FirstUpload(req[r])
      <3>1. req[r] = q /\ q.op = "upload" /\ q.first
        BY <2>8 DEF Serves, FirstUpload
      <3>2. status = Final(q.file) /\ counts' = Counted(q, status)
        BY <1>8, <2>4, <3>1 DEF Finish, FinishUpload, Serves, Servable
      <3> QED BY <1>1, <1>2, <2>1, <2>6, <2>7, <2>8, <3>1, <3>2, ExactCounts DEF FolderInv
    <2>9. CASE ~FirstUpload(req[r])
      <3>1. counts' = counts
        BY <1>5, <1>6, <2>9
      <3>2. Owed' = Owed
        BY <1>1, <1>2, <2>9 DEF Owed, TypedInv, DocTypeOK
      <3> QED BY <2>1, <2>6, <2>7, <3>1, <3>2, ExactKeeps
    <2> QED BY <2>8, <2>9
  <1> QED BY <1>7, <1>8 DEF FolderInv

\* It goes on, as a request for the same record and file; an import or a reparse may begin so.
LEMMA GoesOnFolder ==
    ASSUME TypedInv, FolderInv, NEW r \in Requests, NEW q, Serves(r, q),
           NEW p, req' = [req EXCEPT ![r] = p], p.op = q.op, p.doc = q.doc, p.file = q.file,
           p.first = q.first, p.at \in {"parsing", "fetched"}, p.file \notin Unparseable,
           UNCHANGED <<docs, counts, issued, abandoned, unfiled, smooth>>
    PROVE  FolderInv'
  <1>1. FirstUpload(p) <=> FirstUpload(req[r])
    BY DEF Serves, FirstUpload
  <1>2. FirstUpload(p) => p.doc = req[r].doc
    BY <1>1 DEF Serves
  <1>3. BooksInv'
    <2>1. counts \in [docs : Nat, parsed : Nat] /\ issued \in Nat /\ counts.parsed <= counts.docs
      BY DocumentsAssumption DEF TypedInv, DocTypeOK, FolderInv, BooksInv
    <2>2. counts' = counts /\ issued' = issued /\ issued <= issued
      BY <2>1
    <2> QED BY <1>1, <1>2, <2>1, <2>2, BooksKeep DEF FolderInv
  <1>4. ASSUME smooth' PROVE FilesOK' /\ Exact'
    <2>1. FilesOK /\ Exact /\ smooth
      BY <1>4 DEF FolderInv
    <2>2. SameFiles
      BY <2>1 DEF FilesOK, SameFiles, Listed, Present, Holds
    <2>3. Owed' = Owed
      BY <1>1, <1>2 DEF Owed, TypedInv, DocTypeOK
    <2>4. Kept(p)'
      BY <2>1, <2>2 DEF Serves, Kept, SameFiles
    <2> QED BY <2>1, <2>2, <2>3, <2>4, FilesKeep, ExactKeeps
  <1> QED BY <1>3, <1>4 DEF FolderInv

LEMMA StartParseFolder ==
    ASSUME TypedInv, RecordInv, FolderInv, NEW r \in Requests, NEW q, Serves(r, q),
           StartParse(r, q), abandoned' = abandoned
    PROVE  FolderInv'
  <1>1. CASE q.file \in Unparseable /\ Finish(q, "pending_ai_extraction", None) /\ Ended(r, q)
    BY <1>1, ServedFolder DEF Status, Final
  <1>2. CASE q.file \notin Unparseable /\ Finish(q, "parsed", cache[q.file]) /\ Ended(r, q)
    <2>1. cache[q.file] \in Content \union {None}
      BY DEF TypedInv, DocTypeOK, Serves, Servable
    <2> QED BY <1>2, <2>1, ServedFolder DEF Status, Final
  <1>3. CASE /\ q.file \notin Unparseable
             /\ req' = [req EXCEPT ![r] = [q EXCEPT !.at = "parsing", !.bytes = None]]
             /\ UNCHANGED <<docs, counts, issued, unfiled, smooth>>
    <2>1. PICK p : p = [q EXCEPT !.at = "parsing", !.bytes = None]
      OBVIOUS
    <2>2. p.op = q.op /\ p.doc = q.doc /\ p.file = q.file /\ p.first = q.first /\ p.at = "parsing"
      BY <2>1 DEF Serves, Servable, Request
    <2>3. req' = [req EXCEPT ![r] = p]
      BY <1>3, <2>1
    <2> QED BY <1>3, <2>2, <2>3, GoesOnFolder
  <1> QED BY <1>1, <1>2, <1>3 DEF StartParse

LEMMA InProgressServes ==
    ASSUME TypedInv, RecordInv, FolderInv, NEW r \in Requests, InProgress(r)
    PROVE  Serves(r, req[r]) /\ req[r] \in Request
  <1>1. Servable(req[r]) /\ req[r] \in Request
    BY InProgressServable DEF Servable
  <1>2. req[r].op = "upload" => FirstUpload(req[r]) <=> req[r].first
    BY DEF FirstUpload, InProgress
  <1>3. req[r].doc # None => req[r].doc <= issued
    BY DEF RecordInv, Known
  <1>4. smooth => Kept(req[r])
    BY DEF FolderInv, FilesOK
  <1> QED BY <1>1, <1>2, <1>3, <1>4 DEF Serves

LEMMA ServeFolder ==
    ASSUME TypedInv, RecordInv, FolderInv, NEW r \in Requests, Serve(r)
    PROVE  FolderInv'
  <1>1. InProgress(r) /\ abandoned' = abandoned
    BY DEF Serve, UploadStored, UploadRefused, Fetch, ParseOk, ParseFailed, InProgress
  <1>2. Serves(r, req[r]) /\ req[r] \in Request /\ Servable(req[r])
    BY <1>1, InProgressServes DEF Serves
  <1>3. CASE UploadStored(r)
    BY <1>1, <1>2, <1>3, StartParseFolder DEF UploadStored
  <1>4. CASE UploadRefused(r)
    <2>1. PICK p : req' = [req EXCEPT ![r] = p] /\ p.at = "done"
      BY <1>2, <1>4, EndedAs DEF UploadRefused
    <2>2. counts' = counts /\ issued' = issued /\ ~smooth'
      BY <1>4 DEF UploadRefused
    <2>3. counts \in [docs : Nat, parsed : Nat] /\ issued \in Nat /\ counts.parsed <= counts.docs
      BY DocumentsAssumption DEF TypedInv, DocTypeOK, FolderInv, BooksInv
    <2>4. issued <= issued' /\ ~FirstUpload(p) /\ ~(p.at \in {"parsing", "fetched"})
      BY <2>1, <2>2, <2>3 DEF FirstUpload
    <2>5. BooksInv'
      BY <2>1, <2>2, <2>3, <2>4, BooksKeep DEF FolderInv
    <2> QED BY <2>2, <2>5 DEF FolderInv
  <1>5. CASE Fetch(r)
    <2>1. PICK p : p = [req[r] EXCEPT !.at = "fetched", !.bytes = object[req[r].file]]
      OBVIOUS
    <2>2. /\ p.op = req[r].op /\ p.doc = req[r].doc /\ p.file = req[r].file
          /\ p.first = req[r].first /\ p.at = "fetched"
      BY <1>2, <2>1 DEF Request
    <2>3. req' = [req EXCEPT ![r] = p] /\ UNCHANGED <<docs, counts, issued, abandoned, unfiled, smooth>>
      BY <1>5, <2>1 DEF Fetch, TypedInv, DocTypeOK
    <2>4. p.file \notin Unparseable
      BY <1>5, <2>2 DEF Fetch, FolderInv, BooksInv
    <2> QED BY <1>2, <2>2, <2>3, <2>4, GoesOnFolder
  <1>6. CASE ParseOk(r)
    <2>1. /\ Finish(req[r], "parsed", req[r].bytes) /\ Ended(r, req[r])
          /\ req[r].at \in {"parsing", "fetched"}
      BY <1>6 DEF ParseOk
    <2>2. req[r].bytes \in Content \union {None}
      BY <1>2 DEF Request
    <2>3. Final(req[r].file) = "parsed"
      BY <2>1 DEF Final, FolderInv, BooksInv
    <2> QED BY <1>1, <1>2, <2>1, <2>2, <2>3, ServedFolder DEF Status
  <1>7. CASE ParseFailed(r)
    <2>1. Finish(req[r], "failed", None) /\ Ended(r, req[r])
      BY <1>7 DEF ParseFailed
    <2> QED BY <1>1, <1>2, <2>1, ServedFolder DEF Status
  <1> QED BY <1>3, <1>4, <1>5, <1>6, <1>7 DEF Serve

\* A reparse or an import that begins.
LEMMA ParseBeginFolder ==
    ASSUME TypedInv, RecordInv, FolderInv, NEW r \in Requests,
           \/ \E d \in DocIds : ReparseBegin(r, d)
           \/ \E f \in References : ImportBegin(r, f)
    PROVE  FolderInv'
  <1>1. ~FirstUpload(req[r]) /\ abandoned' = abandoned
    BY DEF ReparseBegin, ImportBegin, FirstUpload
  <1>2. ASSUME NEW d \in DocIds, ReparseBegin(r, d) PROVE FolderInv'
    <2>1. PICK q : q = Reparse(d)
      OBVIOUS
    <2>2. Servable(q) /\ StartParse(r, q) /\ Present(d)
      BY <1>2, <2>1, ReparseServable DEF ReparseBegin, Reparse, TypedInv
    <2>3. q.op = "reparse" /\ q.doc = d /\ q.file = docs[d].file /\ ~q.first
      BY <2>1 DEF Reparse
    <2>4. Serves(r, q)
      BY <1>1, <2>2, <2>3 DEF Serves, FirstUpload, Kept, Holds, Present, RecordInv, IdsIn
    <2> QED BY <1>1, <2>2, <2>4, StartParseFolder
  <1>3. ASSUME NEW f \in References, ImportBegin(r, f) PROVE FolderInv'
    <2>1. PICK hit \in RecordsOf(f) \union {None} :
             \/ /\ Ended(r, Import(hit, f))
                /\ UNCHANGED <<docs, counts, issued, unfiled, smooth>>
             \/ /\ FinishImport(Import(hit, f), "parsed", sentinel[f])
                /\ Ended(r, Import(hit, f))
             \/ StartParse(r, Import(hit, f))
      BY <1>3 DEF ImportBegin, Import
    <2>2. PICK q : q = Import(hit, f)
      OBVIOUS
    <2>3. Servable(q) /\ q.op = "import" /\ q.doc = hit /\ q.file = f /\ ~q.first
      BY <2>2, ImportServable DEF Import, TypedInv
    <2>4. Serves(r, q)
      <3>1. hit # None => Holds(docs, hit, f) /\ hit <= issued
        BY DEF RecordsOf, Holds, Present, RecordInv, IdsIn
      <3> QED BY <1>1, <2>3, <3>1 DEF Serves, FirstUpload, Kept
    <2>5. q \in Request
      BY <2>3 DEF Servable
    <2>6. CASE Ended(r, q) /\ UNCHANGED <<docs, counts, issued, unfiled, smooth>>
      <3>1. PICK p : req' = [req EXCEPT ![r] = p] /\ p.at = "done"
        BY <2>5, <2>6, EndedAs
      <3>2. FolderInv'
        <4>1. Finish(q, "failed", None)
          BY <2>3, <2>6 DEF Finish, FinishImport
        <4> QED BY <1>1, <2>4, <2>5, <2>6, <4>1, ServedFolder DEF Status
      <3> QED BY <3>2
    <2>7. CASE FinishImport(q, "parsed", sentinel[f]) /\ Ended(r, q)
      <3>1. Finish(q, "parsed", sentinel[f])
        BY <2>3, <2>7 DEF Finish
      <3>2. sentinel[f] \in Content \union {None}
        BY DEF TypedInv, DocTypeOK
      <3> QED BY <1>1, <2>3, <2>4, <2>5, <2>7, <3>1, <3>2, ServedFolder DEF Status
    <2>8. CASE StartParse(r, q)
      BY <1>1, <2>4, <2>8, StartParseFolder
    <2> QED BY <2>1, <2>2, <2>6, <2>7, <2>8
  <1> QED BY <1>2, <1>3

LEMMA UploadBeginFolder ==
    ASSUME TypedInv, RecordInv, FolderInv, NEW r \in Requests, NEW f \in Uploads, NEW c \in Content,
           UploadBegin(r, f, c)
    PROVE  FolderInv'
  <1>1. PICK d \in DocIds :
           /\ IF FiledOf(f) = {} THEN FreshId(d) ELSE Reused(d, f)
           /\ docs' = [docs EXCEPT ![d] = Stored(f, TRUE, "pending", None)]
           /\ req' = [req EXCEPT ![r] =
                [op |-> "upload", at |-> "reading", doc |-> d, file |-> f,
                 bytes |-> c, first |-> FiledOf(f) = {}]]
    BY DEF UploadBegin
  <1>2. PICK p : p = [op |-> "upload", at |-> "reading", doc |-> d, file |-> f,
                      bytes |-> c, first |-> FiledOf(f) = {}]
    OBVIOUS
  <1>3. /\ req' = [req EXCEPT ![r] = p] /\ p.op = "upload" /\ p.at = "reading" /\ p.doc = d /\ p.file = f
        /\ p.first <=> FiledOf(f) = {}
    BY <1>1, <1>2
  <1>4. /\ UNCHANGED <<counts, abandoned, unfiled, smooth>> /\ ~FirstUpload(req[r]) /\ f \in File
        /\ counts \in [docs : Nat, parsed : Nat] /\ issued \in Nat /\ counts.parsed <= counts.docs
    BY FileFacts, DocumentsAssumption
       DEF UploadBegin, FirstUpload, TypedInv, DocTypeOK, FolderInv, BooksInv
  <1>5. req'[r] = p /\ \A o \in Requests : o # r => req'[o] = req[o]
    BY <1>3 DEF TypedInv, DocTypeOK
  <1>6. /\ docs'[d] # None /\ docs'[d].file = f /\ docs'[d].filed = TRUE
        /\ docs'[d].status = "pending"
        /\ \A e \in DocIds : e # d => docs'[e] = docs[e]
    <2>1. f \in File \union {None} /\ TRUE \in BOOLEAN /\ "pending" \in Status
          /\ None \in Content \union {None}
      BY <1>4 DEF Status
    <2>2. DocTypeOK
      BY DEF TypedInv
    <2>3. /\ Holds(docs', d, f)
          /\ docs'[d].file = f
          /\ docs'[d].filed = TRUE
          /\ docs'[d].status = "pending"
          /\ \A e \in DocIds : e # d => docs'[e] = docs[e]
      BY <1>1, <2>1, <2>2, WrittenRecord, Zenon
    <2> QED BY <2>3 DEF Holds
  <1>7. CASE FiledOf(f) = {}
    <2>1. d = issued + 1 /\ issued' = d /\ FirstUpload(p) /\ docs[d] = None
      BY <1>1, <1>3, <1>4, <1>7 DEF FreshId, FirstUpload, RecordInv, IdsIn
    <2>2. \A o \in Requests : FirstUpload(req[o]) => req[o].doc \in DocIds /\ req[o].doc <= issued
      BY IdsFinite DEF TypedInv, RequestsOK, RecordInv, Known, FirstUpload, InProgress
    <2>3. \A o \in Requests : FirstUpload(req[o]) => req[o].doc # d
      BY <1>4, <2>1, <2>2
    <2>4. d \notin Owed /\ Owed' = Owed \union {d}
      BY <1>3, <1>4, <1>5, <2>1, <2>3 DEF Owed
    <2>5. BooksInv'
      <3>1. \A o, e \in Requests :
               FirstUpload(req'[o]) /\ FirstUpload(req'[e]) /\ req'[o].doc = req'[e].doc => o = e
        BY <1>3, <1>5, <2>3 DEF FolderInv, BooksInv
      <3>2. IsFiniteSet(Owed) /\ Cardinality(Owed) \in Nat
        BY IdsFinite DEF Owed
      <3>3. Cardinality(Owed') = Cardinality(Owed) + 1
        BY <2>4, <3>2, FS_AddElement
      <3>4. counts'.docs + Cardinality(Owed') <= issued'
        <4>1. counts.docs \in Nat /\ counts.docs + Cardinality(Owed) <= issued
          BY <1>4 DEF FolderInv, BooksInv
        <4> QED BY <1>4, <2>1, <3>2, <3>3, <4>1
      <3>5. \A o \in Requests : req'[o].at \in {"parsing", "fetched"} => req'[o].file \notin Unparseable
        BY <1>3, <1>5 DEF FolderInv, BooksInv
      <3> QED BY <1>4, <3>1, <3>4, <3>5 DEF BooksInv
    <2>6. ASSUME smooth' PROVE FilesOK' /\ Exact'
      <3>1. FilesOK /\ Exact
        BY <1>4, <2>6 DEF FolderInv
      <3>2. Listed' = Listed \union {d} /\ d \notin Listed
        BY <1>4, <1>6, <2>1 DEF Listed, Present
      <3>3. Settled' = Settled
        BY <2>4, <3>2 DEF Settled
      <3>4. \A e \in Listed : docs'[e] = docs[e]
        BY <1>6, <3>2 DEF Listed
      <3>5. SettledParsed' = SettledParsed
        BY <3>3, <3>4 DEF SettledParsed, Settled
      <3>6. ASSUME NEW o \in Requests, InProgress(o)'
            PROVE  Kept(req[o])'
        <4>1. CASE o = r
          BY <1>3, <1>5, <1>6, <3>2, <4>1 DEF Holds, Kept
        <4>2. CASE o # r
          <5>1. req'[o] = req[o] /\ Kept(req[o]) /\ req[o].doc \in DocIds \union {None}
            BY <1>5, <3>1, <3>6, <4>2 DEF FilesOK, InProgress, TypedInv, DocTypeOK, Request
          <5> QED BY <1>6, <2>1, <3>2, <5>1 DEF Holds, Kept
        <4> QED BY <4>1, <4>2
      <3>7. \A e \in Listed' : StatusOK(docs'[e].status, docs'[e].file)
        BY <1>6, <3>1, <3>2, <3>4 DEF FilesOK, StatusOK
      <3>8. FilesOK'
        BY <1>4, <3>1, <3>6, <3>7 DEF FilesOK, Kept, StatusOK
      <3> QED BY <1>4, <3>1, <3>3, <3>5, <3>8 DEF Exact
    <2> QED BY <2>5, <2>6 DEF FolderInv
  <1>8. CASE FiledOf(f) # {}
    <2>1. issued' = issued /\ ~FirstUpload(p) /\ Holds(docs, d, f) /\ d \in Listed
      BY <1>1, <1>3, <1>8 DEF Reused, FirstUpload, FiledOf, RecordsOf, Present, Holds, Listed
    <2>2. BooksInv'
      <3>1. issued <= issued' /\ issued' \in Nat /\ ~(p.at \in {"parsing", "fetched"})
        BY <1>3, <1>4, <2>1
      <3> QED BY <1>3, <1>4, <2>1, <3>1, BooksKeep DEF FolderInv
    <2>3. ASSUME smooth' PROVE FilesOK' /\ Exact'
      <3>1. FilesOK /\ Exact
        BY <1>4, <2>3 DEF FolderInv
      <3>2. SameFiles
        <4>1. /\ f \in File \union {None} /\ TRUE \in BOOLEAN
              /\ "pending" \in Status /\ None \in Content \union {None}
              /\ \A e \in Listed : StatusOK(docs[e].status, docs[e].file)
              /\ StatusOK("pending", f)
          BY <1>4, <3>1 DEF Status, FilesOK, StatusOK
        <4>2. unfiled \subseteq unfiled' /\ unfiled' \subseteq unfiled \union {d}
          BY <1>4
        <4> QED BY <1>1, <2>1, <4>1, <4>2, Rewritten DEF TypedInv
      <3>3. Kept(p)'
        BY <1>3, <1>6, <2>1, <3>2 DEF Holds, Kept, SameFiles
      <3>4. Owed' = Owed
        BY <1>3, <1>4, <1>5, <2>1 DEF Owed
      <3> QED BY <1>3, <1>4, <3>1, <3>2, <3>3, <3>4, FilesKeep, ExactKeeps
    <2> QED BY <2>2, <2>3 DEF FolderInv
  <1> QED BY <1>7, <1>8

LEMMA OtherFolder ==
    ASSUME TypedInv, FolderInv,
           \/ \E r \in Requests : Dies(r)
           \/ \E d \in DocIds : Delete(d)
           \/ \E f \in References, c \in Content : Prewarm(f, c)
           \/ \E f \in File : Expire(f)
           \/ Restart
           \/ UNCHANGED docVars
    PROVE  FolderInv'
  <1>1. counts \in [docs : Nat, parsed : Nat] /\ issued \in Nat /\ counts.parsed <= counts.docs
    BY DocumentsAssumption DEF TypedInv, DocTypeOK, FolderInv, BooksInv
  <1>2. ASSUME NEW r \in Requests, Dies(r) PROVE FolderInv'
    <2>1. PICK p : req' = [req EXCEPT ![r] = p] /\ p.at = "done"
      BY <1>2, EndedAs DEF Dies, TypedInv, DocTypeOK
    <2>2. counts' = counts /\ issued' = issued /\ ~smooth'
      BY <1>2 DEF Dies
    <2>3. issued <= issued' /\ ~FirstUpload(p) /\ ~(p.at \in {"parsing", "fetched"})
      BY <1>1, <2>1, <2>2 DEF FirstUpload
    <2> QED BY <1>1, <2>1, <2>2, <2>3, BooksKeep DEF FolderInv
  <1>3. ASSUME NEW d \in DocIds, Delete(d) PROVE FolderInv'
    <2>1. UNCHANGED <<counts, req, issued>> /\ ~smooth'
      BY <1>3 DEF Delete
    <2>2. Owed' = Owed
      BY <2>1 DEF Owed
    <2> QED BY <2>1, <2>2 DEF FolderInv, BooksInv
  <1>4. CASE Restart
    <2>1. \A r \in Requests : ~FirstUpload(req'[r]) /\ req'[r].at \notin {"parsing", "fetched"}
      BY <1>4 DEF Restart, InProgress, FirstUpload, TypedInv, DocTypeOK, Request
    <2>2. Owed' = {} /\ UNCHANGED <<docs, counts, issued>>
      BY <1>4, <2>1 DEF Owed, Restart
    <2>3. BooksInv'
      <3>1. Cardinality(Owed') = 0
        BY <2>2, FS_EmptySet
      <3>2. Cardinality(Owed) \in Nat
        BY IdsFinite DEF Owed
      <3> QED BY <1>1, <2>1, <2>2, <3>1, <3>2 DEF FolderInv, BooksInv
    <2>4. ASSUME smooth' PROVE FilesOK' /\ Exact'
      <3>1. smooth /\ \A r \in Requests : ~InProgress(r)
        BY <1>4, <2>4, Zenon DEF Restart
      <3>2. /\ FilesOK /\ Exact /\ abandoned' = {} /\ Owed = {}
            /\ \A r \in Requests : req'[r] = req[r]
        BY <1>4, <3>1 DEF Restart, FolderInv, FilesOK, Writes, Owed, FirstUpload, InProgress
      <3>3. Listed' = Listed
        BY <1>4, <2>2 DEF Listed, Present, Restart
      <3>4. Settled' = Settled
        BY <2>2, <3>2, <3>3 DEF Settled
      <3>5. Exact'
        BY <2>2, <3>2, <3>4 DEF Exact, SettledParsed
      <3>6. FilesOK'
        BY <2>2, <3>1, <3>2, <3>3 DEF FilesOK, InProgress, StatusOK
      <3> QED BY <3>5, <3>6
    <2> QED BY <2>3, <2>4 DEF FolderInv
  <1>5. CASE UNCHANGED <<docs, counts, req, issued, abandoned, unfiled, smooth>>
    <2>1. Listed' = Listed /\ Owed' = Owed
      BY <1>5 DEF Listed, Owed, Present
    <2>2. Settled' = Settled
      BY <2>1 DEF Settled
    <2>3. BooksInv' /\ (Exact => Exact') /\ (FilesOK => FilesOK')
      BY <1>5, <2>1, <2>2 DEF FolderInv, BooksInv, Exact, SettledParsed, FilesOK, InProgress,
         Kept, Holds, StatusOK
    <2> QED BY <1>5, <2>3 DEF FolderInv
  <1> QED BY <1>2, <1>3, <1>4, <1>5 DEF Prewarm, Expire, docVars

LEMMA FolderStep == TypedInv /\ RecordInv /\ FolderInv /\ [DocNext]_docVars => FolderInv'
  <1> SUFFICES ASSUME TypedInv, RecordInv, FolderInv, [DocNext]_docVars
               PROVE  FolderInv'
    OBVIOUS
  <1> QED BY UploadBeginFolder, ParseBeginFolder, ServeFolder, OtherFolder DEF DocNext, DocStep

LEMMA FolderInit == DocInit => FolderInv
  <1> SUFFICES ASSUME DocInit PROVE FolderInv
    OBVIOUS
  <1>1. Owed = {} /\ Listed = {}
    BY DEF DocInit, Owed, Listed, Present, FirstUpload
  <1>2. Settled = {} /\ SettledParsed = {}
    BY <1>1 DEF Settled, SettledParsed
  <1>3. Cardinality({}) = 0
    BY FS_EmptySet
  <1>4. BooksInv
    BY <1>1, <1>3 DEF DocInit, BooksInv, FirstUpload
  <1>5. FilesOK
    BY <1>1 DEF DocInit, FilesOK, InProgress
  <1> QED BY <1>2, <1>3, <1>4, <1>5 DEF FolderInv, Exact, DocInit

\* A folder counts no document that it was not given; and exactly its records, those that an
\* import took out of it included, and the parsed ones of a type the parser takes, as long as
\* nothing is deleted, fails or dies (upload.py:322-333).
THEOREM FolderTheorem == DocSpec => []FolderCounts
  <1>1. TypedInv /\ PendingHasWriter /\ FolderInv => FolderCounts
    <2> SUFFICES ASSUME TypedInv, PendingHasWriter, FolderInv PROVE FolderCounts
      OBVIOUS
    <2>1. counts.docs <= issued /\ counts.parsed <= counts.docs
      <3>1. Cardinality(Owed) \in Nat
        BY IdsFinite DEF Owed
      <3> QED BY <3>1, DocumentsAssumption DEF FolderInv, BooksInv, TypedInv, DocTypeOK
    <2>2. ASSUME smooth, \A r \in Requests : ~InProgress(r)
          PROVE  counts = [docs |-> Cardinality(Listed),
                           parsed |-> Cardinality({d \in Listed :
                               /\ docs[d].status = "parsed"
                               /\ docs[d].file \notin Unparseable})]
      <3>1. Owed = {} /\ Settled = Listed
        BY <2>2 DEF Owed, Settled, FirstUpload, InProgress
      <3>2. ASSUME NEW d \in Listed, docs[d].file \notin Unparseable
            PROVE  docs[d].status = "parsed"
        <4>1. docs[d].status # "pending"
          BY <2>2 DEF PendingHasWriter, FolderInv, FilesOK, Listed, Writes
        <4> QED BY <2>2, <3>2, <4>1 DEF FolderInv, FilesOK, StatusOK
      <3>3. SettledParsed = {d \in Listed :
                /\ docs[d].status = "parsed"
                /\ docs[d].file \notin Unparseable}
        BY <3>1, <3>2 DEF SettledParsed
      <3>4. counts = [docs |-> counts.docs, parsed |-> counts.parsed]
        BY DEF TypedInv, DocTypeOK
      <3> QED BY <2>2, <3>1, <3>3, <3>4 DEF FolderInv, Exact
    <2> QED BY <2>1, <2>2 DEF FolderCounts, Listed
  <1> QED BY <1>1, TypedInit, TypedStep, RecordInit, RecordStep, PendingInit, PendingStep,
             FolderInit, FolderStep, PTL DEF DocSpec

-----------------------------------------------------------------------------
(* What the model is shown of a session's documents, for any documents,    *)
(* number of turns and choice of services.                                 *)

\* What the loader has still to do accounts for what is missing: an attached
\* document has its artifact, is in error or still to load, and one that could be read all
\* along without a fault has its artifact or is still to load.
LoaderInv ==
    /\ \A d \in readable : HasBlocks(d)
    /\ turn.at = "loading" =>
          \A d \in turn.state.attached :
             /\ d \in Injectable \union turn.state.errors \union turn.todo
             /\ d \in readable /\ d \notin faulty => d \in Injectable \union turn.todo
    /\ NoSilentLoss
    /\ SelfHeals

SessionInv == TypedInv /\ TypeOK /\ LoaderInv

NotHere == UNCHANGED docVars

-----------------------------------------------------------------------------

LEMMA TurnBeginKeeps ==
    ASSUME SessionInv, NotHere, NEW named \in SUBSET (1 .. issued), TurnBegin(named)
    PROVE  TypeOK' /\ LoaderInv'
  <1>1. PICK unread \in SUBSET stored.loaded :
           LET attached == IF named = {} THEN stored.attached ELSE named
               loaded == Verified(unread)
           IN  /\ turn' = [at |-> "loading", context |-> {},
                           state |-> [attached |-> attached, loaded |-> loaded,
                                      errors |-> stored.errors],
                           todo |-> ToLoad(attached, loaded)]
               /\ readable' = {d \in attached : HasBlocks(d)}
               /\ faulty' = {} /\ skipped' = {}
    BY DEF TurnBegin
  <1> DEFINE attached == IF named = {} THEN stored.attached ELSE named
  <1> DEFINE loaded == Verified(unread)
  <1>2. turns' = turns + 1 /\ turns < MaxTurns /\ UNCHANGED <<stored, artifact>>
    BY DEF TurnBegin
  <1>3. 1 .. issued \subseteq DocIds /\ turns' \in 0 .. MaxTurns
    BY <1>2, ContextAssumption, DocumentsAssumption
       DEF SessionInv, TypeOK, DocTypeOK, DocIds
  <1>4. attached \subseteq DocIds /\ loaded \subseteq DocIds
    BY <1>3 DEF SessionInv, TypeOK, State, Verified
  <1>5. \A d \in loaded : artifact[d] # None
    BY DEF Verified
  <1>6. /\ turn' = [at |-> "loading", context |-> {},
                    state |-> [attached |-> attached, loaded |-> loaded,
                               errors |-> stored.errors],
                    todo |-> ToLoad(attached, loaded)]
        /\ readable' = {d \in attached : HasBlocks(d)}
        /\ faulty' = {} /\ skipped' = {}
    BY <1>1
  <1> HIDE DEF attached, loaded
  <1>7. turn' \in Turn
    BY <1>4, <1>6 DEF SessionInv, TypeOK, State, Turn, ToLoad
  <1>8. TypeOK'
    BY <1>2, <1>3, <1>4, <1>6, <1>7 DEF SessionInv, TypeOK, NotHere, docVars, DocTypeOK
  <1>9. docs' = docs
    BY DEF NotHere, docVars
  <1> QED BY <1>2, <1>5, <1>6, <1>8, <1>9
          DEF LoaderInv, NoSilentLoss, SelfHeals, Injectable, ToLoad, HasBlocks, Present

LEMMA LoadKeeps ==
    ASSUME SessionInv, NotHere, NEW d \in DocIds, LoadOk(d) \/ LoadFailed(d)
    PROVE  TypeOK' /\ LoaderInv'
  <1>1. docs' = docs /\ DocTypeOK'
    BY DEF NotHere, docVars, SessionInv, TypeOK, DocTypeOK
  <1>2. turn \in Turn /\ artifact \in [DocIds -> Content \union {None}]
    BY DEF SessionInv, TypeOK
  <1>3. CASE LoadOk(d)
    <2>1. docs[d].blocks \in Content /\ docs[d].blocks # None
      BY <1>3 DEF LoadOk, HasBlocks, Present, SessionInv, TypedInv, DocTypeOK, Record
    <2>2. /\ artifact' \in [DocIds -> Content \union {None}]
          /\ artifact'[d] # None
          /\ \A e \in DocIds : e # d => artifact'[e] = artifact[e]
      BY <1>2, <1>3, <2>1 DEF LoadOk
    <2>3. /\ turn'.at = "loading" /\ turn'.state.attached = turn.state.attached
          /\ turn'.todo = turn.todo \ {d}
          /\ turn'.state.loaded = turn.state.loaded \union {d}
          /\ turn'.state.errors = turn.state.errors \ {d}
          /\ turn'.context = turn.context
          /\ turn' \in Turn
      BY <1>2, <1>3 DEF LoadOk, Turn, State
    <2>4. TypeOK'
      BY <1>1, <1>3, <2>2, <2>3 DEF LoadOk, SessionInv, TypeOK
    <2>5. turn.at = "loading" /\ UNCHANGED <<readable, faulty, skipped>>
          /\ turn.state.loaded \subseteq DocIds
      BY <1>2, <1>3 DEF LoadOk, Turn, State
    <2> QED BY <1>1, <2>2, <2>3, <2>4, <2>5
            DEF SessionInv, LoaderInv, NoSilentLoss, SelfHeals, Injectable, HasBlocks, Present
  <1>4. CASE LoadFailed(d)
    <2>1. /\ turn'.at = "loading" /\ turn'.state.attached = turn.state.attached
          /\ turn'.todo = turn.todo \ {d}
          /\ turn'.state.loaded = turn.state.loaded
          /\ turn'.state.errors = turn.state.errors \union {d}
          /\ turn' \in Turn
      BY <1>2, <1>4 DEF LoadFailed, Turn, State
    <2>2. turn.at = "loading" /\ UNCHANGED <<stored, artifact, turns, readable, skipped>>
      BY <1>4 DEF LoadFailed
    <2>3. faulty' \subseteq DocIds /\ faulty \subseteq faulty' /\ (HasBlocks(d) => d \in faulty')
      BY <1>4 DEF LoadFailed, SessionInv, TypeOK
    <2>4. TypeOK'
      BY <1>1, <2>1, <2>2, <2>3 DEF SessionInv, TypeOK
    <2> QED BY <1>1, <2>1, <2>2, <2>3, <2>4
            DEF SessionInv, LoaderInv, NoSilentLoss, SelfHeals, Injectable, HasBlocks, Present
  <1> QED BY <1>3, <1>4

LEMMA InjectKeeps ==
    ASSUME SessionInv, NotHere, Inject
    PROVE  TypeOK' /\ LoaderInv'
  <1>1. docs' = docs /\ DocTypeOK'
    BY DEF NotHere, docVars, SessionInv, TypeOK, DocTypeOK
  <1>2. turn \in Turn
    BY DEF SessionInv, TypeOK
  <1>3. PICK unread \in SUBSET Injectable :
           /\ turn' = [turn EXCEPT !.at = "model", !.context = Injectable \ unread]
           /\ skipped' = unread
    BY DEF Inject
  <1>4. /\ turn.at = "loading" /\ turn.todo = {} /\ stored' = turn.state
        /\ UNCHANGED <<artifact, turns, readable, faulty>>
    BY DEF Inject
  <1>5. Injectable \subseteq DocIds /\ skipped' \subseteq DocIds
    BY <1>2, <1>3 DEF Injectable, Turn, State
  <1>6. /\ turn'.at = "model" /\ turn'.state = turn.state
        /\ turn'.context = Injectable \ skipped'
        /\ turn' \in Turn
    BY <1>2, <1>3, <1>5 DEF Turn, State
  <1>7. TypeOK'
    BY <1>1, <1>2, <1>4, <1>5, <1>6 DEF SessionInv, TypeOK, Turn
  <1>8. NoSilentLoss' /\ SelfHeals'
    BY <1>4, <1>6 DEF SessionInv, LoaderInv, NoSilentLoss, SelfHeals
  <1> QED BY <1>1, <1>4, <1>6, <1>7, <1>8
          DEF SessionInv, LoaderInv, HasBlocks, Present

LEMMA NoTurnTyped == NoTurn \in Turn /\ NoState \in State /\ NoTurn.at = "idle"
  BY DEF NoTurn, NoState, Turn, State

LEMMA IdleKeeps ==
    ASSUME SessionInv, NotHere, TurnEnd \/ OtherSessionWrites \/ UNCHANGED sessionVars
    PROVE  TypeOK' /\ LoaderInv'
  <1>1. docs' = docs /\ DocTypeOK'
    BY DEF NotHere, docVars, SessionInv, TypeOK, DocTypeOK
  <1>2. CASE TurnEnd
    BY <1>1, <1>2, NoTurnTyped
       DEF TurnEnd, SessionInv, TypeOK, LoaderInv, NoSilentLoss, SelfHeals
  <1>3. CASE OtherSessionWrites
    <2>1. stored' \in State
      BY <1>3 DEF OtherSessionWrites, SessionInv, TypeOK, State
    <2>2. TypeOK'
      BY <1>1, <1>3, <2>1 DEF OtherSessionWrites, SessionInv, TypeOK
    <2> QED BY <1>1, <1>3, <2>2
            DEF OtherSessionWrites, SessionInv, LoaderInv, NoSilentLoss, SelfHeals,
                HasBlocks, Present
  <1>4. CASE UNCHANGED sessionVars
    BY <1>1, <1>4 DEF sessionVars, SessionInv, TypeOK, LoaderInv, NoSilentLoss, SelfHeals,
                      Injectable, HasBlocks, Present
  <1> QED BY <1>2, <1>3, <1>4

\* The documents change under the turn, which keeps to what it has read.
LEMMA DocumentsKeep ==
    ASSUME SessionInv, DocTypeOK', readable' = {d \in readable : HasBlocks(d)'},
           UNCHANGED <<stored, artifact, turn, turns, faulty, skipped>>
    PROVE  TypeOK' /\ LoaderInv'
  <1>1. readable' \subseteq readable /\ \A d \in readable' : HasBlocks(d)'
    OBVIOUS
  <1>2. TypeOK'
    BY <1>1 DEF SessionInv, TypeOK
  <1> QED BY <1>1, <1>2 DEF SessionInv, LoaderInv, NoSilentLoss, SelfHeals, Injectable

LEMMA RestartKeeps ==
    ASSUME SessionInv, DocTypeOK', SessionRestart
    PROVE  TypeOK' /\ LoaderInv'
  <1>1. stored' \in State
    BY NoTurnTyped DEF SessionRestart, SessionInv, TypeOK
  <1>2. artifact' \in [DocIds -> Content \union {None}]
    BY DEF SessionRestart, SessionInv, TypeOK, NoArtifacts
  <1>3. turn' = NoTurn /\ readable' = {} /\ faulty' = {} /\ skipped' = {} /\ turns' = turns
    BY DEF SessionRestart
  <1> QED BY <1>1, <1>2, <1>3, NoTurnTyped
          DEF SessionInv, TypeOK, LoaderInv, NoSilentLoss, SelfHeals

-----------------------------------------------------------------------------

\* The invariant holds before the first turn.
LEMMA SessionInit == Init => SessionInv
  <1> SUFFICES ASSUME Init PROVE SessionInv
    OBVIOUS
  <1>1. TypedInv
    BY TypedInit DEF Init
  <1>2. artifact \in [DocIds -> Content \union {None}] /\ turns \in 0 .. MaxTurns
    BY ContextAssumption DEF Init, NoArtifacts
  <1>3. TypeOK
    BY <1>1, <1>2, NoTurnTyped DEF Init, TypeOK, TypedInv
  <1>4. LoaderInv
    BY NoTurnTyped DEF Init, LoaderInv, NoSilentLoss, SelfHeals
  <1> QED BY <1>1, <1>3, <1>4 DEF SessionInv

\* Every step keeps it: of the session, of the documents under it, a restart.
LEMMA SessionStep == SessionInv /\ [Next]_vars => SessionInv'
  <1> SUFFICES ASSUME SessionInv, [Next]_vars PROVE SessionInv'
    OBVIOUS
  <1>1. CASE SessionNext /\ UNCHANGED docVars
    <2>1. TypedInv'
      BY <1>1, TypedStep DEF SessionInv
    <2>2. TypeOK' /\ LoaderInv'
      BY <1>1, TurnBeginKeeps, LoadKeeps, InjectKeeps, IdleKeeps DEF SessionNext, NotHere
    <2> QED BY <2>1, <2>2 DEF SessionInv
  <1>2. CASE /\ DocStep
             /\ readable' = {d \in readable : HasBlocks(d)'}
             /\ UNCHANGED <<stored, artifact, turn, turns, faulty, skipped>>
    <2>1. TypedInv'
      BY <1>2, TypedStep DEF SessionInv, DocNext
    <2> QED BY <1>2, <2>1, DocumentsKeep DEF SessionInv, TypedInv
  <1>3. CASE Restart /\ SessionRestart
    <2>1. TypedInv'
      BY <1>3, TypedStep DEF SessionInv, DocNext
    <2> QED BY <1>3, <2>1, RestartKeeps DEF SessionInv, TypedInv
  <1>4. CASE UNCHANGED vars
    <2>1. TypedInv'
      BY <1>4, TypedStep DEF SessionInv, vars
    <2>2. TypeOK' /\ LoaderInv'
      BY <1>4, IdleKeeps DEF vars, NotHere
    <2> QED BY <2>1, <2>2 DEF SessionInv
  <1> QED BY <1>1, <1>2, <1>3, <1>4 DEF Next

\* The session's state, its artifacts and its turn are well typed in every
\* reachable state (make_document_loader and make_document_injector).
THEOREM ContextTypeCorrect == Spec => []TypeOK
  <1>1. SessionInv => TypeOK
    BY DEF SessionInv
  <1> QED BY <1>1, SessionInit, SessionStep, PTL DEF Spec

\* An attached document missing from the model's request has an error on record
\* or its own artifact failed to be read for that request, whatever failed for
\* the others, restarts lose and other sessions write (callbacks.py:203-213).
THEOREM NothingLostSilently == Spec => []NoSilentLoss
  <1>1. SessionInv => NoSilentLoss
    BY DEF SessionInv, LoaderInv
  <1> QED BY <1>1, SessionInit, SessionStep, PTL DEF Spec

\* A document readable throughout and without a fault of its own is in the
\* request, whatever failed for others or on the turns before
\* (callbacks.py:212-213, :531-536).
THEOREM Heals == Spec => []SelfHeals
  <1>1. SessionInv => SelfHeals
    BY DEF SessionInv, LoaderInv
  <1> QED BY <1>1, SessionInit, SessionStep, PTL DEF Spec
=============================================================================
