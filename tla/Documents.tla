------------------------------ MODULE Documents ------------------------------
(***************************************************************************)
(* A user's documents: the records of the collection parsed_documents, the *)
(* files behind them, the parse cache and the folder's counts, under the   *)
(* requests that upload a file, parse it again, delete it or import one    *)
(* that is already in a bucket (backend/tools/documents).                  *)
(*                                                                         *)
(* One process serves the requests: its handlers are coroutines of one     *)
(* event loop, so what a handler does between two awaits is one action     *)
(* here, and anything may happen at an await.  A content stands for a      *)
(* version of a file and for the blocks the parser makes of it.  A folder  *)
(* holds one file of a name, so a file of Uploads stands for both the name *)
(* and the gs:// URL; an import may name that URL too.                     *)
(***************************************************************************)
EXTENDS Naturals, FiniteSets

CONSTANTS
    Uploads,      \* files of the user's folder
    References,   \* files imported by their gs:// URL, uploaded ones or others
    Unparseable,  \* files whose extension the parser does not take
    Content,      \* the contents a file can have
    Requests,     \* the requests that await, each made once
    MaxDocs,      \* bound on the document ids issued (uuid4: never repeated)
    None

File == Uploads \union References
DocIds == 1 .. MaxDocs

ASSUME DocumentsAssumption ==
    /\ Unparseable \subseteq File
    /\ None \notin File \union Content \union DocIds
    /\ MaxDocs \in Nat

VARIABLES
    docs,       \* the records of parsed_documents, by document id
    object,     \* the content of the object at each gs:// URL
    sentinel,   \* the blocks the platform keeps for a reference
    cache,      \* ailang_parse._cache, by gs:// URL
    counts,     \* the folder's docCount and parsedCount
    req,        \* the requests
    issued,     \* the document ids issued so far are 1 .. issued
    \* Histories, read by properties only:
    abandoned,  \* documents whose writer died between two of its writes
    deletedLate,\* documents deleted while a request was to write them
    overlapped, \* files asked for again while an import of them was under way
    unfiled,    \* documents an import took out of the folder
    smooth      \* nothing was deleted, failed or died so far

docVars == <<docs, object, sentinel, cache, counts, req, issued,
             abandoned, deletedLate, overlapped, unfiled, smooth>>

Status == {"pending", "failed", "parsed", "pending_ai_extraction"}

\* A record; file is None in one that lacks its userId and sourceUrl, and filed
\* says that it has a folderId.
Record == [file : File \union {None}, filed : BOOLEAN, status : Status,
           blocks : Content \union {None}]

ASSUME NoRecordAssumption == None \notin Record

\* A request: the bytes are the upload's until it stored them, then the
\* parser's; first says the folder has yet to count the document.
Request == [op : {"none", "upload", "reparse", "import"},
            at : {"idle", "reading", "parsing", "fetched", "done"},
            doc : DocIds \union {None}, file : File \union {None},
            bytes : Content \union {None}, first : BOOLEAN]

InProgress(r) == req[r].at \in {"reading", "parsing", "fetched"}
Writes(r, d) == InProgress(r) /\ req[r].doc = d

Present(d) == docs[d] # None

\* The user's records of a file, as the query by URL finds them, and those of
\* the folder, as the query by folder and name does.
RecordsOf(f) == {d \in DocIds : Present(d) /\ docs[d].file = f}
FiledOf(f) == {d \in RecordsOf(f) : docs[d].filed}

\* Mutant of Stored: the outcome is kept where the blocks are.
StoredOutcome(f, filed, status, blocks) ==
    [file |-> f, filed |-> filed, status |-> status,
     blocks |-> IF status = "parsed" THEN blocks ELSE status]

\* _store_document: the whole record is overwritten.
Stored(f, filed, status, blocks) ==
    [file |-> f, filed |-> filed, status |-> status,
     blocks |-> IF status = "parsed" THEN blocks ELSE None]

\* The next id, unless the record is there to be reused.
FreshId(d) == /\ d = issued + 1
              /\ d \in DocIds
              /\ issued' = d
Reused(d, f) == d \in FiledOf(f) /\ UNCHANGED issued

\* Whether an import of a file is under way.
Importing(f) == \E o \in Requests :
                   InProgress(o) /\ req[o].op = "import" /\ req[o].file = f

-----------------------------------------------------------------------------

\* What the end of a parse writes, for a request q.  An upload stores its
\* record, and counts it if it is new to the folder; a count that fails is only
\* logged.  A reparse merges into the record, or into none: what it writes then
\* has no owner and no file.  An import that failed stores nothing, and one that
\* did not leaves the record, a new one or the one it found, without a folder.

\* Mutant of Counted: an overwrite is counted as well.
CountedAgain(q, status) ==
    IF status = "failed" THEN counts
    ELSE [docs |-> counts.docs + 1,
          parsed |-> counts.parsed + (IF status = "parsed" THEN 1 ELSE 0)]

Counted(q, status) ==
    IF ~q.first \/ status = "failed" THEN counts
    ELSE [docs |-> counts.docs + 1,
          parsed |-> counts.parsed + (IF status = "parsed" THEN 1 ELSE 0)]

FinishUpload(q, status, blocks) ==
    /\ docs' = [docs EXCEPT ![q.doc] = Stored(q.file, TRUE, status, blocks)]
    /\ counts' \in {Counted(q, status), counts}
    /\ smooth' = (smooth /\ status # "failed" /\ counts' = Counted(q, status))
    /\ UNCHANGED <<issued, unfiled>>

FinishReparse(q, status, blocks) ==
    /\ docs' = [docs EXCEPT ![q.doc] =
                   IF @ = None THEN Stored(None, FALSE, status, blocks)
                   ELSE Stored(@.file, @.filed, status, blocks)]
    /\ smooth' = (smooth /\ status # "failed")
    /\ UNCHANGED <<counts, issued, unfiled>>

FinishImport(q, status, blocks) ==
    /\ \/ status = "failed" /\ UNCHANGED <<docs, issued, unfiled>>
       \/ /\ status # "failed"
          /\ \E d \in DocIds :
                /\ IF q.doc = None THEN FreshId(d) ELSE d = q.doc /\ UNCHANGED issued
                /\ docs' = [docs EXCEPT ![d] = Stored(q.file, FALSE, status, blocks)]
                /\ unfiled' = IF Present(d) /\ docs[d].filed
                              THEN unfiled \union {d} ELSE unfiled
    /\ UNCHANGED <<counts, smooth>>

Finish(q, status, blocks) ==
    \/ q.op = "upload" /\ FinishUpload(q, status, blocks)
    \/ q.op = "reparse" /\ FinishReparse(q, status, blocks)
    \/ q.op = "import" /\ FinishImport(q, status, blocks)

Ended(r, q) == req' = [req EXCEPT ![r] = [q EXCEPT !.at = "done", !.bytes = None]]

\* parse_gcs_file up to its first await: a file it does not take, or one whose
\* blocks it has cached, is answered at once.
StartParse(r, q) ==
    \/ /\ q.file \in Unparseable
       /\ Finish(q, "pending_ai_extraction", None)
       /\ Ended(r, q)
    \/ /\ q.file \notin Unparseable /\ cache[q.file] # None
       /\ Finish(q, "parsed", cache[q.file])
       /\ Ended(r, q)
    \/ /\ q.file \notin Unparseable /\ cache[q.file] = None
       /\ req' = [req EXCEPT ![r] = [q EXCEPT !.at = "parsing", !.bytes = None]]
       /\ UNCHANGED <<docs, counts, issued, unfiled, smooth>>

-----------------------------------------------------------------------------

\* upload_document, up to reading the request's body: the record of the name
\* is reused if there is one, and is pending from now on.

\* Mutant of UploadBegin: the record is not written before the file is read.
UploadBeginUnrecorded(r, f, c) ==
    /\ req[r].at = "idle"
    /\ \E d \in DocIds :
          /\ IF FiledOf(f) = {} THEN FreshId(d) ELSE Reused(d, f)
          /\ req' = [req EXCEPT ![r] =
                [op |-> "upload", at |-> "reading", doc |-> d, file |-> f,
                 bytes |-> c, first |-> FiledOf(f) = {}]]
    /\ overlapped' = IF Importing(f) THEN overlapped \union {f} ELSE overlapped
    /\ UNCHANGED <<docs, object, sentinel, cache, counts,
                   abandoned, deletedLate, unfiled, smooth>>

UploadBegin(r, f, c) ==
    /\ req[r].at = "idle"
    /\ \E d \in DocIds :
          /\ IF FiledOf(f) = {} THEN FreshId(d) ELSE Reused(d, f)
          /\ docs' = [docs EXCEPT ![d] = Stored(f, TRUE, "pending", None)]
          /\ req' = [req EXCEPT ![r] =
                [op |-> "upload", at |-> "reading", doc |-> d, file |-> f,
                 bytes |-> c, first |-> FiledOf(f) = {}]]
    /\ overlapped' = IF Importing(f) THEN overlapped \union {f} ELSE overlapped
    /\ UNCHANGED <<object, sentinel, cache, counts,
                   abandoned, deletedLate, unfiled, smooth>>

\* The bytes are read and stored, and the parse starts.
UploadStored(r) ==
    /\ req[r].at = "reading"
    /\ object' = [object EXCEPT ![req[r].file] = req[r].bytes]
    /\ StartParse(r, req[r])
    /\ UNCHANGED <<sentinel, cache, abandoned, deletedLate, overlapped>>

\* Mutant of UploadRefused: the record is left as it is.
UploadRefusedUnrecorded(r) ==
    /\ req[r].at = "reading"
    /\ Ended(r, req[r])
    /\ smooth' = FALSE
    /\ UNCHANGED <<docs, object, sentinel, cache, counts, issued,
                   abandoned, deletedLate, overlapped, unfiled>>

\* The bucket refused the bytes: the record says so and the request fails.
UploadRefused(r) ==
    /\ req[r].at = "reading"
    /\ docs' = [docs EXCEPT ![req[r].doc] = Stored(req[r].file, TRUE, "failed", None)]
    /\ Ended(r, req[r])
    /\ smooth' = FALSE
    /\ UNCHANGED <<object, sentinel, cache, counts, issued,
                   abandoned, deletedLate, overlapped, unfiled>>

\* reparse_document of a record the caller owns.
ReparseBegin(r, d) ==
    /\ req[r].at = "idle"
    /\ Present(d) /\ docs[d].file # None
    /\ StartParse(r, [op |-> "reparse", at |-> "parsing", doc |-> d,
                      file |-> docs[d].file, bytes |-> None, first |-> FALSE])
    /\ UNCHANGED <<object, sentinel, cache, abandoned, deletedLate, overlapped>>

\* import_by_reference.  The user's parsed record answers (L2); else the
\* platform's blocks are copied (L4), over the user's record of the file if
\* there is one; else the file is parsed (L3).
ImportBegin(r, f) ==
    /\ req[r].at = "idle"
    /\ \E hit \in RecordsOf(f) \union {None} :
          LET q == [op |-> "import", at |-> "parsing", doc |-> hit, file |-> f,
                    bytes |-> None, first |-> FALSE]
          IN  /\ hit = None => RecordsOf(f) = {}
              /\ \/ /\ hit # None /\ docs[hit].status = "parsed"
                    /\ Ended(r, q)
                    /\ UNCHANGED <<docs, counts, issued, unfiled, smooth>>
                 \/ /\ hit # None => docs[hit].status # "parsed"
                    /\ sentinel[f] # None
                    /\ FinishImport(q, "parsed", sentinel[f])
                    /\ Ended(r, q)
                 \/ /\ hit # None => docs[hit].status # "parsed"
                    /\ sentinel[f] = None
                    /\ StartParse(r, q)
    /\ overlapped' = IF Importing(f) THEN overlapped \union {f} ELSE overlapped
    /\ UNCHANGED <<object, sentinel, cache, abandoned, deletedLate>>

\* The parser reads the file.  When the signed URL does not do it downloads
\* the file and parses that: the read that counts is the last one.
Fetch(r) ==
    /\ req[r].at = "parsing"
    /\ req' = [req EXCEPT ![r].at = "fetched", ![r].bytes = object[req[r].file]]
    /\ UNCHANGED <<docs, object, sentinel, cache, counts, issued,
                   abandoned, deletedLate, overlapped, unfiled, smooth>>

ParseOk(r) ==
    /\ req[r].at = "fetched" /\ req[r].bytes # None
    /\ cache' = [cache EXCEPT ![req[r].file] = req[r].bytes]
    /\ Finish(req[r], "parsed", req[r].bytes)
    /\ Ended(r, req[r])
    /\ UNCHANGED <<object, sentinel, abandoned, deletedLate, overlapped>>

\* The file is gone, or the parser fails or gives no blocks.
ParseFailed(r) ==
    /\ req[r].at \in {"parsing", "fetched"}
    /\ Finish(req[r], "failed", None)
    /\ Ended(r, req[r])
    /\ UNCHANGED <<object, sentinel, cache, abandoned, deletedLate, overlapped>>

\* A read of the body or a write of the record raises: the request fails and
\* what it had still to write is not written.
Dies(r) ==
    /\ InProgress(r)
    /\ Ended(r, req[r])
    /\ abandoned' = abandoned \union ({req[r].doc} \ {None})
    /\ smooth' = FALSE
    /\ UNCHANGED <<docs, object, sentinel, cache, counts, issued,
                   deletedLate, overlapped, unfiled>>

\* delete_document of a record the caller owns; removing the object may fail,
\* or miss the bucket it is in.
Delete(d) ==
    /\ Present(d) /\ docs[d].file # None
    /\ object' \in {object, [object EXCEPT ![docs[d].file] = None]}
    /\ docs' = [docs EXCEPT ![d] = None]
    /\ deletedLate' = deletedLate \union {e \in {d} : \E r \in Requests : Writes(r, e)}
    /\ smooth' = FALSE
    /\ UNCHANGED <<sentinel, cache, counts, req, issued,
                   abandoned, overlapped, unfiled>>

\* prewarm_from_blocks: the platform's blocks of a reference, made elsewhere.
Prewarm(f, c) ==
    /\ sentinel' = [sentinel EXCEPT ![f] = c]
    /\ UNCHANGED <<docs, object, cache, counts, req, issued,
                   abandoned, deletedLate, overlapped, unfiled, smooth>>

\* An hour after it was set an entry is dropped, by the look-up that finds it.
Expire(f) ==
    /\ cache[f] # None
    /\ cache' = [cache EXCEPT ![f] = None]
    /\ UNCHANGED <<docs, object, sentinel, counts, req, issued,
                   abandoned, deletedLate, overlapped, unfiled, smooth>>

\* A restart of the process: its cache and its requests are gone.
Restart ==
    /\ cache' = [f \in File |-> None]
    /\ req' = [r \in Requests |->
                 IF InProgress(r) THEN [req[r] EXCEPT !.at = "done", !.bytes = None]
                 ELSE req[r]]
    /\ abandoned' = abandoned \union
          {d \in DocIds : \E r \in Requests : Writes(r, d)}
    /\ smooth' = (smooth /\ \A r \in Requests : ~InProgress(r))
    /\ UNCHANGED <<docs, object, sentinel, counts, issued,
                   deletedLate, overlapped, unfiled>>

-----------------------------------------------------------------------------

DocInit ==
    /\ docs = [d \in DocIds |-> None]
    /\ object \in [File -> Content \union {None}]
    /\ \A f \in Uploads : object[f] = None
    /\ sentinel = [f \in References |-> None]
    /\ cache = [f \in File |-> None]
    /\ counts = [docs |-> 0, parsed |-> 0]
    /\ req = [r \in Requests |-> [op |-> "none", at |-> "idle", doc |-> None,
                                  file |-> None, bytes |-> None, first |-> FALSE]]
    /\ issued = 0
    /\ abandoned = {} /\ deletedLate = {} /\ overlapped = {}
    /\ unfiled = {}
    /\ smooth = TRUE

\* The steps the event loop takes for a request in progress.
Serve(r) ==
    UploadStored(r) \/ UploadRefused(r) \/ Fetch(r) \/ ParseOk(r) \/ ParseFailed(r)

DocStep ==
    \/ \E r \in Requests :
          \/ \E f \in Uploads, c \in Content : UploadBegin(r, f, c)
          \/ \E d \in DocIds : ReparseBegin(r, d)
          \/ \E f \in References : ImportBegin(r, f)
          \/ Serve(r)
          \/ Dies(r)
    \/ \E d \in DocIds : Delete(d)
    \/ \E f \in References, c \in Content : Prewarm(f, c)
    \/ \E f \in File : Expire(f)

DocNext == DocStep \/ Restart

\* The event loop resumes every coroutine, and the parser's client has a time
\* limit of a minute: a request in progress is served.
Served == \A r \in Requests : WF_docVars(Serve(r))

DocSpec == DocInit /\ [][DocNext]_docVars /\ Served

-----------------------------------------------------------------------------

\* The records, the caches, the counts and the requests are well typed.
DocTypeOK ==
    /\ docs \in [DocIds -> Record \union {None}]
    /\ object \in [File -> Content \union {None}]
    /\ sentinel \in [References -> Content \union {None}]
    /\ cache \in [File -> Content \union {None}]
    /\ counts \in [docs : Nat, parsed : Nat]
    /\ req \in [Requests -> Request]
    /\ issued \in 0 .. MaxDocs
    /\ abandoned \subseteq DocIds /\ deletedLate \subseteq DocIds
    /\ overlapped \subseteq File /\ unfiled \subseteq DocIds
    /\ smooth \in BOOLEAN

\* A record shows "pending" only while an upload of it is under way, or since
\* the one that was died: no outcome of an upload, and no other request that
\* wrote the record meanwhile, leaves it pending (upload.py, the module's flow).
PendingHasWriter ==
    \A d \in DocIds :
       Present(d) /\ docs[d].status = "pending" =>
          \/ d \in abandoned
          \/ \E r \in Requests : Writes(r, d) /\ req[r].op = "upload"

\* A file has one record in the folder and one outside it at most (upload.py:
\* 244-256 and import_by_reference.py:115-117 reuse the record's id), unless one
\* of two was deleted while a request was to write it or was taken out of the
\* folder by an import of the uploaded file's own URL, which leaves the next
\* upload nothing to find (import_by_reference.py:134,180), or the file was asked
\* for again while an import of it was under way.
OneRecordPerFile ==
    \A f \in File : \A d, e \in RecordsOf(f) :
       \/ d = e
       \/ docs[d].filed # docs[e].filed
       \/ {d, e} \intersect (deletedLate \union unfiled) # {}
       \/ f \in overlapped

\* The folder never counts more documents than it was given, or more parsed
\* than counted; and when nothing was deleted, failed or died and no request is
\* in progress it counts exactly its records, those an import took out of it
\* included, and the parsed ones of the types the parser takes: an import
\* changes neither count, though it may give blocks of the platform's to a
\* record that had none.
FolderCounts ==
    /\ counts.parsed <= counts.docs
    /\ counts.docs <= issued
    /\ smooth /\ (\A r \in Requests : ~InProgress(r)) =>
          LET given == {d \in DocIds : Present(d) /\ (docs[d].filed \/ d \in unfiled)}
          IN  counts = [docs |-> Cardinality(given),
                        parsed |-> Cardinality({d \in given :
                            /\ docs[d].status = "parsed"
                            /\ docs[d].file \notin Unparseable})]

\* A record does not stay pending: its upload ends in a status, unless it died.
PendingSettles ==
    \A d \in DocIds :
       (Present(d) /\ docs[d].status = "pending")
          ~> (d \in abandoned \/ ~Present(d) \/ docs[d].status # "pending")

\* What docs/design/v6.1.0/implemented/document-to-ai-pipeline.md:92 says of
\* Firestore, "the source of truth ... (no stale content after re-upload)":
\* with no request in progress, a parsed record has the blocks of the file.
FreshAfterUpload ==
    (\A r \in Requests : ~InProgress(r)) =>
       \A d \in DocIds :
          Present(d) /\ docs[d].status = "parsed" /\ docs[d].file \in Uploads =>
             \/ object[docs[d].file] = None
             \/ docs[d].blocks = object[docs[d].file]
=============================================================================
