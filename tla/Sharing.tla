------------------------------- MODULE Sharing -------------------------------
(***************************************************************************)
(* What a user shares, and what is made for a user on first need.          *)
(*                                                                         *)
(* A bucket has an access control; a folder in it may have one of its own, *)
(* and keeps the one in effect, computed when it is written.  A user's     *)
(* default folder and retrieval corpus are made when they are looked for   *)
(* and missing.  Every step is one call of Firestore or of the retrieval   *)
(* service, and steps of other requests, on this instance or another, may  *)
(* come in between.  The listings are not cut.                             *)
(***************************************************************************)
EXTENDS Access, Workload

CONSTANTS
    People,       \* users, as access contexts
    MaxBuckets, MaxFolders,
    Sharings      \* access controls that are set

ASSUME SharingAssumption ==
    /\ {MaxBuckets, MaxFolders} \subseteq Nat
    /\ Sharings \subseteq AccessControl({""} \union {p.domain : p \in People}, {p.email : p \in People},
                                         UNION {p.tags : p \in People})

BucketId == 1 .. MaxBuckets
FolderId == 1 .. MaxFolders
Uids == {person.uid : person \in People}

VARIABLES
    ids,       \* how many identifiers of either kind have been drawn
    buckets,   \* the collection `buckets'
    folders,   \* their subcollections `folders'
    homes,     \* how many folders a user has for uploads
    profile,   \* the corpus that user_profiles names, by its number
    corpora,   \* how many corpora were made for a user
    holding,   \* the corpora that hold a document of a user
    jobs,      \* what is being done
    drifted,   \* history: folders whose bucket's access changed since they were begun
    contested  \* history: what two requests were making at once

sharingVars == <<ids, buckets, folders, homes, profile, corpora, holding, jobs, drifted, contested>>
stored == <<ids, buckets, folders, homes, profile, corpora, holding, drifted, contested>>

BucketDoc == [owner : Uids, access : Sharings]
FolderDoc == [bucket : BucketId, owner : Uids, own : Sharings \union {None}, effective : Sharings]

\* parent and item are the bucket and folder read, edit the access control sent.
\* Histories: stale, the parent's access has changed since; late, another has made what
\* this one found missing.
NoJob == [op |-> "none", at |-> "idle", ctx |-> None, bucket |-> 0, folder |-> 0, parent |-> None,
          item |-> None, edit |-> None, corpus |-> 0, stale |-> FALSE, late |-> FALSE]

Becomes(t, job) == jobs' = [jobs EXCEPT ![t] = job]
Done(t) == Becomes(t, NoJob)
Steps(t, place) == Becomes(t, [jobs[t] EXCEPT !.at = place])
IsAt(t, ops, place) == jobs[t].op \in ops /\ jobs[t].at = place
Sees(ctx, bucket) == bucket # None /\ CanAccess(bucket.access, ctx, bucket.owner)
SeesFolder(ctx, folder) == folder # None /\ CanAccess(folder.effective, ctx, folder.owner)

-----------------------------------------------------------------------------
(* The requests.                                                           *)

BucketOps == {"bucket get", "bucket put", "bucket delete"}
FolderOps == {"folder get", "folder put", "folder delete"}

Begins(t, op, person, first) ==
    /\ jobs[t] = NoJob /\ Issues(op)
    /\ Becomes(t, [NoJob EXCEPT !.op = op, !.at = first.at, !.ctx = person, !.bucket = first.bucket,
                              !.folder = first.folder, !.edit = first.edit])
    /\ UNCHANGED stored

Ask(t) == \E person \in People, edit \in Sharings :
    LET On(at, b, f, e) == [at |-> at, bucket |-> b, folder |-> f, edit |-> e]
        made == {f \in FolderId : folders[f] # None}
    IN  \/ Begins(t, "bucket post", person, On("write", 0, 0, edit))
        \/ \E op \in BucketOps, b \in BucketId, e \in {None, edit} :
              Begins(t, op, person, On("parent", b, 0, e))
        \/ \E b \in BucketId, e \in {None, edit} : Begins(t, "folder post", person, On("parent", b, 0, e))
        \/ \E op \in FolderOps, f \in made, e \in {None, edit} :
              Begins(t, op, person, On("parent", folders[f].bucket, f, e))

\* An upload without a folder, and what needs the corpus: its routes and a turn's loader.
Need(t) == \E person \in People, op \in {"home", "corpus"} :
    Begins(t, op, person, [at |-> "look", bucket |-> 0, folder |-> 0, edit |-> None])

-----------------------------------------------------------------------------
(* Buckets and folders.                                                    *)

\* get_bucket, by the bucket's own routes and by _load_parent_or_404: one that is not
\* visible is not found, another's may not be changed and has no folder made in it.
Parent(t) ==
    LET job == jobs[t]
        parent == buckets[job.bucket]
        read == [job EXCEPT !.parent = parent]
        mine == Sees(job.ctx, parent) /\ IsOwner(parent, job.ctx)
    IN  /\ job.at = "parent"
        /\ \/ job.op \in {"bucket put", "bucket delete"} /\ mine /\ Becomes(t, [read EXCEPT !.at = "again"])
           \/ job.op = "folder post" /\ mine /\ Becomes(t, [read EXCEPT !.at = "write"])
           \/ job.op \in FolderOps /\ Sees(job.ctx, parent) /\ Becomes(t, [read EXCEPT !.at = "item"])
           \/ /\ job.op = "bucket get" \/ ~Sees(job.ctx, parent) \/ (~mine /\ job.op \notin FolderOps)
              /\ Done(t)
        /\ UNCHANGED <<load, stored>>

\* get_folder: the bucket's owner and the folder's may change it.
Item(t) ==
    LET job == jobs[t]
        item == folders[job.folder]
        may == IsOwner(job.parent, job.ctx) \/ (item # None /\ item.owner = job.ctx.uid)
    IN  /\ job.at = "item"
        /\ \/ /\ job.op # "folder get" /\ SeesFolder(job.ctx, item) /\ may
              /\ Becomes(t, [job EXCEPT !.at = "again", !.item = item])
           \/ /\ job.op = "folder get" \/ ~SeesFolder(job.ctx, item) \/ ~may
              /\ Done(t)
        /\ UNCHANGED <<load, stored>>

\* update and delete look the document up once more.
Again(t) ==
    LET job == jobs[t]
        gone == IF job.op \in FolderOps THEN folders[job.folder] = None ELSE buckets[job.bucket] = None
    IN  /\ job.at = "again"
        /\ IF gone THEN Done(t) ELSE Steps(t, "write")
        /\ UNCHANGED <<load, stored>>

\* The access control of bucket b changes: what was computed from it is of before.
Drifts(t, b) ==
    /\ drifted' = drifted \union {f \in FolderId : folders[f] # None /\ folders[f].bucket = b}
    /\ jobs' = [u \in Thread |-> IF u = t THEN NoJob
                   ELSE [jobs[u] EXCEPT !.stale = @ \/ (jobs[u].bucket = b /\ jobs[u].parent # None)]]

WriteBucket(t) ==
    LET job == jobs[t]
        b == job.bucket
    IN  /\ job.at = "write"
        /\ \/ /\ job.op = "bucket post" /\ ids.bucket < MaxBuckets
              /\ ids' = [ids EXCEPT !.bucket = @ + 1]
              /\ buckets' = [buckets EXCEPT ![ids'.bucket] = [owner |-> job.ctx.uid, access |-> job.edit]]
              /\ Done(t) /\ UNCHANGED drifted
           \/ /\ job.op = "bucket put" /\ buckets[b] # None /\ job.edit # None
              /\ buckets' = [buckets EXCEPT ![b].access = job.edit]
              /\ Drifts(t, b) /\ UNCHANGED ids
           \/ /\ job.op = "bucket put" /\ (buckets[b] = None \/ job.edit = None)
              /\ Done(t) /\ UNCHANGED <<ids, buckets, drifted>>
           \/ /\ job.op = "bucket delete"
              /\ buckets' = [buckets EXCEPT ![b] = None]
              /\ Done(t) /\ UNCHANGED <<ids, drifted>>
        /\ UNCHANGED <<load, folders, homes, profile, corpora, holding, contested>>

\* compute_effective_access, from the parent that was read.
Effective(own, parent) == IF own = None THEN parent.access ELSE own

\* A PUT that sends no access control leaves both as they are; none can be sent.
\* Mutant: the one in effect is not computed anew.
ResetOwn(folder, edit, parent) == IF edit = None THEN folder ELSE [folder EXCEPT !.own = edit]
Reset(folder, edit, parent) ==
    IF edit = None THEN folder
    ELSE [folder EXCEPT !.own = edit, !.effective = Effective(edit, parent)]

WriteFolder(t) ==
    LET job == jobs[t]
        f == job.folder
    IN  /\ job.at = "write"
        /\ \/ /\ job.op = "folder post" /\ ids.folder < MaxFolders
              /\ ids' = [ids EXCEPT !.folder = @ + 1]
              /\ folders' = [folders EXCEPT ![ids'.folder] =
                    [bucket |-> job.bucket, owner |-> job.ctx.uid, own |-> job.edit,
                     effective |-> Effective(job.edit, job.parent)]]
              /\ drifted' = drifted \union (IF job.stale THEN {ids'.folder} ELSE {})
           \/ /\ job.op = "folder put" /\ folders[f] # None
              /\ folders' = [folders EXCEPT ![f] = Reset(@, job.edit, job.parent)]
              /\ UNCHANGED <<ids, drifted>>
           \/ /\ job.op = "folder put" /\ folders[f] = None
              /\ UNCHANGED <<ids, folders, drifted>>
           \/ /\ job.op = "folder delete"
              /\ folders' = [folders EXCEPT ![f] = None]
              /\ UNCHANGED <<ids, drifted>>
        /\ Done(t)
        /\ UNCHANGED <<load, buckets, homes, profile, corpora, holding, contested>>

-----------------------------------------------------------------------------
(* The default folder of an upload, and the corpus of a user.              *)

\* Something is made of this kind for this user: whoever found it missing too is late.
Makes(t, job) ==
    /\ jobs' = [u \in Thread |-> IF u = t THEN job
                   ELSE [jobs[u] EXCEPT !.late = @ \/ (jobs[u].op = jobs[t].op /\ jobs[u].at \in {"make", "record"}
                                                        /\ jobs[u].ctx.uid = jobs[t].ctx.uid)]]
    /\ contested' = contested \union (IF jobs[t].late THEN {<<jobs[t].op, jobs[t].ctx.uid>>} ELSE {})

\* ensure_default_folder: the user's folders are listed.
LookForHome(t) ==
    /\ IsAt(t, {"home"}, "look")
    /\ IF homes[jobs[t].ctx.uid] > 0 THEN Done(t) ELSE Steps(t, "make")
    /\ UNCHANGED <<load, stored>>
MakeHome(t) ==
    /\ IsAt(t, {"home"}, "make")
    /\ homes' = [homes EXCEPT ![jobs[t].ctx.uid] = @ + 1]
    /\ Makes(t, NoJob)
    /\ UNCHANGED <<load, ids, buckets, folders, profile, corpora, holding, drifted>>

\* get_or_create_user_corpus: the profile, the service awaited, the profile written.
LookForCorpus(t) ==
    LET known == profile[jobs[t].ctx.uid]
    IN  /\ IsAt(t, {"corpus"}, "look")
        /\ IF known # 0 THEN Becomes(t, [jobs[t] EXCEPT !.at = "import", !.corpus = known])
           ELSE Steps(t, "make")
        /\ UNCHANGED <<load, stored>>
MakeCorpus(t) ==
    LET u == jobs[t].ctx.uid
    IN  /\ IsAt(t, {"corpus"}, "make")
        /\ corpora' = [corpora EXCEPT ![u] = @ + 1]
        /\ Becomes(t, [jobs[t] EXCEPT !.at = "record", !.corpus = corpora[u] + 1])
        /\ UNCHANGED <<load, ids, buckets, folders, homes, profile, holding, drifted, contested>>
RecordCorpus(t) ==
    LET u == jobs[t].ctx.uid
    IN  /\ IsAt(t, {"corpus"}, "record")
        /\ profile' = [profile EXCEPT ![u] = jobs[t].corpus]
        /\ Makes(t, [jobs[t] EXCEPT !.at = "import"])
        /\ UNCHANGED <<load, ids, buckets, folders, homes, corpora, holding, drifted>>

\* A document is imported; or there is none to import, and the corpus is asked.
Import(t) ==
    /\ IsAt(t, {"corpus"}, "import")
    /\ \/ holding' = [holding EXCEPT ![jobs[t].ctx.uid] = @ \union {jobs[t].corpus}]
       \/ UNCHANGED holding
    /\ Done(t)
    /\ UNCHANGED <<load, ids, buckets, folders, homes, profile, corpora, drifted, contested>>

-----------------------------------------------------------------------------

\* A call fails, without effect.
CallFails(t) == jobs[t] # NoJob /\ Done(t) /\ UNCHANGED <<load, stored>>

SharingInit ==
    /\ ids = [bucket |-> 0, folder |-> 0]
    /\ buckets = [b \in BucketId |-> None] /\ folders = [f \in FolderId |-> None]
    /\ homes = [u \in Uids |-> 0] /\ profile = [u \in Uids |-> 0]
    /\ corpora = [u \in Uids |-> 0] /\ holding = [u \in Uids |-> {}]
    /\ jobs = [t \in Thread |-> NoJob]
    /\ drifted = {} /\ contested = {}

SharingNext == \E t \in Thread :
    \/ Ask(t) \/ Need(t) \/ Parent(t) \/ Item(t) \/ Again(t) \/ WriteBucket(t) \/ WriteFolder(t)
    \/ LookForHome(t) \/ MakeHome(t)
    \/ LookForCorpus(t) \/ MakeCorpus(t) \/ RecordCorpus(t) \/ Import(t)
    \/ CallFails(t)

-----------------------------------------------------------------------------
(* Properties.                                                             *)

SharingTypeOK ==
    /\ buckets \in [BucketId -> BucketDoc \union {None}]
    /\ folders \in [FolderId -> FolderDoc \union {None}]
    /\ \A u \in Uids : homes[u] \in Nat /\ profile[u] \in 0 .. corpora[u]
                       /\ holding[u] \subseteq 1 .. corpora[u]
    /\ ids \in [bucket : 0 .. MaxBuckets, folder : 0 .. MaxFolders]
    /\ \A t \in Thread : jobs[t].bucket \in BucketId \union {0} /\ jobs[t].folder \in 0 .. ids.folder

\* A folder's access control in effect is its own or, when it has none, its bucket's; it
\* departs from the bucket's only when that has changed since the folder's request read it,
\* for a bucket's change is not carried to its folders.
EffectiveIsInherited == \A f \in FolderId : folders[f] # None =>
    LET folder == folders[f]
    IN  IF folder.own # None THEN folder.effective = folder.own
        ELSE buckets[folder.bucket] # None /\ f \notin drifted
                => folder.effective = buckets[folder.bucket].access

\* A user has two default folders, or documents in a corpus the profile does not name, only
\* if two requests found them missing at once; a failure between making a corpus and
\* recording it leaves one that holds nothing.
MadeOnce == \A u \in Uids :
    /\ homes[u] > 1 => <<"home", u>> \in contested
    /\ ~(holding[u] \subseteq {profile[u]}) => <<"corpus", u>> \in contested
=============================================================================
