--------------------------- MODULE CatalogueProofs ---------------------------
(***************************************************************************)
(* Proofs about the catalogue.  The three parts of Catalogue share no      *)
(* record, so each has an inductive invariant of its own, kept by its own  *)
(* steps and by every step that leaves its variables alone.                *)
(***************************************************************************)
EXTENDS Catalogue, SequenceTheorems, FiniteSetTheorems, TLAPS

(***************************************************************************)
(* Sharing.  What a request knows is of its parent as it was read: it is   *)
(* the bucket's of now unless the request is stale.                        *)
(***************************************************************************)

JobOps == BucketOps \union FolderOps \union {"none", "bucket post", "folder post", "home", "corpus"}
Places == {"idle", "parent", "item", "again", "write", "look", "make", "record", "import"}

Job == [op : JobOps, at : Places, ctx : People \union {None}, bucket : BucketId \union {0},
        folder : FolderId \union {0}, parent : BucketDoc \union {None},
        item : FolderDoc \union {None}, edit : Sharings \union {None}, corpus : Nat,
        stale : BOOLEAN, late : BOOLEAN]

\* The parent a job has read.
Parented(job) == job.at \in {"item", "again", "write"} /\ job.op \in FolderOps \union {"folder post"}

JobFits(job) ==
    /\ job.op = "none" => job.at = "idle"
    /\ job.op \in {"home", "corpus"} => job.at \in {"look", "make", "record", "import"}
    /\ job.op \in BucketOps \union FolderOps \union {"bucket post", "folder post"} =>
          job.at \in {"parent", "item", "again", "write"}
    /\ job.op = "home" => job.at \in {"look", "make"}
    /\ job.op \in BucketOps \union FolderOps \union {"folder post"} => job.bucket \in BucketId
    /\ job.op \in FolderOps => job.folder \in FolderId
    /\ job.op = "bucket post" => job.at = "write" /\ job.edit \in Sharings
    /\ job.op \in BucketOps \union {"folder post"} => job.at # "item"
    /\ job.op # "none" => job.ctx \in People
    /\ Parented(job) => job.parent # None

FolderTypes ==
    /\ buckets \in [BucketId -> BucketDoc \union {None}]
    /\ folders \in [FolderId -> FolderDoc \union {None}]
    /\ ids \in [bucket : 0 .. MaxBuckets, folder : 0 .. MaxFolders]
    /\ jobs \in [Thread -> Job]

\* An identifier is given once: what has it was made when it was drawn.
Drawn ==
    /\ \A b \in BucketId : buckets[b] # None => b <= ids.bucket
    /\ \A f \in FolderId : folders[f] # None => f <= ids.folder /\ folders[f].bucket <= ids.bucket
    /\ \A t \in Thread : jobs[t].parent # None => jobs[t].bucket <= ids.bucket
    /\ \A t \in Thread : jobs[t].folder <= ids.folder

\* What was read of a parent is what it is, unless the job is stale.
Current == \A t \in Thread :
    jobs[t].parent # None /\ jobs[t].bucket \in BucketId /\ ~jobs[t].stale =>
        (buckets[jobs[t].bucket] # None => jobs[t].parent.access = buckets[jobs[t].bucket].access)

FolderInv == FolderTypes /\ (\A t \in Thread : JobFits(jobs[t])) /\ Drawn /\ Current /\ EffectiveIsInherited

LEMMA FolderBounds == MaxBuckets \in Nat /\ MaxFolders \in Nat
  BY SharingAssumption

LEMMA NoJobIsJob == NoJob \in Job /\ JobFits(NoJob) /\ NoJob.parent = None /\ NoJob.folder = 0
                    /\ NoJob.at = "idle" /\ NoJob.op = "none"
  BY DEF NoJob, Job, JobOps, Places, JobFits, Parented, BucketOps, FolderOps

LEMMA FolderInitially == SharingInit => FolderInv
  <1> SUFFICES ASSUME SharingInit PROVE FolderInv
    OBVIOUS
  <1>1. FolderTypes
    BY NoJobIsJob, FolderBounds DEF SharingInit, FolderTypes
  <1>2. \A t \in Thread : jobs[t] = NoJob
    BY DEF SharingInit
  <1>3. Drawn
    BY <1>2, NoJobIsJob DEF SharingInit, Drawn
  <1>4. Current /\ \A t \in Thread : JobFits(jobs[t])
    BY <1>2, NoJobIsJob DEF Current
  <1>5. EffectiveIsInherited
    BY DEF SharingInit, EffectiveIsInherited
  <1> QED
    BY <1>1, <1>3, <1>4, <1>5 DEF FolderInv

-----------------------------------------------------------------------------
(* A step that leaves the documents alone.                                 *)

\* A job that knows no more of its parent than the documents do.
Knows(job) ==
    /\ job \in Job /\ JobFits(job)
    /\ job.folder <= ids.folder
    /\ job.parent # None =>
          /\ job.bucket <= ids.bucket
          /\ (job.bucket \in BucketId /\ ~job.stale /\ buckets[job.bucket] # None =>
                 job.parent.access = buckets[job.bucket].access)

LEMMA NothingKnown == ASSUME FolderInv PROVE Knows(NoJob)
  <1>1. 0 <= ids.folder
    BY FolderBounds DEF FolderInv, FolderTypes
  <1> QED
    BY <1>1, NoJobIsJob DEF Knows

LEMMA EachKnows == ASSUME FolderInv, NEW t \in Thread PROVE Knows(jobs[t])
  BY DEF FolderInv, FolderTypes, Drawn, Current, Knows

\* The sizes there are.
LEMMA Sizes ==
  ASSUME FolderInv
  PROVE  /\ ids \in [bucket : 0 .. MaxBuckets, folder : 0 .. MaxFolders]
         /\ ids.bucket \in Nat /\ ids.folder \in Nat /\ 0 <= ids.bucket /\ 0 <= ids.folder
         /\ \A u \in Thread : jobs[u] \in Job /\ jobs[u].bucket \in BucketId \union {0}
                              /\ jobs[u].folder \in FolderId \union {0}
  BY FolderBounds DEF FolderInv, FolderTypes, Job

LEMMA OneMoreBucket ==
  ASSUME FolderInv, ids.bucket < MaxBuckets, NEW n, n = ids.bucket + 1, ids' = [ids EXCEPT !.bucket = n]
  PROVE  /\ n \in BucketId /\ ids'.bucket = n /\ ids'.folder = ids.folder
         /\ ids' \in [bucket : 0 .. MaxBuckets, folder : 0 .. MaxFolders]
         /\ \A b \in BucketId \union {0} : b <= ids.bucket => b <= n /\ b # n
         /\ n <= n
  BY Sizes, FolderBounds DEF BucketId

LEMMA OneMoreFolder ==
  ASSUME FolderInv, ids.folder < MaxFolders, NEW n, n = ids.folder + 1, ids' = [ids EXCEPT !.folder = n]
  PROVE  /\ n \in FolderId /\ ids'.folder = n /\ ids'.bucket = ids.bucket
         /\ ids' \in [bucket : 0 .. MaxBuckets, folder : 0 .. MaxFolders]
         /\ \A f \in FolderId \union {0} : f <= ids.folder => f <= n /\ f # n
         /\ n <= n
  BY Sizes, FolderBounds DEF FolderId

LEMMA Moves ==
  ASSUME FolderInv, NEW t \in Thread, NEW job, Knows(job), Becomes(t, job),
         UNCHANGED <<ids, buckets, folders, drifted>>
  PROVE  FolderInv'
  <1>1. \A u \in Thread : jobs'[u] = IF u = t THEN job ELSE jobs[u]
    BY DEF Becomes, FolderInv, FolderTypes
  <1>2. jobs' \in [Thread -> Job]
    BY DEF Becomes, FolderInv, FolderTypes, Knows
  <1>3. \A u \in Thread : Knows(jobs'[u])
    BY <1>1, EachKnows
  <1> QED
    BY <1>2, <1>3 DEF FolderInv, FolderTypes, Drawn, Current, EffectiveIsInherited, Knows

\* The same, of jobs that change in what is of no matter to a folder.
LEMMA MovesLate ==
  ASSUME FolderInv, jobs' \in [Thread -> Job], \A u \in Thread : Knows(jobs'[u]),
         UNCHANGED <<ids, buckets, folders, drifted>>
  PROVE  FolderInv'
  BY DEF FolderInv, FolderTypes, Drawn, Current, EffectiveIsInherited, Knows
-----------------------------------------------------------------------------
(* The steps of a job that only read.                                      *)

\* What a request begins with.
Opening(op, person, first) ==
    /\ op \in JobOps \ {"none"} /\ person \in People
    /\ first.at = IF op \in {"home", "corpus"} THEN "look"
                  ELSE IF op = "bucket post" THEN "write" ELSE "parent"
    /\ first.bucket \in BucketId \union {0} /\ first.edit \in Sharings \union {None}
    /\ op = "bucket post" => first.edit \in Sharings
    /\ first.at = "parent" => first.bucket \in BucketId
    /\ first.folder \in FolderId \union {0} /\ first.folder <= ids.folder
    /\ op \in FolderOps => first.folder \in FolderId

LEMMA BeginWith ==
  ASSUME FolderInv, NEW t \in Thread, NEW op, NEW person, NEW first,
         Opening(op, person, first), Begins(t, op, person, first)
  PROVE  FolderInv'
  <1> DEFINE job == [NoJob EXCEPT !.op = op, !.at = first.at, !.ctx = person,
                                  !.bucket = first.bucket, !.folder = first.folder, !.edit = first.edit]
  <1>1. PICK half : half = [NoJob EXCEPT !.op = op, !.at = first.at, !.ctx = person]
    OBVIOUS
  <1>2. /\ half \in Job /\ half.op = op /\ half.at = first.at /\ half.ctx = person /\ half.parent = None
        /\ job = [half EXCEPT !.bucket = first.bucket, !.folder = first.folder, !.edit = first.edit]
    BY <1>1, NoJobIsJob DEF Job, Opening, Places
  <1>4. /\ job.op = op /\ job.at = first.at /\ job.ctx = person /\ job.bucket = first.bucket
        /\ job.folder = first.folder /\ job.edit = first.edit /\ job.parent = None
    BY <1>2 DEF Job
  <1>5. job \in Job
    BY <1>2 DEF Job, Opening
  <1>3. Becomes(t, job) /\ UNCHANGED <<ids, buckets, folders, drifted>>
    BY DEF Begins, stored
  <1> HIDE DEF job
  <1>6. JobFits(job)
    BY <1>4 DEF JobFits, Parented, Opening, JobOps, BucketOps, FolderOps
  <1>7. Knows(job)
    BY <1>4, <1>5, <1>6 DEF Knows, Opening
  <1> QED
    BY <1>3, <1>7, Moves

LEMMA Opened ==
  ASSUME FolderInv, NEW t \in Thread, Ask(t) \/ Need(t)
  PROVE  \E op, person, first : Opening(op, person, first) /\ Begins(t, op, person, first)
  <1> DEFINE Some == \E op, person, first : Opening(op, person, first) /\ Begins(t, op, person, first)
  <1>0. 0 <= ids.folder
        /\ \A f \in FolderId : folders[f] # None => f <= ids.folder /\ folders[f].bucket \in BucketId
    BY FolderBounds DEF FolderInv, FolderTypes, Drawn, FolderDoc
  <1>1. CASE Ask(t)
    <2>1. PICK person \in People, edit \in Sharings :
             \/ Begins(t, "bucket post", person, [at |-> "write", bucket |-> 0, folder |-> 0, edit |-> edit])
             \/ \E op \in BucketOps \union {"folder post"}, b \in BucketId, e \in {None, edit} :
                   Begins(t, op, person, [at |-> "parent", bucket |-> b, folder |-> 0, edit |-> e])
             \/ \E op \in FolderOps, f \in {f \in FolderId : folders[f] # None}, e \in {None, edit} :
                   Begins(t, op, person, [at |-> "parent", bucket |-> folders[f].bucket, folder |-> f, edit |-> e])
      BY <1>1 DEF Ask
    <2>2. ASSUME Begins(t, "bucket post", person, [at |-> "write", bucket |-> 0, folder |-> 0, edit |-> edit])
          PROVE  Some
      <3>1. PICK first : first = [at |-> "write", bucket |-> 0, folder |-> 0, edit |-> edit]
        OBVIOUS
      <3>2. Opening("bucket post", person, first)
        BY <1>0, <3>1 DEF Opening, JobOps, FolderOps
      <3> QED
        BY <2>2, <3>1, <3>2
    <2>3. ASSUME NEW op \in BucketOps \union {"folder post"}, NEW b \in BucketId, NEW e \in {None, edit},
                 Begins(t, op, person, [at |-> "parent", bucket |-> b, folder |-> 0, edit |-> e])
          PROVE  Some
      <3>1. PICK first : first = [at |-> "parent", bucket |-> b, folder |-> 0, edit |-> e]
        OBVIOUS
      <3>2. Opening(op, person, first)
        BY <1>0, <3>1 DEF Opening, JobOps, FolderOps, BucketOps
      <3> QED
        BY <2>3, <3>1, <3>2
    <2>4. ASSUME NEW op \in FolderOps, NEW f \in FolderId, folders[f] # None, NEW e \in {None, edit},
                 Begins(t, op, person, [at |-> "parent", bucket |-> folders[f].bucket, folder |-> f, edit |-> e])
          PROVE  Some
      <3>1. PICK first : first = [at |-> "parent", bucket |-> folders[f].bucket, folder |-> f, edit |-> e]
        OBVIOUS
      <3>2. Opening(op, person, first)
        BY <1>0, <2>4, <3>1 DEF Opening, JobOps, FolderOps, BucketOps
      <3> QED
        BY <2>4, <3>1, <3>2
    <2> QED
      BY <2>1, <2>2, <2>3, <2>4
  <1>2. CASE Need(t)
    <2>1. PICK first : first = [at |-> "look", bucket |-> 0, folder |-> 0, edit |-> None]
      OBVIOUS
    <2>2. PICK person \in People, op \in {"home", "corpus"} : Begins(t, op, person, first)
      BY <1>2, <2>1 DEF Need
    <2>3. Opening(op, person, first)
      BY <1>0, <2>1 DEF Opening, JobOps, FolderOps, BucketOps
    <2> QED
      BY <2>2, <2>3
  <1> QED
    BY <1>1, <1>2

LEMMA Begin ==
  ASSUME FolderInv, NEW t \in Thread, Ask(t) \/ Need(t)
  PROVE  FolderInv'
  BY Opened, BeginWith

LEMMA ReadParent ==
  ASSUME FolderInv, NEW t \in Thread, Parent(t)
  PROVE  FolderInv'
  <1> DEFINE read == [jobs[t] EXCEPT !.parent = buckets[jobs[t].bucket]]
  <1>0. Knows(jobs[t]) /\ UNCHANGED <<ids, buckets, folders, drifted>>
    BY EachKnows DEF Parent, stored
  <1>1. \/ Becomes(t, NoJob)
        \/ /\ \/ jobs[t].op \in {"bucket put", "bucket delete"} /\ Becomes(t, [read EXCEPT !.at = "again"])
              \/ jobs[t].op = "folder post" /\ Becomes(t, [read EXCEPT !.at = "write"])
              \/ jobs[t].op \in FolderOps /\ Becomes(t, [read EXCEPT !.at = "item"])
           /\ jobs[t].at = "parent" /\ buckets[jobs[t].bucket] # None
    BY DEF Parent, Done, Sees
  <1>2. CASE Becomes(t, NoJob)
    BY <1>0, <1>2, Moves, NothingKnown
  <1>3. ASSUME NEW place \in {"again", "write", "item"}, Becomes(t, [read EXCEPT !.at = place]),
               \/ jobs[t].op \in {"bucket put", "bucket delete"} /\ place = "again"
               \/ jobs[t].op = "folder post" /\ place = "write"
               \/ jobs[t].op \in FolderOps /\ place = "item",
               jobs[t].at = "parent", buckets[jobs[t].bucket] # None
        PROVE  FolderInv'
    <2>1. jobs[t].bucket \in BucketId /\ jobs[t].bucket <= ids.bucket
          /\ buckets[jobs[t].bucket] \in BucketDoc
      BY <1>0, <1>3 DEF Knows, JobFits, BucketOps, FolderOps, FolderInv, FolderTypes, Drawn
    <2>2. [read EXCEPT !.at = place] \in Job
      BY <1>0, <2>1 DEF Knows, Job, Places
    <2>3. JobFits([read EXCEPT !.at = place])
      BY <1>0, <1>3, <2>1 DEF Knows, JobFits, Job, Parented, BucketOps, FolderOps
    <2>4. Knows([read EXCEPT !.at = place])
      BY <1>0, <2>1, <2>2, <2>3 DEF Knows, Job
    <2> QED
      BY <1>0, <1>3, <2>4, Moves
  <1> QED
    BY <1>1, <1>2, <1>3

LEMMA ReadItem ==
  ASSUME FolderInv, NEW t \in Thread, Item(t)
  PROVE  FolderInv'
  <1>0. Knows(jobs[t]) /\ UNCHANGED <<ids, buckets, folders, drifted>>
    BY EachKnows DEF Item, stored
  <1>1. CASE Becomes(t, NoJob)
    BY <1>0, <1>1, Moves, NothingKnown
  <1>2. CASE /\ jobs[t].at = "item" /\ folders[jobs[t].folder] # None
             /\ Becomes(t, [jobs[t] EXCEPT !.at = "again", !.item = folders[jobs[t].folder]])
    <2>1. jobs[t].op \in FolderOps /\ jobs[t].folder \in FolderId
          /\ folders[jobs[t].folder] \in FolderDoc
      BY <1>0, <1>2 DEF Knows, JobFits, Job, JobOps, FolderInv, FolderTypes
    <2>2. [jobs[t] EXCEPT !.at = "again", !.item = folders[jobs[t].folder]] \in Job
      BY <1>0, <2>1 DEF Knows, Job, Places
    <2>3. Knows([jobs[t] EXCEPT !.at = "again", !.item = folders[jobs[t].folder]])
      BY <1>0, <1>2, <2>1, <2>2 DEF Knows, JobFits, Job, Parented, BucketOps, FolderOps
    <2> QED
      BY <1>0, <1>2, <2>3, Moves
  <1> QED
    BY <1>1, <1>2 DEF Item, Done, SeesFolder

LEMMA ReadAgain ==
  ASSUME FolderInv, NEW t \in Thread, Again(t)
  PROVE  FolderInv'
  <1>0. Knows(jobs[t]) /\ UNCHANGED <<ids, buckets, folders, drifted>>
    BY EachKnows DEF Again, stored
  <1>1. CASE Becomes(t, NoJob)
    BY <1>0, <1>1, Moves, NothingKnown
  <1>2. CASE jobs[t].at = "again" /\ Becomes(t, [jobs[t] EXCEPT !.at = "write"])
    <2>1. [jobs[t] EXCEPT !.at = "write"] \in Job
      BY <1>0 DEF Knows, Job, Places
    <2>2. JobFits([jobs[t] EXCEPT !.at = "write"])
      BY <1>0, <1>2 DEF Knows, JobFits, Job, Parented, BucketOps, FolderOps
    <2>3. Knows([jobs[t] EXCEPT !.at = "write"])
      BY <1>0, <2>1, <2>2 DEF Knows, Job
    <2> QED
      BY <1>0, <1>2, <2>3, Moves
  <1> QED
    BY <1>1, <1>2 DEF Again, Done, Steps
-----------------------------------------------------------------------------
(* The writes.                                                             *)

LEMMA PostBucket ==
  ASSUME FolderInv, NEW t \in Thread, jobs[t].op = "bucket post", ids.bucket < MaxBuckets,
         ids' = [ids EXCEPT !.bucket = @ + 1],
         buckets' = [buckets EXCEPT ![ids'.bucket] = [owner |-> jobs[t].ctx.uid, access |-> jobs[t].edit]],
         Done(t), UNCHANGED <<folders, drifted>>
  PROVE  FolderInv'
  <1>0. /\ FolderTypes /\ Drawn /\ Current /\ EffectiveIsInherited
        /\ Knows(jobs[t]) /\ \A u \in Thread : Knows(jobs[u])
    BY EachKnows DEF FolderInv
  <1>a. PICK n : n = ids.bucket + 1 /\ ids' = [ids EXCEPT !.bucket = n]
    OBVIOUS
  <1>1. /\ n \in BucketId /\ ids'.bucket = n /\ ids'.folder = ids.folder
        /\ ids' \in [bucket : 0 .. MaxBuckets, folder : 0 .. MaxFolders]
        /\ \A b \in BucketId \union {0} : b <= ids.bucket => b <= n /\ b # n
        /\ n <= n
    BY <1>a, OneMoreBucket
  <1>2. PICK doc \in BucketDoc : buckets' = [buckets EXCEPT ![n] = doc]
    BY <1>0, <1>1 DEF Knows, JobFits, BucketDoc, Uids
  <1>3. \A b \in BucketId : buckets'[b] = IF b = n THEN doc ELSE buckets[b]
    BY <1>0, <1>2 DEF FolderTypes
  <1>6. \A u \in Thread : jobs'[u] = IF u = t THEN NoJob ELSE jobs[u]
    BY <1>0 DEF Done, Becomes, FolderTypes
  <1>7. FolderTypes'
    <2>1. jobs' \in [Thread -> Job]
      BY <1>0, NoJobIsJob DEF Done, Becomes, FolderTypes
    <2>2. buckets' \in [BucketId -> BucketDoc \union {None}]
      BY <1>0, <1>2 DEF FolderTypes
    <2> QED
      BY <1>0, <1>1, <2>1, <2>2 DEF FolderTypes
  <1>8. Drawn'
    <2>1. \A b \in BucketId : buckets'[b] # None => b <= ids'.bucket
      BY <1>0, <1>1, <1>3 DEF Drawn
    <2>2. \A f \in FolderId : folders'[f] # None => f <= ids'.folder /\ folders'[f].bucket <= ids'.bucket
      BY <1>0, <1>1 DEF Drawn, FolderTypes, FolderDoc
    <2>3. \A u \in Thread : jobs'[u].parent # None => jobs'[u].bucket <= ids'.bucket
      BY <1>0, <1>1, <1>6, Sizes, NoJobIsJob DEF Drawn
    <2>4. \A u \in Thread : jobs'[u].folder <= ids'.folder
      BY <1>0, <1>1, <1>6, Sizes, NoJobIsJob DEF Drawn
    <2> QED
      BY <2>1, <2>2, <2>3, <2>4 DEF Drawn
  <1>9. Current'
    <2> SUFFICES ASSUME NEW u \in Thread, jobs'[u].parent # None, jobs'[u].bucket \in BucketId,
                        ~jobs'[u].stale, buckets'[jobs'[u].bucket] # None
                 PROVE  jobs'[u].parent.access = buckets'[jobs'[u].bucket].access
      BY DEF Current
    <2>1. u # t /\ jobs'[u] = jobs[u] /\ jobs[u].bucket <= ids.bucket
      BY <1>0, <1>6, NoJobIsJob DEF Drawn
    <2>2. buckets'[jobs[u].bucket] = buckets[jobs[u].bucket]
      BY <1>1, <1>3, <2>1
    <2> QED
      BY <1>0, <2>1, <2>2 DEF Current
  <1>10. EffectiveIsInherited'
    BY <1>0, <1>1, <1>3 DEF EffectiveIsInherited, Drawn, FolderTypes, FolderDoc
  <1>11. \A u \in Thread : JobFits(jobs'[u])
    BY <1>0, <1>6, NoJobIsJob DEF Knows
  <1> QED
    BY <1>7, <1>8, <1>9, <1>10, <1>11 DEF FolderInv

LEMMA PutBucket ==
  ASSUME FolderInv, NEW t \in Thread, jobs[t].op = "bucket put", jobs[t].edit # None,
         buckets[jobs[t].bucket] # None,
         buckets' = [buckets EXCEPT ![jobs[t].bucket].access = jobs[t].edit],
         Drifts(t, jobs[t].bucket), UNCHANGED <<ids, folders>>
  PROVE  FolderInv'
  <1>0. /\ FolderTypes /\ Drawn /\ Current /\ EffectiveIsInherited
        /\ Knows(jobs[t]) /\ \A u \in Thread : Knows(jobs[u])
    BY EachKnows DEF FolderInv
  <1>1. PICK b \in BucketId : b = jobs[t].bucket
    BY <1>0 DEF Knows, JobFits, BucketOps
  <1>2. [buckets[b] EXCEPT !.access = jobs[t].edit] \in BucketDoc
    <2>1. jobs[t].edit \in Sharings /\ buckets[b] \in BucketDoc
      BY <1>0, <1>1 DEF Knows, Job, FolderTypes
    <2> QED
      BY <2>1 DEF BucketDoc
  <1>3. PICK doc \in BucketDoc : buckets' = [buckets EXCEPT ![b] = doc]
    BY <1>1, <1>2
  <1>4. buckets' \in [BucketId -> BucketDoc \union {None}]
        /\ \A c \in BucketId : buckets'[c] = IF c = b THEN doc ELSE buckets[c]
    BY <1>0, <1>3 DEF FolderTypes
  <1>5. \A u \in Thread :
           /\ jobs'[u] \in Job /\ JobFits(jobs'[u])
           /\ jobs'[u].folder <= ids.folder
           /\ jobs'[u].parent # None =>
                 /\ jobs'[u].bucket <= ids.bucket
                 /\ (jobs'[u].bucket = b => jobs'[u].stale)
                 /\ (~jobs'[u].stale => u # t /\ ~jobs[u].stale /\ jobs'[u].bucket = jobs[u].bucket
                                          /\ jobs'[u].parent = jobs[u].parent)
    <2> TAKE u \in Thread
    <2>1. jobs'[u] = IF u = t THEN NoJob
                     ELSE [jobs[u] EXCEPT !.stale = jobs[u].stale \/ (jobs[u].bucket = b /\ jobs[u].parent # None)]
      BY <1>1 DEF Drifts
    <2>2. CASE u = t
      <3>1. jobs'[u] = NoJob /\ 0 <= ids.folder
        BY <2>1, <2>2, Sizes
      <3> QED
        BY <2>2, <3>1, NoJobIsJob
    <2>3. CASE u # t
      <3>1. PICK s \in BOOLEAN : s = (jobs[u].stale \/ (jobs[u].bucket = b /\ jobs[u].parent # None))
        BY Zenon
      <3>2. jobs'[u] = [jobs[u] EXCEPT !.stale = s] /\ jobs[u] \in Job /\ JobFits(jobs[u])
        BY <1>0, <2>1, <2>3, <3>1, Zenon DEF Knows
      <3>3. /\ jobs'[u] \in Job /\ jobs'[u].op = jobs[u].op /\ jobs'[u].at = jobs[u].at
            /\ jobs'[u].ctx = jobs[u].ctx /\ jobs'[u].bucket = jobs[u].bucket
            /\ jobs'[u].folder = jobs[u].folder /\ jobs'[u].parent = jobs[u].parent
            /\ jobs'[u].edit = jobs[u].edit /\ jobs'[u].stale = s
        BY <3>2 DEF Job
      <3>4. JobFits(jobs'[u])
        BY <3>2, <3>3 DEF JobFits, Parented
      <3>5. jobs[u].folder <= ids.folder /\ (jobs[u].parent # None => jobs[u].bucket <= ids.bucket)
        BY <1>0 DEF Knows
      <3>6. s = FALSE => ~jobs[u].stale /\ ~(jobs[u].bucket = b /\ jobs[u].parent # None)
        BY <3>1, Zenon
      <3> QED
        BY <2>3, <3>1, <3>3, <3>4, <3>5, <3>6
    <2> QED
      BY <2>2, <2>3
  <1>6. jobs' \in [Thread -> Job]
    BY <1>5 DEF Drifts
  <1>7. FolderTypes'
    BY <1>0, <1>4, <1>6 DEF FolderTypes
  <1>8. Drawn'
    BY <1>0, <1>4, <1>5, <1>1 DEF Drawn
  <1>9. Current'
    <2> SUFFICES ASSUME NEW u \in Thread, jobs'[u].parent # None, jobs'[u].bucket \in BucketId,
                        ~jobs'[u].stale, buckets'[jobs'[u].bucket] # None
                 PROVE  jobs'[u].parent.access = buckets'[jobs'[u].bucket].access
      BY DEF Current
    <2>1. ~jobs[u].stale /\ jobs'[u].bucket = jobs[u].bucket /\ jobs'[u].parent = jobs[u].parent
          /\ jobs[u].bucket # b
      BY <1>5
    <2> QED
      BY <1>0, <1>4, <2>1 DEF Current
  <1>10. EffectiveIsInherited'
    <2>1. \A f \in FolderId : folders[f] # None /\ folders[f].bucket = b => f \in drifted'
      BY <1>1 DEF Drifts
    <2>2. drifted \subseteq drifted'
      BY DEF Drifts
    <2> QED
      BY <1>0, <1>4, <2>1, <2>2 DEF EffectiveIsInherited, FolderTypes, FolderDoc
  <1> QED
    BY <1>5, <1>7, <1>8, <1>9, <1>10 DEF FolderInv

LEMMA DeleteBucket ==
  ASSUME FolderInv, NEW t \in Thread, jobs[t].op = "bucket delete",
         buckets' = [buckets EXCEPT ![jobs[t].bucket] = None],
         Done(t), UNCHANGED <<ids, folders, drifted>>
  PROVE  FolderInv'
  <1>0. /\ FolderTypes /\ Drawn /\ Current /\ EffectiveIsInherited
        /\ \A u \in Thread : Knows(jobs[u])
    BY EachKnows DEF FolderInv
  <1>1. \A u \in Thread : jobs'[u] = IF u = t THEN NoJob ELSE jobs[u]
    BY <1>0 DEF Done, Becomes, FolderTypes
  <1>2. \A b \in BucketId : buckets'[b] # None => buckets'[b] = buckets[b]
    BY <1>0 DEF FolderTypes
  <1>3. FolderTypes'
    BY <1>0, NoJobIsJob DEF Done, Becomes, FolderTypes
  <1>4. Drawn'
    <2>1. 0 <= ids.folder
      BY Sizes
    <2> QED
      BY <1>0, <1>1, <1>2, <2>1, NoJobIsJob DEF Drawn
  <1>5. Current'
    <2> SUFFICES ASSUME NEW u \in Thread, jobs'[u].parent # None, jobs'[u].bucket \in BucketId,
                        ~jobs'[u].stale, buckets'[jobs'[u].bucket] # None
                 PROVE  jobs'[u].parent.access = buckets'[jobs'[u].bucket].access
      BY DEF Current
    <2>1. jobs'[u] = jobs[u]
      BY <1>1, NoJobIsJob
    <2> QED
      BY <1>0, <1>2, <2>1 DEF Current
  <1>6. EffectiveIsInherited'
    BY <1>0, <1>2 DEF EffectiveIsInherited, FolderTypes, FolderDoc
  <1>7. \A u \in Thread : JobFits(jobs'[u])
    BY <1>0, <1>1, NoJobIsJob DEF Knows
  <1> QED
    BY <1>3, <1>4, <1>5, <1>6, <1>7 DEF FolderInv

LEMMA BucketWritten ==
  ASSUME FolderInv, NEW t \in Thread, WriteBucket(t)
  PROVE  FolderInv'
  <1>1. CASE Done(t) /\ UNCHANGED <<ids, buckets, folders, drifted>>
    BY <1>1, Moves, NothingKnown DEF Done
  <1> QED
    BY <1>1, PostBucket, PutBucket, DeleteBucket DEF WriteBucket

LEMMA PostFolder ==
  ASSUME FolderInv, NEW t \in Thread, jobs[t].op = "folder post", jobs[t].at = "write",
         ids.folder < MaxFolders,
         ids' = [ids EXCEPT !.folder = @ + 1],
         folders' = [folders EXCEPT ![ids'.folder] =
                       [bucket |-> jobs[t].bucket, owner |-> jobs[t].ctx.uid, own |-> jobs[t].edit,
                        effective |-> Effective(jobs[t].edit, jobs[t].parent)]],
         drifted' = drifted \union (IF jobs[t].stale THEN {ids'.folder} ELSE {}),
         Done(t), UNCHANGED buckets
  PROVE  FolderInv'
  <1>0. /\ FolderTypes /\ Drawn /\ Current /\ EffectiveIsInherited
        /\ Knows(jobs[t]) /\ \A u \in Thread : Knows(jobs[u])
    BY EachKnows DEF FolderInv
  <1>a. PICK n : n = ids.folder + 1 /\ ids' = [ids EXCEPT !.folder = n]
    OBVIOUS
  <1>1. /\ n \in FolderId /\ ids'.folder = n /\ ids'.bucket = ids.bucket
        /\ ids' \in [bucket : 0 .. MaxBuckets, folder : 0 .. MaxFolders]
        /\ \A f \in FolderId \union {0} : f <= ids.folder => f <= n /\ f # n
        /\ n <= n
    BY <1>a, OneMoreFolder
  <1>b. PICK doc : doc = [bucket |-> jobs[t].bucket, owner |-> jobs[t].ctx.uid, own |-> jobs[t].edit,
                          effective |-> Effective(jobs[t].edit, jobs[t].parent)]
    OBVIOUS
  <1>2. /\ jobs[t].parent \in BucketDoc /\ jobs[t].parent # None /\ jobs[t].bucket \in BucketId /\ jobs[t].bucket <= ids.bucket
        /\ jobs[t].edit \in Sharings \union {None} /\ jobs[t].ctx.uid \in Uids
    BY <1>0 DEF Knows, JobFits, Parented, Job, Uids
  <1>3. /\ doc \in FolderDoc /\ doc.bucket = jobs[t].bucket
        /\ (doc.own # None => doc.effective = doc.own)
        /\ (doc.own = None => doc.effective = jobs[t].parent.access)
    BY <1>b, <1>2 DEF FolderDoc, BucketDoc, Effective
  <1>4. folders' = [folders EXCEPT ![n] = doc]
    BY <1>1, <1>b
  <1>5. folders' \in [FolderId -> FolderDoc \union {None}]
        /\ \A f \in FolderId : folders'[f] = IF f = n THEN doc ELSE folders[f]
    <2>1. folders \in [FolderId -> FolderDoc \union {None}]
      BY <1>0 DEF FolderTypes
    <2> QED
      BY ONLY <1>1, <1>3, <1>4, <2>1
  <1>6. /\ jobs' \in [Thread -> Job]
        /\ \A u \in Thread : jobs'[u] = IF u = t THEN NoJob ELSE jobs[u]
    BY <1>0, NoJobIsJob DEF Done, Becomes, FolderTypes
  <1>7. FolderTypes'
    BY <1>0, <1>1, <1>5, <1>6 DEF FolderTypes
  <1>8. Drawn'
    <2>1. \A b \in BucketId : buckets'[b] # None => b <= ids'.bucket
      BY <1>0, <1>1 DEF Drawn
    <2>2. \A f \in FolderId : folders'[f] # None => f <= ids'.folder /\ folders'[f].bucket <= ids'.bucket
      BY <1>0, <1>1, <1>2, <1>3, <1>5 DEF Drawn
    <2>3. \A u \in Thread : jobs'[u].parent # None => jobs'[u].bucket <= ids'.bucket
      BY <1>0, <1>1, <1>6, NoJobIsJob DEF Drawn
    <2>4. \A u \in Thread : jobs'[u].folder <= ids'.folder
      BY <1>0, <1>1, <1>6, Sizes, NoJobIsJob DEF Drawn
    <2> QED
      BY <2>1, <2>2, <2>3, <2>4 DEF Drawn
  <1>9. Current'
    <2> SUFFICES ASSUME NEW u \in Thread, jobs'[u].parent # None, jobs'[u].bucket \in BucketId,
                        ~jobs'[u].stale, buckets'[jobs'[u].bucket] # None
                 PROVE  jobs'[u].parent.access = buckets'[jobs'[u].bucket].access
      BY DEF Current
    <2>1. jobs'[u] = jobs[u]
      BY <1>6, NoJobIsJob
    <2> QED
      BY <1>0, <2>1 DEF Current
  <1>10. EffectiveIsInherited'
    <2> SUFFICES ASSUME NEW f \in FolderId, folders'[f] # None
                 PROVE  IF folders'[f].own # None THEN folders'[f].effective = folders'[f].own
                        ELSE (buckets'[folders'[f].bucket] # None /\ f \notin drifted'
                                => folders'[f].effective = buckets'[folders'[f].bucket].access)
      BY DEF EffectiveIsInherited
    <2>1. CASE f = n
      <3>1. f \notin drifted' => ~jobs[t].stale
        BY <1>1, <2>1
      <3>2. f \notin drifted' /\ buckets[jobs[t].bucket] # None
               => jobs[t].parent.access = buckets[jobs[t].bucket].access
        BY <1>0, <1>2, <3>1 DEF Knows
      <3> QED
        BY <1>3, <1>5, <2>1, <3>2
    <2>2. CASE f # n
      <3>1. f \notin drifted' => f \notin drifted
        OBVIOUS
      <3>2. folders'[f] = folders[f] /\ buckets' = buckets
        BY <1>5, <2>2
      <3>3. IF folders[f].own # None THEN folders[f].effective = folders[f].own
            ELSE (buckets[folders[f].bucket] # None /\ f \notin drifted
                    => folders[f].effective = buckets[folders[f].bucket].access)
        BY <1>0, <3>2 DEF EffectiveIsInherited
      <3> QED
        BY <3>1, <3>2, <3>3
    <2> QED
      BY <2>1, <2>2
  <1>11. \A u \in Thread : JobFits(jobs'[u])
    BY <1>0, <1>6, NoJobIsJob DEF Knows
  <1> QED
    BY <1>7, <1>8, <1>9, <1>10, <1>11 DEF FolderInv

\* A folder that is there is written over, or goes.
LEMMA WritesOver ==
  ASSUME FolderInv, NEW t \in Thread, NEW n \in FolderId, NEW doc \in FolderDoc \union {None},
         folders' = [folders EXCEPT ![n] = doc],
         doc # None => /\ folders[n] # None /\ doc.bucket = folders[n].bucket
                       /\ doc = folders[n] \/ (doc.own # None /\ doc.effective = doc.own),
         Done(t), UNCHANGED <<ids, buckets, drifted>>
  PROVE  FolderInv'
  <1>0. /\ FolderTypes /\ Drawn /\ Current /\ EffectiveIsInherited
        /\ \A u \in Thread : Knows(jobs[u])
    BY EachKnows DEF FolderInv
  <1>1. folders' \in [FolderId -> FolderDoc \union {None}]
        /\ \A f \in FolderId : folders'[f] = IF f = n THEN doc ELSE folders[f]
    BY <1>0 DEF FolderTypes
  <1>2. /\ jobs' \in [Thread -> Job]
        /\ \A u \in Thread : jobs'[u] = IF u = t THEN NoJob ELSE jobs[u]
    BY <1>0, NoJobIsJob DEF Done, Becomes, FolderTypes
  <1>3. FolderTypes'
    BY <1>0, <1>1, <1>2 DEF FolderTypes
  <1>4. Drawn'
    BY <1>0, <1>1, <1>2, Sizes, NoJobIsJob DEF Drawn
  <1>5. Current'
    <2> SUFFICES ASSUME NEW u \in Thread, jobs'[u].parent # None, jobs'[u].bucket \in BucketId,
                        ~jobs'[u].stale, buckets'[jobs'[u].bucket] # None
                 PROVE  jobs'[u].parent.access = buckets'[jobs'[u].bucket].access
      BY DEF Current
    <2>1. jobs'[u] = jobs[u]
      BY <1>2, NoJobIsJob
    <2> QED
      BY <1>0, <2>1 DEF Current
  <1>6. EffectiveIsInherited'
    BY <1>0, <1>1 DEF EffectiveIsInherited
  <1>7. \A u \in Thread : JobFits(jobs'[u])
    BY <1>0, <1>2, NoJobIsJob DEF Knows
  <1> QED
    BY <1>3, <1>4, <1>5, <1>6, <1>7 DEF FolderInv

LEMMA FolderWritten ==
  ASSUME FolderInv, NEW t \in Thread, WriteFolder(t)
  PROVE  FolderInv'
  <1>0. Knows(jobs[t]) /\ FolderTypes /\ Done(t) /\ UNCHANGED buckets
    BY EachKnows DEF WriteFolder, FolderInv
  <1>1. CASE UNCHANGED <<ids, folders, drifted>>
    BY <1>0, <1>1, Moves, NothingKnown DEF Done
  <1>2. ASSUME jobs[t].op = "folder put", folders[jobs[t].folder] # None,
               folders' = [folders EXCEPT ![jobs[t].folder] = Reset(@, jobs[t].edit, jobs[t].parent)],
               UNCHANGED <<ids, drifted>>
        PROVE  FolderInv'
    <2>1. PICK n \in FolderId : n = jobs[t].folder
      BY <1>0, <1>2 DEF Knows, JobFits, FolderOps
    <2>2. PICK doc : doc = Reset(folders[n], jobs[t].edit, jobs[t].parent)
      OBVIOUS
    <2>3. /\ doc \in FolderDoc /\ doc.bucket = folders[n].bucket
          /\ doc = folders[n] \/ (doc.own # None /\ doc.effective = doc.own)
      <3>1. folders[n] \in FolderDoc /\ jobs[t].edit \in Sharings \union {None}
        BY <1>0, <1>2, <2>1 DEF Knows, Job, FolderTypes
      <3> QED
        BY <2>2, <3>1 DEF Reset, FolderDoc, Effective
    <2>4. folders' = [folders EXCEPT ![n] = doc] /\ folders[n] # None
      BY <1>2, <2>1, <2>2
    <2> QED
      BY <1>0, <1>2, <2>3, <2>4, WritesOver
  <1>3. ASSUME jobs[t].op = "folder delete", folders' = [folders EXCEPT ![jobs[t].folder] = None],
               UNCHANGED <<ids, drifted>>
        PROVE  FolderInv'
    <2>1. PICK n \in FolderId : n = jobs[t].folder
      BY <1>0, <1>3 DEF Knows, JobFits, FolderOps
    <2>2. folders' = [folders EXCEPT ![n] = None]
      BY <1>3, <2>1
    <2> QED
      BY <1>0, <1>3, <2>2, WritesOver
  <1> QED
    BY <1>0, <1>1, <1>2, <1>3, PostFolder DEF WriteFolder

-----------------------------------------------------------------------------
(* What is made on first need: whoever goes to make it found it missing,   *)
(* and it still is unless another has made it since, which leaves it late. *)

MadeTypes ==
    /\ homes \in [Uids -> Nat] /\ corpora \in [Uids -> Nat] /\ profile \in [Uids -> Nat]
    /\ holding \in [Uids -> SUBSET Nat]
    /\ \A u \in Uids : profile[u] <= corpora[u] /\ \A c \in holding[u] : c # 0 /\ c <= corpora[u]

Making(job, kind, places, u) == job.op = kind /\ job.at \in places /\ job.ctx.uid = u

NumberFits(job) == \A u \in Uids :
    Making(job, "corpus", {"record", "import"}, u) => job.corpus # 0 /\ job.corpus <= corpora[u]

\* What a job that is not late found missing.
StillMissing(job) == \A u \in Uids : ~job.late =>
    /\ Making(job, "home", {"make"}, u) => homes[u] = 0
    /\ Making(job, "corpus", {"make", "record"}, u) => profile[u] = 0

\* An import goes to the corpus the profile names, unless two were made at once.
Imports(job) == \A u \in Uids :
    Making(job, "corpus", {"import"}, u) => <<"corpus", u>> \in contested \/ job.corpus = profile[u]

JobMakes(job) == NumberFits(job) /\ StillMissing(job) /\ Imports(job)

MadeInv == MadeTypes /\ (\A t \in Thread : JobMakes(jobs[t])) /\ MadeOnce

SharingInv == FolderInv /\ MadeInv

LEMMA MadeInitially == SharingInit => SharingInv
  <1> SUFFICES ASSUME SharingInit PROVE MadeInv
    BY FolderInitially DEF SharingInv
  <1>1. MadeTypes
    BY DEF SharingInit, MadeTypes
  <1>2. MadeOnce
    BY DEF SharingInit, MadeOnce
  <1>3. \A t \in Thread : JobMakes(jobs[t])
    BY NoJobIsJob DEF SharingInit, JobMakes, NumberFits, StillMissing, Imports, Making
  <1> QED
    BY <1>1, <1>2, <1>3 DEF MadeInv

LEMMA NothingMade == JobMakes(NoJob)
  BY NoJobIsJob DEF JobMakes, NumberFits, StillMissing, Imports, Making

\* A job of another kind, or that has found nothing missing yet.
LEMMA MakesNothing ==
  ASSUME NEW job, job.op \notin {"home", "corpus"} \/ job.at = "look"
  PROVE  JobMakes(job)
  BY DEF JobMakes, NumberFits, StillMissing, Imports, Making

LEMMA KeepsMade ==
  ASSUME SharingInv, UNCHANGED <<homes, profile, corpora, holding, contested>>,
         \A u \in Thread : jobs'[u] = jobs[u] \/ JobMakes(jobs'[u])
  PROVE  MadeInv'
  <1>1. MadeTypes' /\ MadeOnce'
    BY DEF SharingInv, MadeInv, MadeTypes, MadeOnce
  <1>2. ASSUME NEW u \in Thread PROVE JobMakes(jobs[u])' 
    <2>1. JobMakes(jobs'[u])
      BY DEF SharingInv, MadeInv
    <2> QED
      BY <2>1 DEF JobMakes, NumberFits, StillMissing, Imports
  <1> QED
    BY <1>1, <1>2 DEF MadeInv

\* The step of a job that is not one of these.
LEMMA KeepsMadeBy ==
  ASSUME SharingInv, NEW t \in Thread, NEW job, Becomes(t, job), JobMakes(job),
         UNCHANGED <<homes, profile, corpora, holding, contested>>
  PROVE  MadeInv'
  <1>1. \A u \in Thread : jobs'[u] = IF u = t THEN job ELSE jobs[u]
    BY DEF Becomes, SharingInv, FolderInv, FolderTypes
  <1> QED
    BY <1>1, KeepsMade

LEMMA FolderStepsMakeNothing ==
  ASSUME SharingInv, NEW t \in Thread,
         Ask(t) \/ Need(t) \/ Parent(t) \/ Item(t) \/ Again(t) \/ WriteBucket(t) \/ WriteFolder(t)
  PROVE  MadeInv'
  <1>0. Knows(jobs[t]) /\ jobs \in [Thread -> Job]
    BY EachKnows DEF SharingInv, FolderInv, FolderTypes
  <1>1. ASSUME Ask(t) \/ Need(t)
        PROVE  MadeInv'
    <2>1. PICK op, person, first :
             Begins(t, op, person, first) /\ (op \in {"home", "corpus"} => first.at = "look")
      BY <1>1, Opened DEF SharingInv, Opening
    <2>2. PICK job : /\ job = [NoJob EXCEPT !.op = op, !.at = first.at, !.ctx = person,
                                      !.bucket = first.bucket, !.folder = first.folder, !.edit = first.edit]
                     /\ Becomes(t, job) /\ UNCHANGED stored
      BY <2>1 DEF Begins
    <2>3. job.op = op /\ job.at = first.at
      <3>1. PICK half : half = [NoJob EXCEPT !.op = op, !.at = first.at, !.ctx = person]
        OBVIOUS
      <3>2. job = [half EXCEPT !.bucket = first.bucket, !.folder = first.folder, !.edit = first.edit]
        BY <2>2, <3>1
      <3> QED
        BY <3>1, <3>2 DEF NoJob
    <2>4. JobMakes(job)
      BY <2>1, <2>3, MakesNothing
    <2> QED
      BY <2>2, <2>4, KeepsMadeBy DEF stored
  <1>2. ASSUME NEW job, Becomes(t, job), job = NoJob \/ job.op \notin {"home", "corpus"},
               UNCHANGED <<homes, profile, corpora, holding, contested>>
        PROVE  MadeInv'
    <2>1. JobMakes(job)
      BY <1>2, NothingMade, MakesNothing
    <2> QED
      BY <1>2, <2>1, KeepsMadeBy
  <1>3. CASE Parent(t)
    <2>1. jobs[t].op \notin {"home", "corpus"}
      BY <1>0, <1>3 DEF Knows, JobFits, Parent
    <2>2. PICK job : Becomes(t, job) /\ (job = NoJob \/ job.op \notin {"home", "corpus"})
      <3>1. PICK read : read = [jobs[t] EXCEPT !.parent = buckets[jobs[t].bucket]]
        OBVIOUS
      <3>2. \A place : [read EXCEPT !.at = place].op = jobs[t].op
        BY <1>0, <3>1 DEF Job
      <3> QED
        BY <1>3, <2>1, <3>1, <3>2 DEF Parent, Done
    <2> QED
      BY <1>2, <1>3, <2>2 DEF Parent, stored
  <1>4. CASE Item(t)
    <2>1. jobs[t].op \notin {"home", "corpus"}
      BY <1>0, <1>4 DEF Knows, JobFits, Item
    <2>2. PICK job : Becomes(t, job) /\ (job = NoJob \/ job.op \notin {"home", "corpus"})
      <3>1. [jobs[t] EXCEPT !.at = "again", !.item = folders[jobs[t].folder]].op = jobs[t].op
        BY <1>0 DEF Job
      <3> QED
        BY <1>4, <2>1, <3>1 DEF Item, Done
    <2> QED
      BY <1>2, <1>4, <2>2 DEF Item, stored
  <1>5. CASE Again(t)
    <2>1. jobs[t].op \notin {"home", "corpus"}
      BY <1>0, <1>5 DEF Knows, JobFits, Again
    <2>2. PICK job : Becomes(t, job) /\ (job = NoJob \/ job.op \notin {"home", "corpus"})
      <3>1. [jobs[t] EXCEPT !.at = "write"].op = jobs[t].op
        BY <1>0 DEF Job
      <3> QED
        BY <1>5, <2>1, <3>1 DEF Again, Done, Steps
    <2> QED
      BY <1>2, <1>5, <2>2 DEF Again, stored
  <1>6. CASE WriteBucket(t)
    <2>1. UNCHANGED <<homes, profile, corpora, holding, contested>>
      BY <1>6 DEF WriteBucket
    <2>2. CASE Done(t)
      BY <1>2, <2>1, <2>2 DEF Done
    <2>3. CASE Drifts(t, jobs[t].bucket)
      <3>1. \A u \in Thread : JobMakes(jobs'[u])
        <4> TAKE u \in Thread
        <4>1. CASE u = t
          <5>1. jobs'[u] = NoJob
            BY <2>3, <4>1 DEF Drifts
          <5> QED
            BY <5>1, NothingMade
        <4>2. CASE u # t
          <5>1. /\ jobs'[u].op = jobs[u].op /\ jobs'[u].at = jobs[u].at /\ jobs'[u].ctx = jobs[u].ctx
                /\ jobs'[u].corpus = jobs[u].corpus /\ jobs'[u].late = jobs[u].late
            BY <1>0, <2>3, <4>2 DEF Drifts, Job
          <5>2. JobMakes(jobs[u])
            BY DEF SharingInv, MadeInv
          <5> QED
            BY <5>1, <5>2 DEF JobMakes, NumberFits, StillMissing, Imports, Making
        <4> QED
          BY <4>1, <4>2
      <3> QED
        BY <2>1, <3>1, KeepsMade
    <2> QED
      BY <1>6, <2>2, <2>3 DEF WriteBucket
  <1>7. CASE WriteFolder(t)
    BY <1>2, <1>7 DEF WriteFolder, Done
  <1> QED
    BY <1>1, <1>3, <1>4, <1>5, <1>6, <1>7

MovedTo(job, place, c) == [job EXCEPT !.at = place, !.corpus = c]

LEMMA GoesOnMaking ==
  ASSUME FolderInv, NEW t \in Thread, jobs[t].op \in {"home", "corpus"},
         NEW place \in {"make", "record", "import"}, jobs[t].op = "home" => place = "make",
         NEW c \in Nat, NEW job, job = MovedTo(jobs[t], place, c)
  PROVE  /\ Knows(job) /\ job.op = jobs[t].op /\ job.at = place /\ job.ctx = jobs[t].ctx
         /\ job.corpus = c /\ job.late = jobs[t].late
  <1>0. Knows(jobs[t]) /\ jobs[t] \in Job
    BY EachKnows DEF Knows
  <1>1. /\ job \in Job /\ job.op = jobs[t].op /\ job.at = place /\ job.ctx = jobs[t].ctx
        /\ job.corpus = c /\ job.late = jobs[t].late
        /\ job.folder = jobs[t].folder /\ job.bucket = jobs[t].bucket /\ job.parent = jobs[t].parent
        /\ job.stale = jobs[t].stale
    BY <1>0 DEF Job, Places, MovedTo
  <1>2. JobFits(job)
    BY <1>0, <1>1 DEF Knows, JobFits, Parented, BucketOps, FolderOps
  <1> QED
    BY <1>0, <1>1, <1>2 DEF Knows

LEMMA SamePlace ==
  ASSUME FolderInv, NEW t \in Thread
  PROVE  /\ \A place : [jobs[t] EXCEPT !.at = place] = [jobs[t] EXCEPT !.at = place, !.corpus = jobs[t].corpus]
         /\ jobs[t].corpus \in Nat
  BY DEF FolderInv, FolderTypes, Job

LEMMA TurnsLate ==
  ASSUME FolderInv, NEW u \in Thread, NEW b \in BOOLEAN, NEW job, job = [jobs[u] EXCEPT !.late = b]
  PROVE  /\ Knows(job) /\ job.op = jobs[u].op /\ job.at = jobs[u].at /\ job.ctx = jobs[u].ctx
         /\ job.corpus = jobs[u].corpus /\ job.late = b
  <1>0. Knows(jobs[u]) /\ jobs[u] \in Job
    BY EachKnows DEF Knows
  <1>1. /\ job \in Job /\ job.op = jobs[u].op /\ job.at = jobs[u].at /\ job.ctx = jobs[u].ctx
        /\ job.corpus = jobs[u].corpus /\ job.late = b
        /\ job.folder = jobs[u].folder /\ job.bucket = jobs[u].bucket /\ job.parent = jobs[u].parent
        /\ job.stale = jobs[u].stale /\ job.edit = jobs[u].edit
    BY <1>0 DEF Job
  <1>2. JobFits(job)
    BY <1>0, <1>1 DEF Knows, JobFits, Parented
  <1> QED
    BY <1>0, <1>1, <1>2 DEF Knows

\* What Makes does to the jobs.
LEMMA MakesLate ==
  ASSUME FolderInv, NEW t \in Thread, NEW job, Knows(job), Makes(t, job)
  PROVE  /\ jobs' \in [Thread -> Job] /\ jobs'[t] = job
         /\ \A u \in Thread \ {t} :
               /\ Knows(jobs'[u]) /\ jobs'[u].op = jobs[u].op /\ jobs'[u].at = jobs[u].at
               /\ jobs'[u].ctx = jobs[u].ctx /\ jobs'[u].corpus = jobs[u].corpus
               /\ ~jobs'[u].late <=>
                     ~jobs[u].late /\ ~(jobs[u].op = jobs[t].op /\ jobs[u].at \in {"make", "record"}
                                          /\ jobs[u].ctx.uid = jobs[t].ctx.uid)
         /\ contested \subseteq contested'
         /\ jobs[t].late => <<jobs[t].op, jobs[t].ctx.uid>> \in contested'
         /\ \A u \in Thread : Knows(jobs'[u])
  <1> DEFINE With(u) == jobs[u].op = jobs[t].op /\ jobs[u].at \in {"make", "record"}
                          /\ jobs[u].ctx.uid = jobs[t].ctx.uid
  <1>1. jobs' = [u \in Thread |-> IF u = t THEN job
                    ELSE [jobs[u] EXCEPT !.late = jobs[u].late \/ With(u)]]
    BY DEF Makes
  <1>2. /\ contested \subseteq contested'
        /\ jobs[t].late => <<jobs[t].op, jobs[t].ctx.uid>> \in contested'
    BY DEF Makes
  <1> HIDE DEF With
  <1>3. jobs'[t] = job
    BY <1>1
  <1>4. ASSUME NEW u \in Thread \ {t}
        PROVE  /\ Knows(jobs'[u]) /\ jobs'[u].op = jobs[u].op /\ jobs'[u].at = jobs[u].at
               /\ jobs'[u].ctx = jobs[u].ctx /\ jobs'[u].corpus = jobs[u].corpus
               /\ ~jobs'[u].late <=> ~jobs[u].late /\ ~With(u)
    <2>1. PICK b \in BOOLEAN : b = (jobs[u].late \/ With(u))
      BY Zenon
    <2>2. jobs'[u] = [jobs[u] EXCEPT !.late = b]
      BY <1>1, <2>1, Zenon
    <2>3. /\ Knows(jobs'[u]) /\ jobs'[u].op = jobs[u].op /\ jobs'[u].at = jobs[u].at
          /\ jobs'[u].ctx = jobs[u].ctx /\ jobs'[u].corpus = jobs[u].corpus /\ jobs'[u].late = b
      BY <2>2, TurnsLate
    <2>4. ~b <=> ~jobs[u].late /\ ~With(u)
      BY <2>1, Zenon
    <2> QED
      BY <2>3, <2>4
  <1>5. \A u \in Thread : Knows(jobs'[u])
    BY <1>3, <1>4
  <1>6. jobs' \in [Thread -> Job]
    BY <1>1, <1>5 DEF Knows
  <1> QED
    BY <1>2, <1>3, <1>4, <1>5, <1>6 DEF With

LEMMA HomeLooked ==
  ASSUME SharingInv, NEW t \in Thread, LookForHome(t)
  PROVE  SharingInv'
  <1>0. FolderInv /\ MadeInv /\ MadeTypes /\ Knows(jobs[t]) /\ UNCHANGED stored /\ jobs[t].op = "home"
        /\ jobs[t].at = "look"
    BY EachKnows DEF SharingInv, MadeInv, LookForHome, IsAt
  <1>1. CASE Becomes(t, NoJob)
    BY <1>0, <1>1, Moves, NothingKnown, NothingMade, KeepsMadeBy DEF stored, SharingInv
  <1>2. CASE homes[jobs[t].ctx.uid] <= 0 /\ Steps(t, "make")
    <2>1. PICK job : job = [jobs[t] EXCEPT !.at = "make", !.corpus = jobs[t].corpus] /\ Becomes(t, job)
      BY <1>0, <1>2, SamePlace DEF Steps
    <2>a. PICK c \in Nat : job = MovedTo(jobs[t], "make", c)
      BY <1>0, <2>1, SamePlace DEF MovedTo
    <2>2. /\ Knows(job) /\ job.op = "home" /\ job.at = "make" /\ job.ctx = jobs[t].ctx
      BY <1>0, <2>a, GoesOnMaking
    <2>3. homes[jobs[t].ctx.uid] = 0
      BY <1>0, <1>2 DEF Knows, JobFits, MadeTypes, Uids
    <2>4. JobMakes(job)
      BY <2>2, <2>3 DEF JobMakes, NumberFits, StillMissing, Imports, Making
    <2> QED
      BY <1>0, <2>1, <2>2, <2>4, Moves, KeepsMadeBy DEF stored, SharingInv
  <1>3. homes[jobs[t].ctx.uid] \in Nat
    BY <1>0 DEF Knows, JobFits, MadeTypes, Uids
  <1> QED
    BY <1>1, <1>2, <1>3 DEF LookForHome, Done

LEMMA HomeMade ==
  ASSUME SharingInv, NEW t \in Thread, MakeHome(t)
  PROVE  SharingInv'
  <1>0. /\ FolderInv /\ MadeInv /\ MadeTypes /\ MadeOnce /\ Knows(jobs[t])
        /\ jobs[t].op = "home" /\ jobs[t].at = "make" /\ JobMakes(jobs[t])
        /\ Makes(t, NoJob)
        /\ UNCHANGED <<ids, buckets, folders, profile, corpora, holding, drifted>>
    BY EachKnows DEF SharingInv, MadeInv, MakeHome, IsAt
  <1>1. PICK v \in Uids : v = jobs[t].ctx.uid
    BY <1>0 DEF Knows, JobFits, Uids
  <1>2. /\ homes' \in [Uids -> Nat]
        /\ \A u \in Uids : homes'[u] = IF u = v THEN homes[v] + 1 ELSE homes[u]
    BY <1>0, <1>1 DEF MakeHome, MadeTypes
  <1>3. /\ jobs' \in [Thread -> Job] /\ jobs'[t] = NoJob
        /\ \A u \in Thread \ {t} :
               /\ jobs'[u].op = jobs[u].op /\ jobs'[u].at = jobs[u].at
               /\ jobs'[u].ctx = jobs[u].ctx /\ jobs'[u].corpus = jobs[u].corpus
               /\ ~jobs'[u].late => ~jobs[u].late /\ ~(jobs[u].op = "home" /\ jobs[u].at = "make"
                                                          /\ jobs[u].ctx.uid = v)
        /\ contested \subseteq contested'
        /\ jobs[t].late => <<"home", v>> \in contested'
        /\ \A u \in Thread : Knows(jobs'[u])
    BY <1>0, <1>1, MakesLate, NothingKnown
  <1>4. FolderInv'
    BY <1>0, <1>3, MovesLate
  <1>5. MadeTypes'
    BY <1>0, <1>2 DEF MadeTypes
  <1>6. ASSUME NEW u \in Thread PROVE JobMakes(jobs[u])'
    <2>1. CASE u = t
      <3>1. jobs'[u] = NoJob
        BY <1>3, <2>1
      <3> QED
        BY <3>1, NoJobIsJob DEF JobMakes, NumberFits, StillMissing, Imports, Making
    <2>2. CASE u # t
      <3>1. JobMakes(jobs[u])
        BY <1>0 DEF MadeInv
      <3> QED
        BY <1>0, <1>2, <1>3, <2>2, <3>1 DEF JobMakes, NumberFits, StillMissing, Imports, Making
    <2> QED
      BY <2>1, <2>2
  <1>7. MadeOnce'
    <2>1. homes[v] # 0 => jobs[t].late
      BY <1>0, <1>1 DEF JobMakes, StillMissing, Making
    <2>2. homes'[v] > 1 => <<"home", v>> \in contested'
      BY <1>2, <1>3, <2>1
    <2> QED
      BY <1>0, <1>2, <1>3, <2>2 DEF MadeOnce
  <1> QED
    BY <1>4, <1>5, <1>6, <1>7 DEF SharingInv, MadeInv

LEMMA CorpusLooked ==
  ASSUME SharingInv, NEW t \in Thread, LookForCorpus(t)
  PROVE  SharingInv'
  <1>0. FolderInv /\ MadeInv /\ MadeTypes /\ Knows(jobs[t]) /\ UNCHANGED stored /\ jobs[t].op = "corpus"
        /\ jobs[t].at = "look"
    BY EachKnows DEF SharingInv, MadeInv, LookForCorpus, IsAt
  <1>1. PICK u \in Uids : u = jobs[t].ctx.uid
    BY <1>0 DEF Knows, JobFits, Uids
  <1>2. profile[u] \in Nat /\ profile[u] <= corpora[u] /\ corpora[u] \in Nat
    BY <1>0 DEF MadeTypes
  <1>3. PICK place \in {"make", "record", "import"}, c \in Nat :
           /\ Becomes(t, MovedTo(jobs[t], place, c))
           /\ \/ place = "make" /\ profile[u] = 0
              \/ place = "import" /\ c = profile[u] /\ c # 0
    <2>1. CASE profile[u] # 0
      BY <1>0, <1>1, <1>2, <2>1 DEF LookForCorpus, MovedTo
    <2>2. CASE profile[u] = 0
      BY <1>0, <1>1, <1>2, <2>2, SamePlace DEF LookForCorpus, Steps, MovedTo
    <2> QED
      BY <2>1, <2>2
  <1>a. PICK job : job = MovedTo(jobs[t], place, c)
    OBVIOUS
  <1>4. /\ Knows(job) /\ job.op = "corpus" /\ job.at = place /\ job.ctx = jobs[t].ctx /\ job.corpus = c
    BY <1>0, <1>3, <1>a, GoesOnMaking
  <1>5. JobMakes(job)
    BY <1>1, <1>2, <1>3, <1>4 DEF JobMakes, NumberFits, StillMissing, Imports, Making
  <1> QED
    BY <1>0, <1>3, <1>a, <1>4, <1>5, Moves, KeepsMadeBy DEF stored, SharingInv

LEMMA CorpusMade ==
  ASSUME SharingInv, NEW t \in Thread, MakeCorpus(t)
  PROVE  SharingInv'
  <1>0. /\ FolderInv /\ MadeInv /\ MadeTypes /\ MadeOnce /\ Knows(jobs[t])
        /\ jobs[t].op = "corpus" /\ jobs[t].at = "make" /\ JobMakes(jobs[t])
        /\ UNCHANGED <<ids, buckets, folders, homes, profile, holding, drifted, contested>>
    BY EachKnows DEF SharingInv, MadeInv, MakeCorpus, IsAt
  <1>1. PICK v \in Uids : v = jobs[t].ctx.uid
    BY <1>0 DEF Knows, JobFits, Uids
  <1>2. corpora[v] \in Nat /\ \A u \in Uids : corpora[u] \in Nat /\ profile[u] \in Nat
    BY <1>0 DEF MadeTypes
  <1>b. PICK c \in Nat : c = corpora[v] + 1 /\ c # 0 /\ c <= c
    BY <1>2
  <1>3. PICK job : job = MovedTo(jobs[t], "record", c) /\ Becomes(t, job)
    BY <1>1, <1>b DEF MakeCorpus, MovedTo
  <1>4. /\ corpora' \in [Uids -> Nat]
        /\ \A u \in Uids : corpora'[u] = IF u = v THEN c ELSE corpora[u]
    BY <1>0, <1>1, <1>b DEF MakeCorpus, MadeTypes
  <1>5. /\ Knows(job) /\ job.op = "corpus" /\ job.at = "record" /\ job.ctx = jobs[t].ctx /\ job.corpus = c
        /\ job.late = jobs[t].late
    BY <1>0, <1>3, GoesOnMaking
  <1>6. FolderInv'
    BY <1>0, <1>3, <1>5, Moves
  <1>7. \A u \in Uids : corpora[u] <= corpora'[u]
    BY <1>2, <1>b, <1>4
  <1>8. MadeTypes'
    BY <1>0, <1>2, <1>4, <1>7 DEF MadeTypes
  <1>9. ASSUME NEW u \in Thread PROVE JobMakes(jobs[u])'
    <2>1. jobs'[u] = IF u = t THEN job ELSE jobs[u]
      BY <1>0, <1>3 DEF Becomes, FolderInv, FolderTypes
    <2>2. CASE u = t
      <3>1. jobs'[u] = job /\ job.ctx.uid = v
        BY <1>1, <1>5, <2>1, <2>2
      <3>2. ~jobs[t].late => profile[v] = 0
        BY <1>0, <1>1 DEF JobMakes, StillMissing, Making
      <3>3. StillMissing(jobs[u])'
        BY <1>0, <1>5, <3>1, <3>2 DEF StillMissing, Making
      <3>4. NumberFits(jobs[u])'
        BY <1>b, <1>4, <1>5, <3>1 DEF NumberFits, Making
      <3>5. Imports(jobs[u])'
        BY <1>5, <3>1 DEF Imports, Making
      <3> QED
        BY <3>3, <3>4, <3>5 DEF JobMakes
    <2>3. CASE u # t
      <3>1. JobMakes(jobs[u]) /\ jobs[u].corpus \in Nat
        BY <1>0, SamePlace DEF MadeInv
      <3> QED
        BY <1>0, <1>2, <1>4, <1>7, <2>1, <2>3, <3>1 DEF JobMakes, NumberFits, StillMissing, Imports
    <2> QED
      BY <2>2, <2>3
  <1>10. MadeOnce'
    BY <1>0 DEF MadeOnce
  <1> QED
    BY <1>6, <1>8, <1>9, <1>10 DEF SharingInv, MadeInv

LEMMA CorpusRecorded ==
  ASSUME SharingInv, NEW t \in Thread, RecordCorpus(t)
  PROVE  SharingInv'
  <1>0. /\ FolderInv /\ MadeInv /\ MadeTypes /\ MadeOnce /\ Knows(jobs[t])
        /\ jobs[t].op = "corpus" /\ jobs[t].at = "record" /\ JobMakes(jobs[t])
        /\ UNCHANGED <<ids, buckets, folders, homes, corpora, holding, drifted>>
    BY EachKnows DEF SharingInv, MadeInv, RecordCorpus, IsAt
  <1>1. PICK v \in Uids : v = jobs[t].ctx.uid
    BY <1>0 DEF Knows, JobFits, Uids
  <1>2. PICK c \in Nat : c = jobs[t].corpus /\ c # 0 /\ c <= corpora[v]
    BY <1>0, <1>1, SamePlace DEF JobMakes, NumberFits, Making
  <1>3. PICK job : job = MovedTo(jobs[t], "import", c) /\ Makes(t, job)
    BY <1>0, <1>2, SamePlace DEF RecordCorpus, MovedTo
  <1>4. /\ Knows(job) /\ job.op = "corpus" /\ job.at = "import" /\ job.ctx = jobs[t].ctx /\ job.corpus = c
    BY <1>0, <1>3, GoesOnMaking
  <1>5. /\ profile' \in [Uids -> Nat]
        /\ \A u \in Uids : profile'[u] = IF u = v THEN c ELSE profile[u]
    BY <1>0, <1>1, <1>2 DEF RecordCorpus, MadeTypes
  <1>6. /\ jobs' \in [Thread -> Job] /\ jobs'[t] = job
        /\ \A u \in Thread \ {t} :
               /\ jobs'[u].op = jobs[u].op /\ jobs'[u].at = jobs[u].at
               /\ jobs'[u].ctx = jobs[u].ctx /\ jobs'[u].corpus = jobs[u].corpus
               /\ ~jobs'[u].late => ~jobs[u].late /\ ~(jobs[u].op = "corpus" /\ jobs[u].at \in {"make", "record"}
                                                          /\ jobs[u].ctx.uid = v)
        /\ contested \subseteq contested'
        /\ jobs[t].late => <<"corpus", v>> \in contested'
        /\ \A u \in Thread : Knows(jobs'[u])
    BY <1>0, <1>1, <1>3, <1>4, MakesLate
  <1>7. FolderInv'
    BY <1>0, <1>6, MovesLate
  <1>8. MadeTypes'
    BY <1>0, <1>2, <1>5 DEF MadeTypes
  <1>9. <<"corpus", v>> \notin contested' => profile[v] = 0 /\ holding[v] = {}
    <2>1. ~jobs[t].late => profile[v] = 0
      BY <1>0, <1>1 DEF JobMakes, StillMissing, Making
    <2>2. <<"corpus", v>> \notin contested => holding[v] \subseteq {profile[v]}
      BY <1>0 DEF MadeOnce
    <2> QED
      BY <1>0, <1>6, <2>1, <2>2 DEF MadeTypes
  <1>10. ASSUME NEW u \in Thread PROVE JobMakes(jobs[u])'
    <2>1. CASE u = t
      BY <1>0, <1>1, <1>2, <1>4, <1>5, <1>6, <2>1 DEF JobMakes, NumberFits, StillMissing, Imports, Making
    <2>2. CASE u # t
      <3>1. JobMakes(jobs[u])
        BY <1>0 DEF MadeInv
      <3>2. NumberFits(jobs[u])' /\ StillMissing(jobs[u])'
        BY <1>0, <1>5, <1>6, <2>2, <3>1 DEF JobMakes, NumberFits, StillMissing, Making
      <3>3. ASSUME NEW w \in Uids, Making(jobs[u], "corpus", {"import"}, w), <<"corpus", w>> \notin contested'
            PROVE  jobs[u].corpus = profile'[w]
        <4>1. jobs[u].corpus = profile[w] /\ jobs[u].corpus # 0
          BY <1>6, <3>1, <3>3 DEF JobMakes, NumberFits, Imports, Making
        <4> QED
          BY <1>5, <1>9, <3>3, <4>1
      <3> QED
        BY <1>6, <2>2, <3>2, <3>3 DEF JobMakes, Imports, Making
    <2> QED
      BY <2>1, <2>2
  <1>11. MadeOnce'
    BY <1>0, <1>5, <1>6, <1>9 DEF MadeOnce
  <1> QED
    BY <1>7, <1>8, <1>10, <1>11 DEF SharingInv, MadeInv

LEMMA Imported ==
  ASSUME SharingInv, NEW t \in Thread, Import(t)
  PROVE  SharingInv'
  <1>0. /\ FolderInv /\ MadeInv /\ MadeTypes /\ MadeOnce /\ Knows(jobs[t])
        /\ jobs[t].op = "corpus" /\ jobs[t].at = "import" /\ JobMakes(jobs[t]) /\ Becomes(t, NoJob)
        /\ UNCHANGED <<ids, buckets, folders, homes, profile, corpora, drifted, contested>>
    BY EachKnows DEF SharingInv, MadeInv, Import, IsAt, Done
  <1>1. PICK v \in Uids : v = jobs[t].ctx.uid
    BY <1>0 DEF Knows, JobFits, Uids
  <1>2. PICK c \in Nat : c = jobs[t].corpus /\ c # 0 /\ c <= corpora[v]
                        /\ (<<"corpus", v>> \in contested \/ c = profile[v])
    BY <1>0, <1>1, SamePlace DEF JobMakes, NumberFits, Imports, Making
  <1>3. FolderInv'
    BY <1>0, NothingKnown, Moves
  <1>4. /\ holding' \in [Uids -> SUBSET Nat]
        /\ \A u \in Uids : holding'[u] = holding[u] \/ (u = v /\ holding'[u] = holding[u] \union {c})
    BY <1>0, <1>1, <1>2 DEF Import, MadeTypes
  <1>5. MadeTypes'
    BY <1>0, <1>2, <1>4 DEF MadeTypes
  <1>6. MadeOnce'
    BY <1>0, <1>2, <1>4 DEF MadeOnce
  <1>7. ASSUME NEW u \in Thread PROVE JobMakes(jobs[u])'
    <2>1. jobs'[u] = IF u = t THEN NoJob ELSE jobs[u]
      BY <1>0 DEF Becomes, FolderInv, FolderTypes
    <2>2. JobMakes(jobs'[u])
      BY <1>0, <2>1, NothingMade DEF MadeInv
    <2> QED
      BY <1>0, <2>2 DEF JobMakes, NumberFits, StillMissing, Imports
  <1> QED
    BY <1>3, <1>5, <1>6, <1>7 DEF SharingInv, MadeInv

LEMMA JobFails ==
  ASSUME SharingInv, NEW t \in Thread, CallFails(t)
  PROVE  SharingInv'
  BY Moves, NothingKnown, NothingMade, KeepsMadeBy DEF SharingInv, CallFails, Done, stored

-----------------------------------------------------------------------------

LEMMA SharingStep == ASSUME SharingInv, SharingNext PROVE SharingInv'
  <1>1. PICK t \in Thread :
          \/ Ask(t) \/ Need(t) \/ Parent(t) \/ Item(t) \/ Again(t) \/ WriteBucket(t) \/ WriteFolder(t)
          \/ LookForHome(t) \/ MakeHome(t)
          \/ LookForCorpus(t) \/ MakeCorpus(t) \/ RecordCorpus(t) \/ Import(t)
          \/ CallFails(t)
    BY DEF SharingNext
  <1>2. CASE Ask(t) \/ Need(t) \/ Parent(t) \/ Item(t) \/ Again(t) \/ WriteBucket(t) \/ WriteFolder(t)
    BY <1>2, Begin, ReadParent, ReadItem, ReadAgain, BucketWritten, FolderWritten, FolderStepsMakeNothing
       DEF SharingInv
  <1> QED
    BY <1>1, <1>2, HomeLooked, HomeMade, CorpusLooked, CorpusMade, CorpusRecorded, Imported, JobFails

LEMMA SharingRests == ASSUME SharingInv, UNCHANGED sharingVars PROVE SharingInv'
  <1>1. FolderInv'
    BY DEF SharingInv, sharingVars, FolderInv, FolderTypes, Drawn, Current, EffectiveIsInherited
  <1>2. MadeInv'
    BY KeepsMade DEF sharingVars
  <1> QED
    BY <1>1, <1>2 DEF SharingInv

LEMMA SharingAlways == Spec => []SharingInv
  <1>1. Init => SharingInv
    BY MadeInitially DEF Init
  <1>2. SharingInv /\ [Next]_vars => SharingInv'
    BY SharingStep, SharingRests DEF Next, vars
  <1> QED
    BY <1>1, <1>2, PTL DEF Spec

\* A folder's access control in effect (compute_effective_access) is its own, or its bucket's
\* unless that changed since the request that wrote the folder read it.
THEOREM InheritanceTheorem == Spec => []EffectiveIsInherited
  <1>1. SharingInv => EffectiveIsInherited
    BY DEF SharingInv, FolderInv
  <1> QED
    BY <1>1, SharingAlways, PTL

\* ensure_default_folder and get_or_create_user_corpus make one each for a user, and documents
\* are in no corpus but the profile's, unless two requests were making them at once.
THEOREM MadeOnceTheorem == Spec => []MadeOnce
  <1>1. SharingInv => MadeOnce
    BY DEF SharingInv, MadeInv
  <1> QED
    BY <1>1, SharingAlways, PTL

(***************************************************************************)
(* Skills.  What a call is alone, and what it may go by: what it read was  *)
(* so when it read it (Based), what it found free is free unless another   *)
(* has taken it since (Claimed).                                           *)
(***************************************************************************)

Fields == {"op", "at", "inst", "ctx", "id", "got", "arg", "again", "public", "drop", "found",
           "todo", "rests", "since", "claims", "lost", "mixed"}
Whole(c) == c = [f \in Fields |-> c[f]]
WholeSkill(skill) == skill = [f \in {"owner", "name", "slug", "access"} |-> skill[f]]

Looking == {"look", "evict", "read", "fill", "got"}
Listing == {"invalidate", "public", "sync"}
Writing == Listing \union {"reread", "refill"}
Loops == {"seed", "templates"}

\* The places at which nothing has been looked up.
Blank == {"grant", "allow", "previous", "existing", "next", "narrow", "resume", "query", "slug"}

Placed(c) ==
    /\ c.since \in Nat /\ c.since <= now
    /\ c.at \notin {"idle", "answer"} => c.inst \in Instance /\ now <= c.since + Patience
    /\ c.at \in Looking \union Writing \union {"check"} => c.id \in SkillId
    /\ c.at \in Blank => c.got = None
    /\ c.op \in {"seed", "recent"} => c.todo \in Seq(SkillId)
    /\ c.op = "templates" => c.todo \in Seq(Template)
    /\ c.op \in Loops \union {"recent"} /\ c.at \in Looking \union Writing \union {"slug", "create"} =>
          c.todo # <<>>
    /\ c.op = "templates" => c.at \in Looking \union Writing \union {"slug", "create", "next"}
    /\ c.op = "templates" => \A n \in DOMAIN c.found : c.found[n] \in SkillId
    /\ c.at = "check" => c.op = "put" /\ c.got # None
    /\ c.at = "rule" => c.arg \in Levels
    /\ c.at = "sync" => c.public \subseteq SkillId

\* The value v of x was x's at the time from, or has been since, give or take slack.
Was(x, v, from, slack) ==
    v = Value(x) \/ \E h \in past[x] : h[1] = v /\ from <= h[2] + slack

\* What one who has this copy of a skill knows of who may see it.
Saw(skill) == IF skill = None THEN None ELSE skill.access

\* By how much a request may be behind what it rests on.
Lag(x) == IF x[1] = "rule" THEN TTL + Patience ELSE TTL + Patience - 1

Based(c) ==
    /\ \A b \in c.rests : b[1] \in Things /\ Was(b[1], b[2], c.since, IF c.at = "answer" THEN Lag(b[1]) ELSE 0)
    /\ c.at \in {"permit", "rule", "decide"} => \A b \in c.rests : b[1][1] = "rule"
    /\ c.at = "got" => Was(<<"skill", c.id>>, Saw(c.got), c.since, TTL + Patience - 1)
    /\ c.at \in {"fill", "refill"} \/ (c.at = "invalidate" /\ ~c.again) =>
          Was(<<"skill", c.id>>, Saw(c.got), c.since, 0)
    /\ c.at \in {"build", "keep"} => c.arg \in Nat /\ c.arg * TTL <= now
    /\ c.at = "keep" => \A b \in c.rests : Was(b[1], b[2], c.arg * TTL, 0)

\* No skill but `except' has what is claimed.
SlugFree(owner, slug, except) == \A r \in Existing : r # except /\ skills[r].owner = owner => skills[r].slug # slug
NameFree(name) == \A r \in Existing : skills[r].owner = Platform => skills[r].name # name

HoldsSlug(c, owner, slug, except) ==
    /\ SlugClaim(owner, slug) \in c.claims
    /\ SlugClaim(owner, slug) \notin c.lost => SlugFree(owner, slug, except)

\* The templates that are still to be created.
Ahead(c) == IF c.at \in {"next", "slug", "create"} THEN DOMAIN c.todo ELSE DOMAIN c.todo \ {1}

Claimed(c) ==
    /\ c.got # None => c.id \in SkillId /\ c.id <= drawn /\ (c.id \in Existing => c.got.owner = skills[c.id].owner)
    /\ c.op = "fork" => c.ctx.uid # Platform
    /\ c.at \in {"slug", "create"} =>
          /\ WholeSkill(c.arg)
          /\ IF c.op = "templates" THEN c.arg.owner = Platform /\ c.arg.name = Head(c.todo).name
                                        /\ c.arg.name \notin DOMAIN c.found
             ELSE c.arg.owner # Platform
    /\ c.at = "slug" \/ (c.at = "create" /\ c.op = "templates") => \E b : \E n \in Nat \ {0} : c.arg.slug = <<b, n>>
    /\ c.at = "create" /\ c.arg.slug # None => HoldsSlug(c, c.arg.owner, c.arg.slug, 0)
    /\ c.op = "put" /\ c.again /\ c.at \in Looking /\ c.arg.slug # None =>
          c.id \in SkillId /\ c.id <= drawn /\ (c.id \in Existing => HoldsSlug(c, skills[c.id].owner, c.arg.slug, c.id))
    /\ c.op = "templates" =>
          /\ c.again /\ c.at \in Looking => c.arg.slug = None
          /\ \A j, k \in DOMAIN c.todo : c.todo[j].name = c.todo[k].name => j = k
          /\ \A k \in Ahead(c) : c.todo[k].name \notin DOMAIN c.found =>
                /\ NameClaim(c.todo[k].name) \in c.claims
                /\ NameClaim(c.todo[k].name) \notin c.lost => NameFree(c.todo[k].name)

CallOK(c) == Whole(c) /\ Placed(c) /\ Based(c) /\ Claimed(c)

SkillsTypes ==
    /\ now \in 0 .. MaxTime /\ drawn \in 0 .. MaxSkills
    /\ skills = [s \in SkillId |-> skills[s]]
    /\ \A s \in Existing : s <= drawn /\ WholeSkill(skills[s])
    /\ rules = [level \in Levels |-> rules[level]]
    /\ cache = [i \in Instance |-> [s \in SkillId |-> cache[i][s]]]
    /\ permits = [i \in Instance |-> permits[i]]
    /\ cards = [i \in Instance |-> [b \in 0 .. Bucket(MaxTime) |-> cards[i][b]]]
    /\ tools = [i \in Instance |-> tools[i]] /\ synced = [i \in Instance |-> synced[i]]
    /\ calls = [t \in Thread |-> calls[t]]
    /\ past = [x \in Things |-> past[x]] /\ \A x \in Things : \A h \in past[x] : h[2] \in Nat

CacheRecent == \A i \in Instance, s \in SkillId : cache[i][s] # None =>
    LET entry == cache[i][s]
    IN  /\ entry.at \in Nat /\ entry.at <= now
        /\ Was(<<"skill", s>>, Saw(entry.skill), entry.at, Patience)
        /\ entry.skill # None => s <= drawn /\ (s \in Existing => entry.skill.owner = skills[s].owner)

PermitsRecent == \A i \in Instance : permits[i] # None =>
    /\ permits[i].at \in Nat /\ permits[i].at <= now
    /\ \A b \in permits[i].rests :
          b[1] \in Things /\ b[1][1] = "rule" /\ Was(b[1], b[2], permits[i].at, Patience)

CardsRecent == \A i \in Instance, k \in 0 .. Bucket(MaxTime) : cards[i][k] # None =>
    /\ k * TTL <= now
    /\ \A b \in cards[i][k] : b[1] \in Things /\ Was(b[1], b[2], k * TTL, 0)

\* A rebuild that is alone on its instance goes by a list that is the tools', once those it
\* drops are gone.
RebuildsAlone == \A t \in Thread : calls[t].at = "sync" /\ ~calls[t].mixed =>
    /\ tools[calls[t].inst] \subseteq calls[t].public \union calls[t].drop
    /\ \A u \in Thread \ {t} : ~Syncing(u, calls[t].inst)

SkillsInv ==
    /\ SkillsTypes /\ (\A t \in Thread : CallOK(calls[t]))
    /\ CacheRecent /\ PermitsRecent /\ CardsRecent
    /\ RebuildsAlone /\ ToolsMatchPublic /\ SlugsUnique

-----------------------------------------------------------------------------
(* The constants, the things answers rest on, and the time buckets.        *)

LEMMA SkillBounds ==
  /\ TTL \in Nat \ {0} /\ MaxSkills \in Nat /\ Patience \in Nat /\ MaxTime \in Nat
  /\ \A from \in Nat, h \in Nat : from <= from + Patience /\ from <= from + (TTL + Patience - 1)
  BY SkillsAssumption

LEMMA TheThings ==
  /\ \A s \in SkillId : /\ <<"skill", s>> \in Things
                        /\ Value(<<"skill", s>>) = IF skills[s] = None THEN None ELSE skills[s].access
                        /\ Lag(<<"skill", s>>) = TTL + Patience - 1
  /\ \A l \in Levels : /\ <<"rule", l>> \in Things /\ Value(<<"rule", l>>) = rules[l]
                       /\ Lag(<<"rule", l>>) = TTL + Patience /\ <<"rule", l>>[1] = "rule"
  /\ <<"client", 0>> \in Things /\ Value(<<"client", 0>>) = client
  /\ Lag(<<"client", 0>>) = TTL + Patience - 1
  BY DEF Things, Value, Lag

LEMMA OfBuckets ==
  ASSUME NEW n \in Nat
  PROVE  Bucket(n) \in Nat /\ Bucket(n) * TTL <= n /\ n < Bucket(n) * TTL + TTL
  <1>1. PICK r, d : r = n % TTL /\ d = n \div TTL
    OBVIOUS
  <1>2. r \in 0 .. TTL - 1 /\ d \in Int /\ n = TTL * d + r
    BY <1>1, SkillBounds
  <1>3. d >= 0
    <2> SUFFICES ASSUME d <= -1 PROVE FALSE
      BY <1>2
    <2>1. TTL * d <= -TTL
      BY <1>2, SkillBounds
    <2> QED
      BY <1>2, <2>1, SkillBounds
  <1>4. TTL * d = d * TTL
    BY <1>2, SkillBounds
  <1> QED
    BY <1>1, <1>2, <1>3, <1>4, SkillBounds DEF Bucket

LEMMA LaterBuckets ==
  ASSUME NEW n \in Nat, NEW m \in Nat, n <= m
  PROVE  Bucket(n) <= Bucket(m)
  <1>1. PICK b \in Nat, c \in Nat : b = Bucket(n) /\ c = Bucket(m)
    BY OfBuckets
  <1>2. b * TTL <= n /\ m < c * TTL + TTL
    BY <1>1, OfBuckets
  <1>3. b * TTL < (c + 1) * TTL
    <2>1. (c + 1) * TTL = c * TTL + TTL
      BY SkillBounds
    <2> QED
      BY <1>2, <2>1, SkillBounds
  <1>4. ASSUME b >= c + 1 PROVE FALSE
    <2>1. PICK e \in Nat : b = (c + 1) + e
      <3>1. b - (c + 1) \in Nat /\ b = (c + 1) + (b - (c + 1))
        BY <1>4
      <3> QED
        BY <3>1
    <2>2. b * TTL = (c + 1) * TTL + e * TTL
      BY <2>1, SkillBounds
    <2>3. e * TTL \in Nat /\ b * TTL \in Nat /\ (c + 1) * TTL \in Nat
      BY SkillBounds
    <2> QED
      BY <1>3, <2>2, <2>3
  <1> QED
    BY <1>1, <1>4

-----------------------------------------------------------------------------
(* What was, stays so.                                                     *)

\* Was holds for longer, of an earlier time or with more slack.
LEMMA WasBefore ==
  ASSUME SkillsTypes, NEW x \in Things, NEW v, NEW a \in Int, NEW d \in Int, NEW b \in Int, NEW e \in Int,
         Was(x, v, a, d), b - e <= a - d
  PROVE  Was(x, v, b, e)
  BY DEF Was, SkillsTypes

\* The value of now.
LEMMA IsNow ==
  ASSUME NEW x, NEW v, NEW a, NEW d, v = Value(x)
  PROVE  Was(x, v, a, d)
  BY DEF Was

LEMMA RecentlyIs ==
  ASSUME SkillsTypes, NEW x \in Things, NEW v, NEW since \in Nat
  PROVE  Was(x, v, since, Lag(x)) => Recently(x, v, since)
  <1> SUFFICES ASSUME Was(x, v, since, Lag(x)), v # Value(x) PROVE Recently(x, v, since)
    BY DEF Recently
  <1>1. PICK h \in past[x] : h[1] = v /\ since <= h[2] + Lag(x)
    BY DEF Was
  <1>2. h[2] \in Nat
    BY DEF SkillsTypes
  <1>3. CASE x[1] = "rule"
    <2>1. h[2] > since - TTL - Patience \/ h[2] = since - TTL - Patience
      BY <1>1, <1>2, <1>3, SkillBounds DEF Lag
    <2> QED
      BY <1>1, <1>3, <2>1 DEF Recently
  <1>4. CASE x[1] # "rule"
    <2>1. h[2] > since - TTL - Patience
      BY <1>1, <1>2, <1>4, SkillBounds DEF Lag
    <2> QED
      BY <1>1, <2>1 DEF Recently
  <1> QED
    BY <1>3, <1>4

\* A step that changes the value of one thing and remembers it.
Changes(x) ==
    /\ Remembers(x) /\ now' = now
    /\ \A y \in Things \ {x} : Value(y)' = Value(y)

LEMMA WasStays ==
  ASSUME SkillsTypes, NEW y \in Things, NEW x \in Things, Changes(y), NEW v, NEW a \in Int, NEW d \in Int,
         a <= now + d, Was(x, v, a, d)
  PROVE  Was(x, v, a, d)'
  <1>1. past' = [past EXCEPT ![y] = {h \in past[y] : h[1] # Value(y)} \union {<<Value(y), now>>}]
    BY DEF Changes, Remembers
  <1>2. \A z \in Things : past'[z] = IF z = y THEN {h \in past[y] : h[1] # Value(y)} \union {<<Value(y), now>>}
                                    ELSE past[z]
    BY <1>1 DEF SkillsTypes
  <1>3. CASE x = y
    <2>1. CASE v = Value(y)
      <3>1. <<v, now>> \in past'[y] /\ <<v, now>>[1] = v /\ <<v, now>>[2] = now
        BY <1>2, <2>1
      <3> QED
        BY <1>3, <3>1 DEF Was
    <2>2. CASE v # Value(y)
      <3>1. PICK h \in past[y] : h[1] = v /\ a <= h[2] + d
        BY <1>3, <2>2 DEF Was
      <3>2. h \in past'[y]
        BY <1>2, <2>2, <3>1
      <3> QED
        BY <1>3, <3>1, <3>2 DEF Was
    <2> QED
      BY <2>1, <2>2
  <1>4. CASE x # y
    BY <1>2, <1>4 DEF Was, Changes
  <1> QED
    BY <1>3, <1>4

-----------------------------------------------------------------------------
(* A call and what becomes of it.                                          *)

\* c is q but for the fields S.
Keeps(c, q, S) == Whole(c) /\ \A f \in Fields \ S : c[f] = q[f]

\* What each call is stays so, when nothing it goes by changes.
NothingChanges == UNCHANGED <<now, skills, drawn, client, rules, past, rivals>>

LEMMA StaysOK ==
  ASSUME NothingChanges, NEW c, CallOK(c)
  PROVE  CallOK(c)'
  <1>1. \A x, v, a, d : Was(x, v, a, d)' <=> Was(x, v, a, d)
    BY DEF NothingChanges, Was, Value
  <1>2. Whole(c)' /\ Placed(c)'
    BY DEF NothingChanges, CallOK, Placed, Whole
  <1>3. Based(c)'
    BY <1>1 DEF NothingChanges, CallOK, Based
  <1>4. Claimed(c)'
    BY DEF NothingChanges, CallOK, Claimed, HoldsSlug, SlugFree, NameFree, Existing, Ahead
  <1> QED
    BY <1>2, <1>3, <1>4 DEF CallOK

LEMMA IdleOK == ASSUME SkillsTypes PROVE CallOK(Idle)
  <1>1. Whole(Idle)
    BY DEF Idle, Whole, Fields
  <1>2. Idle.at = "idle" /\ Idle.op = "none" /\ Idle.since = 0 /\ Idle.rests = {} /\ Idle.got = None
        /\ Idle.again = FALSE
    BY DEF Idle
  <1>3. Placed(Idle)
    BY <1>2, SkillBounds DEF Placed, SkillsTypes, Looking, Writing, Listing, Blank, Loops
  <1>4. Based(Idle) /\ Claimed(Idle)
    BY <1>2 DEF Based, Claimed
  <1> QED
    BY <1>1, <1>3, <1>4 DEF CallOK

LEMMA AnswerOK ==
  ASSUME SkillsTypes, NEW q, CallOK(q), NEW rests,
         \A b \in rests : b[1] \in Things /\ Was(b[1], b[2], q.since, Lag(b[1]))
  PROVE  CallOK(Answer(q, rests))
  <1>1. PICK c : c = Answer(q, rests)
    OBVIOUS
  <1>2. Whole(c) /\ c.at = "answer" /\ c.op = "none" /\ c.since = q.since /\ c.rests = rests /\ c.got = None
        /\ c.again = FALSE
    BY <1>1 DEF Answer, Idle, Whole, Fields
  <1>3. Placed(c)
    BY <1>2 DEF CallOK, Placed, Looking, Writing, Listing, Blank, Loops
  <1>4. Based(c) /\ Claimed(c)
    BY <1>2 DEF Based, Claimed
  <1> QED
    BY <1>1, <1>2, <1>3, <1>4 DEF CallOK

\* What was so since the request began is no older than an answer may be.
LEMMA OfLate ==
  ASSUME SkillsTypes, NEW q, CallOK(q), NEW rests,
         \A b \in rests : b[1] \in Things /\ Was(b[1], b[2], q.since, 0)
  PROVE  \A b \in rests : b[1] \in Things /\ Was(b[1], b[2], q.since, Lag(b[1]))
  <1> TAKE b \in rests
  <1>1. q.since \in Nat /\ Lag(b[1]) \in Nat
    BY SkillBounds DEF CallOK, Placed, Lag
  <1> QED
    BY <1>1, WasBefore

LEMMA TailOf ==
  ASSUME NEW S, NEW s \in Seq(S), s # <<>>
  PROVE  /\ Tail(s) \in Seq(S) /\ Head(s) \in S /\ Head(s) = s[1] /\ 1 \in DOMAIN s
         /\ \A k \in DOMAIN Tail(s) : k + 1 \in DOMAIN s /\ k + 1 # 1 /\ Tail(s)[k] = s[k + 1] /\ k \in Nat
  BY HeadTailProperties

LEMMA ProceedsOK ==
  ASSUME SkillsTypes, NEW q, CallOK(q), q.op \in Loops, q.at \in Looking \union Writing \union {"slug", "create"}
  PROVE  CallOK(Proceeds(q))
  <1>1. PICK c : c = Proceeds(q)
    OBVIOUS
  <1>2. PICK half : half = [q EXCEPT !.at = "next", !.todo = Tail(q.todo), !.again = FALSE]
    OBVIOUS
  <1>3. c = [half EXCEPT !.id = 0, !.got = None, !.arg = None]
    BY <1>1, <1>2 DEF Proceeds
  <1>4. Whole(q)
    BY DEF CallOK
  <1>5. Whole(half) /\ half.at = "next" /\ half.todo = Tail(q.todo) /\ half.again = FALSE
        /\ \A f \in Fields \ {"at", "todo", "again"} : half[f] = q[f]
    BY <1>2, <1>4 DEF Whole, Fields
  <1>6. /\ Keeps(c, q, {"at", "todo", "again", "id", "got", "arg"})
        /\ c.at = "next" /\ c.todo = Tail(q.todo) /\ c.again = FALSE /\ c.got = None
    BY <1>3, <1>5 DEF Whole, Fields, Keeps
  <1>7. /\ Whole(c) /\ c.op = q.op /\ c.since = q.since /\ c.inst = q.inst /\ c.rests = q.rests
        /\ c.claims = q.claims /\ c.lost = q.lost /\ c.found = q.found /\ c.ctx = q.ctx
    BY <1>6 DEF Keeps, Fields
  <1>8. Placed(q) /\ Based(q) /\ Claimed(q) /\ q.todo # <<>>
    BY DEF CallOK, Placed
  <1>9. Placed(c)
    <2>1. q.at \notin {"idle", "answer"}
      BY DEF Looking, Writing, Listing
    <2>2. c.op \in {"seed", "recent"} => c.todo \in Seq(SkillId)
      BY <1>6, <1>7, <1>8, TailOf DEF Placed
    <2>3. c.op = "templates" => c.todo \in Seq(Template)
      BY <1>6, <1>7, <1>8, TailOf DEF Placed
    <2> QED
      BY <1>6, <1>7, <1>8, <2>1, <2>2, <2>3 DEF Placed, Looking, Writing, Listing
  <1>10. Based(c)
    BY <1>6, <1>7, <1>8 DEF Based, Looking, Writing, Listing
  <1>11. Claimed(c)
    <2>1. ASSUME c.op = "templates"
          PROVE  /\ \A k \in DOMAIN c.todo : k + 1 \in Ahead(q) /\ c.todo[k] = q.todo[k + 1] /\ k \in Nat
                 /\ Ahead(c) = DOMAIN c.todo
      <3>1. \A k \in DOMAIN c.todo : k + 1 \in DOMAIN q.todo /\ k + 1 # 1 /\ c.todo[k] = q.todo[k + 1] /\ k \in Nat
        BY <1>6, <1>7, <1>8, <2>1, TailOf DEF Placed
      <3> QED
        BY <1>6, <3>1 DEF Ahead
    <2>2. \A k \in Ahead(q) : k \in DOMAIN q.todo
      BY DEF Ahead
    <2>3. ASSUME c.op = "templates", NEW j \in DOMAIN c.todo, NEW k \in DOMAIN c.todo,
                 c.todo[j].name = c.todo[k].name
          PROVE  j = k
      <3>1. j + 1 = k + 1
        BY <1>7, <1>8, <2>1, <2>2, <2>3 DEF Claimed
      <3> QED
        BY <2>1, <2>3, <3>1
    <2>4. ASSUME c.op = "templates", NEW k \in Ahead(c), c.todo[k].name \notin DOMAIN c.found
          PROVE  /\ NameClaim(c.todo[k].name) \in c.claims
                 /\ NameClaim(c.todo[k].name) \notin c.lost => NameFree(c.todo[k].name)
      BY <1>7, <1>8, <2>1, <2>4 DEF Claimed
    <2> QED
      BY <1>6, <1>7, <1>8, <2>3, <2>4 DEF Claimed, Looking
  <1> QED
    BY <1>1, <1>7, <1>9, <1>10, <1>11 DEF CallOK

LEMMA FinishedOK ==
  ASSUME SkillsTypes, NEW q, CallOK(q), q.at \in Looking \union Writing \union {"slug", "create"}
  PROVE  CallOK(Finished(q))
  <1>1. CASE q.op \in Loops
    BY <1>1, ProceedsOK DEF Finished, Loops
  <1>2. CASE q.op \notin Loops
    BY <1>2, AnswerOK DEF Finished, Loops
  <1> QED
    BY <1>1, <1>2

LEMMA RaisedOK ==
  ASSUME SkillsTypes, NEW q, CallOK(q), q.at # "next"
  PROVE  CallOK(Raised(q))
  <1>1. CASE q.op = "templates" /\ q.todo # <<>>
    <2>1. q.at \in Looking \union Writing \union {"slug", "create"}
      BY <1>1 DEF CallOK, Placed
    <2>2. CallOK(Proceeds(q))
      BY <1>1, <2>1, ProceedsOK DEF Loops
    <2> QED
      BY <1>1, <2>2 DEF Raised
  <1>2. CASE ~(q.op = "templates" /\ q.todo # <<>>)
    <2>1. Raised(q) = Idle
      BY <1>2 DEF Raised
    <2> QED
      BY <2>1, IdleOK
  <1> QED
    BY <1>1, <1>2

-----------------------------------------------------------------------------
(* A step that changes one call.                                           *)

ToolsInv == RebuildsAlone /\ ToolsMatchPublic

LEMMA OneCall ==
  ASSUME SkillsTypes, NEW t \in Thread, NEW call, Goes(t, call)
  PROVE  /\ \A u \in Thread : calls'[u] = IF u = t THEN call ELSE calls[u]
         /\ calls' = [u \in Thread |-> calls'[u]]
  BY DEF SkillsTypes, Goes

LEMMA ToolsKept ==
  ASSUME SkillsTypes, ToolsInv, NEW t \in Thread, NEW call, Goes(t, call),
         calls[t].at \in Listing => call.at \in Listing /\ call.inst = calls[t].inst,
         call.at # "sync", UNCHANGED <<skills, tools, synced>>
  PROVE  ToolsInv'
  <1>1. \A u \in Thread : calls'[u] = IF u = t THEN call ELSE calls[u]
    BY OneCall
  <1>2. Public' = Public
    BY DEF Public, Existing
  <1>3. RebuildsAlone'
    <2> SUFFICES ASSUME NEW u \in Thread, calls'[u].at = "sync", ~calls'[u].mixed
                 PROVE  /\ tools'[calls'[u].inst] \subseteq calls'[u].public \union calls'[u].drop
                        /\ \A w \in Thread \ {u} : ~(calls'[w].inst = calls'[u].inst /\ calls'[w].at = "sync")
      BY DEF RebuildsAlone, Syncing
    <2>1. u # t /\ calls'[u] = calls[u]
      BY <1>1
    <2>2. tools[calls[u].inst] \subseteq calls[u].public \union calls[u].drop
      BY <2>1 DEF ToolsInv, RebuildsAlone
    <2>3. \A w \in Thread \ {u} : ~Syncing(w, calls[u].inst)
      BY <2>1 DEF ToolsInv, RebuildsAlone
    <2>4. \A w \in Thread \ {u} : ~(calls'[w].inst = calls[u].inst /\ calls'[w].at = "sync")
      BY <1>1, <2>1, <2>3 DEF Syncing
    <2> QED
      BY <2>1, <2>2, <2>4
  <1>4. ToolsMatchPublic'
    <2> SUFFICES ASSUME NEW i \in Instance, synced'[i],
                        \A u \in Thread : ~(Rebuilding(u)' /\ Here(u)' = i)
                 PROVE  tools'[i] = Public'
      BY DEF ToolsMatchPublic
    <2>1. \A u \in Thread : ~(Rebuilding(u) /\ Here(u) = i)
      BY <1>1 DEF Rebuilding, Here, Listing
    <2> QED
      BY <1>2, <2>1 DEF ToolsInv, ToolsMatchPublic
  <1> QED
    BY <1>3, <1>4 DEF ToolsInv

\* What does not touch the catalogue or what is cached of it.
LEMMA RestStays ==
  ASSUME SkillsInv, NothingChanges
  PROVE  /\ UNCHANGED cache => CacheRecent'
         /\ UNCHANGED permits => PermitsRecent'
         /\ UNCHANGED cards => CardsRecent'
         /\ SlugsUnique'
         /\ UNCHANGED <<cache, permits, cards, tools, synced>> /\ calls' = [u \in Thread |-> calls'[u]]
               => SkillsTypes'
  <1>1. \A x, v, a, d : Was(x, v, a, d)' <=> Was(x, v, a, d)
    BY DEF NothingChanges, Was, Value
  <1>2. UNCHANGED cache => CacheRecent'
    BY <1>1 DEF NothingChanges, SkillsInv, CacheRecent, Existing
  <1>3. UNCHANGED permits => PermitsRecent'
    BY <1>1 DEF NothingChanges, SkillsInv, PermitsRecent
  <1>4. UNCHANGED cards => CardsRecent'
    BY <1>1 DEF NothingChanges, SkillsInv, CardsRecent
  <1>5. SlugsUnique'
    BY DEF NothingChanges, SkillsInv, SlugsUnique, Existing
  <1>6. UNCHANGED <<cache, permits, cards, tools, synced>> /\ calls' = [u \in Thread |-> calls'[u]]
               => SkillsTypes'
    BY DEF NothingChanges, SkillsInv, SkillsTypes, Existing
  <1> QED
    BY <1>2, <1>3, <1>4, <1>5, <1>6

LEMMA CallsStay ==
  ASSUME SkillsInv, NothingChanges, NEW t \in Thread, NEW call, CallOK(call), Goes(t, call)
  PROVE  \A u \in Thread : CallOK(calls[u])'
  <1> TAKE u \in Thread
  <1>1. calls'[u] = IF u = t THEN call ELSE calls[u]
    BY OneCall DEF SkillsInv
  <1>2. PICK c : c = calls'[u]
    OBVIOUS
  <1>3. CallOK(c)
    BY <1>1, <1>2 DEF SkillsInv
  <1>4. CallOK(c)'
    BY <1>3, StaysOK
  <1> QED
    BY <1>2, <1>4

LEMMA Quiet ==
  ASSUME SkillsInv, NEW t \in Thread, NEW call, Goes(t, call), CallOK(call),
         calls[t].at \notin Listing, call.at # "sync",
         UNCHANGED <<now, catalogue, policy, local, history>>
  PROVE  SkillsInv'
  <1>1. NothingChanges /\ UNCHANGED <<cache, permits, cards, tools, synced>> /\ UNCHANGED <<skills, tools, synced>>
    BY DEF NothingChanges, catalogue, policy, local, history
  <1>2. calls' = [u \in Thread |-> calls'[u]]
    BY OneCall DEF SkillsInv
  <1>3. ToolsInv'
    BY <1>1, ToolsKept DEF SkillsInv, ToolsInv
  <1>4. \A u \in Thread : CallOK(calls[u])'
    BY <1>1, CallsStay
  <1>5. SkillsTypes' /\ CacheRecent' /\ PermitsRecent' /\ CardsRecent' /\ SlugsUnique'
    BY <1>1, <1>2, RestStays
  <1> QED
    BY <1>3, <1>4, <1>5 DEF SkillsInv, ToolsInv

-----------------------------------------------------------------------------
(* get_skill: the cache is asked, then the document.                       *)

\* A look-up goes on, knowing of the skill what is so.
LEMMA LooksOn ==
  ASSUME NEW q, CallOK(q), q.at \in Looking \ {"got"}, NEW c, Keeps(c, q, {"at", "got"}), c.at \in Looking,
         c.got = q.got \/ (c.got # None => q.id <= drawn /\ (q.id \in Existing => c.got.owner = skills[q.id].owner))
  PROVE  Whole(c) /\ Placed(c) /\ Claimed(c)
  <1>1. /\ Whole(c) /\ c.op = q.op /\ c.inst = q.inst /\ c.since = q.since /\ c.id = q.id /\ c.todo = q.todo
        /\ c.arg = q.arg /\ c.again = q.again /\ c.found = q.found /\ c.ctx = q.ctx
        /\ c.claims = q.claims /\ c.lost = q.lost
    BY DEF Keeps, Fields
  <1>2. Placed(q) /\ Claimed(q)
    BY DEF CallOK
  <1>3. Placed(c)
    BY <1>1, <1>2 DEF Placed, Looking, Blank
  <1>4. c.op = "templates" => Ahead(c) = Ahead(q)
    BY <1>1 DEF Ahead, Looking
  <1>5. Claimed(c)
    <2>1. q.id \in SkillId
      BY <1>2 DEF Placed
    <2> QED
      BY <1>1, <1>2, <1>4, <2>1 DEF Claimed, HoldsSlug, Looking
  <1> QED
    BY <1>1, <1>3, <1>5

\* An entry of the cache is written or deleted.
SetsEntry(i, s, entry) == cache' = [cache EXCEPT ![i][s] = entry]

LEMMA CacheSet ==
  ASSUME SkillsInv, NEW i \in Instance, NEW s \in SkillId, NEW entry, SetsEntry(i, s, entry)
  PROVE  /\ cache' = [j \in Instance |-> [r \in SkillId |-> cache'[j][r]]]
         /\ \A j \in Instance, r \in SkillId : cache'[j][r] = IF j = i /\ r = s THEN entry ELSE cache[j][r]
  BY DEF SkillsInv, SkillsTypes, SetsEntry

\* What a step on the cache must show.
EntryOK(s, entry) ==
    /\ entry.at \in Nat /\ entry.at <= now
    /\ Was(<<"skill", s>>, Saw(entry.skill), entry.at, Patience)
    /\ entry.skill # None => s <= drawn /\ (s \in Existing => entry.skill.owner = skills[s].owner)

LEMMA CacheStays ==
  ASSUME SkillsInv, NothingChanges, NEW i \in Instance, NEW s \in SkillId, NEW entry,
         SetsEntry(i, s, entry), entry = None \/ EntryOK(s, entry)
  PROVE  CacheRecent'
  <1>1. \A x, v, a, d : Was(x, v, a, d)' <=> Was(x, v, a, d)
    BY DEF NothingChanges, Was, Value
  <1> SUFFICES ASSUME NEW j \in Instance, NEW r \in SkillId, cache'[j][r] # None
               PROVE  /\ cache'[j][r].at \in Nat /\ cache'[j][r].at <= now
                      /\ Was(<<"skill", r>>, Saw(cache'[j][r].skill), cache'[j][r].at, Patience)
                      /\ cache'[j][r].skill # None =>
                            r <= drawn /\ (r \in Existing => cache'[j][r].skill.owner = skills[r].owner)
    BY <1>1 DEF CacheRecent, NothingChanges, Existing
  <1>2. cache'[j][r] = IF j = i /\ r = s THEN entry ELSE cache[j][r]
    BY CacheSet
  <1>3. CASE j = i /\ r = s
    BY <1>2, <1>3 DEF EntryOK
  <1>4. CASE ~(j = i /\ r = s)
    BY <1>2, <1>4 DEF SkillsInv, CacheRecent
  <1> QED
    BY <1>3, <1>4

\* A step on the cache and one call.
LEMMA QuietCache ==
  ASSUME SkillsInv, NEW t \in Thread, NEW call, Goes(t, call), CallOK(call),
         calls[t].at \notin Listing, call.at # "sync",
         NEW i \in Instance, NEW s \in SkillId, NEW entry, SetsEntry(i, s, entry),
         entry = None \/ EntryOK(s, entry),
         UNCHANGED <<clock, catalogue, policy, permits, cards, tools, history>>
  PROVE  SkillsInv'
  <1>1. NothingChanges /\ UNCHANGED <<permits, cards, tools, synced>> /\ UNCHANGED <<skills, tools, synced>>
    BY DEF NothingChanges, clock, catalogue, policy, history
  <1>2. calls' = [u \in Thread |-> calls'[u]]
    BY OneCall DEF SkillsInv
  <1>3. ToolsInv'
    BY <1>1, ToolsKept DEF SkillsInv, ToolsInv
  <1>4. \A u \in Thread : CallOK(calls[u])'
    BY <1>1, CallsStay
  <1>5. PermitsRecent' /\ CardsRecent' /\ SlugsUnique'
    BY <1>1, RestStays
  <1>6. SkillsTypes'
    <2>1. cache' = [j \in Instance |-> [r \in SkillId |-> cache'[j][r]]]
      BY CacheSet
    <2> QED
      BY <1>1, <1>2, <2>1 DEF NothingChanges, SkillsInv, SkillsTypes, Existing
  <1>7. CacheRecent'
    BY <1>1, CacheStays
  <1> QED
    BY <1>3, <1>4, <1>5, <1>6, <1>7 DEF SkillsInv, ToolsInv

\* A call at work.
LEMMA AtWork ==
  ASSUME SkillsInv, NEW t \in Thread
  PROVE  /\ CallOK(calls[t]) /\ Whole(calls[t]) /\ Placed(calls[t]) /\ Based(calls[t]) /\ Claimed(calls[t])
         /\ SkillsTypes /\ calls[t].since \in Nat /\ calls[t].since <= now /\ now \in Nat
         /\ (calls[t].at \notin {"idle", "answer"} => calls[t].inst \in Instance)
         /\ (calls[t].at \in Looking \union Writing => calls[t].id \in SkillId)
  <1>1. PICK c : c = calls[t]
    OBVIOUS
  <1>2. CallOK(c) /\ SkillsTypes
    BY <1>1 DEF SkillsInv
  <1>3. Whole(c) /\ Placed(c) /\ Based(c) /\ Claimed(c) /\ now \in Nat
    BY <1>2, SkillBounds DEF CallOK, SkillsTypes
  <1>4. c.since \in Nat /\ c.since <= now /\ (c.at \notin {"idle", "answer"} => c.inst \in Instance)
    BY <1>3 DEF Placed
  <1>5. c.at \in Looking \union Writing => c.id \in SkillId
    BY <1>3 DEF Placed
  <1> QED
    BY <1>1, <1>2, <1>3, <1>4, <1>5

LEMMA Looked ==
  ASSUME SkillsInv, NEW t \in Thread, Look(t)
  PROVE  SkillsInv'
  <1>1. PICK q : q = calls[t] /\ CallOK(q) /\ Whole(q) /\ Placed(q) /\ Based(q) /\ q.at = "look"
                 /\ q.inst \in Instance /\ q.id \in SkillId /\ q.since \in Nat /\ q.since <= now /\ now \in Nat
    BY AtWork DEF Look, Looking
  <1>2. PICK entry : entry = cache[q.inst][q.id]
    OBVIOUS
  <1>3. PICK c : /\ Goes(t, c)
                 /\ \/ Fresh(entry) /\ c = [q EXCEPT !.at = "got", !.got = entry.skill]
                    \/ c = [q EXCEPT !.at = "evict"]
                    \/ c = [q EXCEPT !.at = "read"]
    BY <1>1, <1>2 DEF Look, Move, Here
  <1>4. /\ Keeps(c, q, {"at", "got"}) /\ c.at \in {"got", "evict", "read"}
        /\ c.at = "got" => Fresh(entry) /\ c.got = entry.skill
        /\ c.at # "got" => c.got = q.got
    BY <1>1, <1>3 DEF Keeps, Whole, Fields
  <1>5. ASSUME c.at = "got"
        PROVE  EntryOK(q.id, entry) /\ now - entry.at < TTL
    BY <1>1, <1>2, <1>4, <1>5 DEF SkillsInv, CacheRecent, EntryOK, Fresh
  <1>6. Whole(c) /\ Placed(c) /\ Claimed(c)
    BY <1>1, <1>4, <1>5, LooksOn DEF EntryOK, Looking
  <1>7. Based(c)
    <2>1. c.rests = q.rests /\ c.since = q.since /\ c.id = q.id /\ c.at \notin {"answer", "rule", "decide"}
      BY <1>4 DEF Keeps, Fields
    <2>2. c.at = "got" => Was(<<"skill", c.id>>, Saw(c.got), c.since, TTL + Patience - 1)
      <3> SUFFICES ASSUME c.at = "got" PROVE Was(<<"skill", q.id>>, Saw(c.got), q.since, TTL + Patience - 1)
        BY <2>1
      <3>1. q.since - (TTL + Patience - 1) <= entry.at - Patience
        BY <1>1, <1>5, SkillBounds DEF EntryOK
      <3> QED
        BY <1>1, <1>4, <1>5, <3>1, TheThings, SkillBounds, WasBefore DEF EntryOK, SkillsInv
    <2> QED
      BY <1>1, <1>4, <2>1, <2>2 DEF Based
  <1>8. CallOK(c)
    BY <1>6, <1>7 DEF CallOK
  <1> QED
    BY <1>1, <1>3, <1>4, <1>8, Quiet DEF Look, OnlyCalls, clock, Listing

\* A step on the instance's caches and one call.
LEMMA QuietLocal ==
  ASSUME SkillsInv, NEW t \in Thread, NEW call, Goes(t, call), CallOK(call),
         calls[t].at \notin Listing, call.at # "sync",
         UNCHANGED <<clock, catalogue, policy, cache, tools, history>>,
         PermitsRecent', CardsRecent', permits' = [i \in Instance |-> permits'[i]],
         cards' = [i \in Instance |-> [b \in 0 .. Bucket(MaxTime) |-> cards'[i][b]]]
  PROVE  SkillsInv'
  <1>1. NothingChanges /\ UNCHANGED <<cache, tools, synced>> /\ UNCHANGED <<skills, tools, synced>>
    BY DEF NothingChanges, clock, catalogue, policy, history
  <1>2. calls' = [u \in Thread |-> calls'[u]]
    BY OneCall DEF SkillsInv
  <1>3. ToolsInv'
    BY <1>1, ToolsKept DEF SkillsInv, ToolsInv
  <1>4. \A u \in Thread : CallOK(calls[u])'
    BY <1>1, CallsStay
  <1>5. CacheRecent' /\ SlugsUnique'
    BY <1>1, RestStays
  <1>6. SkillsTypes'
    BY <1>1, <1>2 DEF NothingChanges, SkillsInv, SkillsTypes, Existing, Bucket
  <1> QED
    BY <1>3, <1>4, <1>5, <1>6 DEF SkillsInv, ToolsInv

\* A call goes on where nothing is looked up and nothing is written.
LEMMA Aside ==
  ASSUME NEW q, CallOK(q), q.at \notin {"idle", "answer"}, q.op # "templates",
         NEW c, Keeps(c, q, {"at", "id", "got", "arg", "todo", "rests"}),
         c.at \notin Looking \union Writing \union {"slug", "create", "check", "idle", "answer"},
         c.got = None \/ (c.got = q.got /\ c.id = q.id /\ c.at \notin Blank),
         c.op \in {"seed", "recent"} => c.todo \in Seq(SkillId),
         c.at = "rule" => c.arg \in Levels
  PROVE  /\ Whole(c) /\ Placed(c) /\ Claimed(c)
         /\ c.op = q.op /\ c.since = q.since /\ c.inst = q.inst
  <1>1. /\ Whole(c) /\ c.op = q.op /\ c.inst = q.inst /\ c.since = q.since /\ c.ctx = q.ctx
        /\ c.again = q.again /\ c.found = q.found /\ c.claims = q.claims /\ c.lost = q.lost
    BY DEF Keeps, Fields
  <1>2. Placed(q) /\ Claimed(q)
    BY DEF CallOK
  <1>3. Placed(c)
    BY <1>1, <1>2 DEF Placed, Writing, Listing
  <1>4. Claimed(c)
    BY <1>1, <1>2 DEF Claimed
  <1> QED
    BY <1>1, <1>3, <1>4

LEMMA TheTime == ASSUME SkillsInv PROVE now \in Nat /\ drawn \in Nat /\ SkillsTypes
  <1>1. SkillsTypes
    BY DEF SkillsInv
  <1>2. now \in 0 .. MaxTime /\ drawn \in 0 .. MaxSkills
    BY <1>1 DEF SkillsTypes
  <1> QED
    BY <1>1, <1>2, SkillBounds

\* Where a request is that finished or raised.
LEMMA FinishedAt ==
  ASSUME NEW q, Whole(q)
  PROVE  Finished(q).at \in {"next", "answer"} /\ Raised(q).at \in {"next", "idle"}
  <1>1. Proceeds(q).at = "next"
    BY DEF Proceeds, Whole, Fields
  <1>2. Idle.at = "idle" /\ Answer(q, {}).at = "answer"
    BY DEF Idle, Answer
  <1> QED
    BY <1>1, <1>2 DEF Finished, Raised

LEMMA Evicted ==
  ASSUME SkillsInv, NEW t \in Thread, Evict(t)
  PROVE  SkillsInv'
  <1>1. PICK q : q = calls[t] /\ CallOK(q) /\ Whole(q) /\ Placed(q) /\ Based(q) /\ q.at = "evict"
                 /\ q.inst \in Instance /\ q.id \in SkillId /\ SkillsTypes
    BY AtWork DEF Evict, Looking
  <1>2. PICK c : /\ Goes(t, c)
                 /\ c = Raised(q) \/ c = [q EXCEPT !.at = "read"]
    BY <1>1 DEF Evict
  <1>3. SetsEntry(q.inst, q.id, None)
    BY <1>1 DEF Evict, SetsEntry
  <1>4. CASE c = Raised(q)
    <2>1. CallOK(c) /\ c.at # "sync"
      <3>1. CallOK(c)
        BY <1>1, <1>4, RaisedOK
      <3>2. c.at \in {"next", "idle"}
        BY <1>1, <1>4, FinishedAt
      <3> QED
        BY <3>1, <3>2
    <2> QED
      BY <1>1, <1>2, <1>3, <2>1, QuietCache DEF Evict, Listing
  <1>5. CASE c = [q EXCEPT !.at = "read"]
    <2>1. Keeps(c, q, {"at", "got"}) /\ c.at = "read" /\ c.got = q.got /\ c.rests = q.rests /\ c.since = q.since
      BY <1>1, <1>5 DEF Keeps, Whole, Fields
    <2>2. Whole(c) /\ Placed(c) /\ Claimed(c)
      BY <1>1, <2>1, LooksOn DEF Looking
    <2>3. Based(c)
      BY <1>1, <2>1 DEF Based
    <2> QED
      BY <1>1, <1>2, <1>3, <2>1, <2>2, <2>3, QuietCache DEF Evict, Listing, CallOK
  <1> QED
    BY <1>2, <1>4, <1>5

LEMMA DocumentRead ==
  ASSUME SkillsInv, NEW t \in Thread, Read(t)
  PROVE  SkillsInv'
  <1>1. PICK q : q = calls[t] /\ CallOK(q) /\ Whole(q) /\ Placed(q) /\ Based(q) /\ q.at = "read"
                 /\ q.inst \in Instance /\ q.id \in SkillId /\ SkillsTypes
    BY AtWork DEF Read, Looking
  <1>2. PICK c : /\ Goes(t, c)
                 /\ c = [q EXCEPT !.got = skills[q.id], !.at = IF skills[q.id] = None THEN "got" ELSE "fill"]
    BY <1>1 DEF Read
  <1>3. /\ Keeps(c, q, {"at", "got"}) /\ c.at \in {"got", "fill"} /\ c.got = skills[q.id]
        /\ c.rests = q.rests /\ c.since = q.since /\ c.id = q.id
    BY <1>1, <1>2 DEF Keeps, Whole, Fields
  <1>4. c.got # None => q.id <= drawn /\ (q.id \in Existing => c.got.owner = skills[q.id].owner)
    BY <1>1, <1>3 DEF SkillsTypes, Existing
  <1>5. Whole(c) /\ Placed(c) /\ Claimed(c)
    BY <1>1, <1>3, <1>4, LooksOn DEF Looking
  <1>6. Saw(c.got) = Value(<<"skill", c.id>>)
    BY <1>1, <1>3, TheThings DEF Saw
  <1>7. Based(c)
    BY <1>1, <1>3, <1>6, IsNow DEF Based
  <1> QED
    BY <1>1, <1>2, <1>3, <1>5, <1>7, Quiet DEF Read, OnlyCalls, clock, Listing, CallOK

\* What a thread read since its request began is as recent as it goes into the cache.
LEMMA FillsWell ==
  ASSUME SkillsInv, NEW q, CallOK(q), q.id \in SkillId, q.at \notin {"idle", "answer"},
         Was(<<"skill", q.id>>, Saw(q.got), q.since, 0)
  PROVE  EntryOK(q.id, [at |-> now, skill |-> q.got])
  <1>1. PICK entry : entry = [at |-> now, skill |-> q.got]
    OBVIOUS
  <1>2. now \in Nat /\ SkillsTypes /\ q.since \in Nat /\ now <= q.since + Patience
    <2>1. now \in Nat /\ SkillsTypes
      BY TheTime
    <2>2. Placed(q)
      BY DEF CallOK
    <2> QED
      BY <2>1, <2>2 DEF Placed
  <1>3. Was(<<"skill", q.id>>, Saw(q.got), now, Patience)
    <2>1. now - Patience <= q.since - 0
      BY <1>2, SkillBounds
    <2> QED
      BY <1>2, <2>1, TheThings, SkillBounds, WasBefore
  <1>4. q.got # None => q.id <= drawn /\ (q.id \in Existing => q.got.owner = skills[q.id].owner)
    BY DEF CallOK, Claimed
  <1>5. entry.at = now /\ entry.skill = q.got
    BY <1>1
  <1> QED
    BY <1>1, <1>2, <1>3, <1>4, <1>5 DEF EntryOK

LEMMA Filling ==
  ASSUME SkillsInv, NEW t \in Thread, Fill(t)
  PROVE  SkillsInv'
  <1>1. PICK q : q = calls[t] /\ CallOK(q) /\ Whole(q) /\ Placed(q) /\ Based(q) /\ q.at \in {"fill", "refill"}
                 /\ q.inst \in Instance /\ q.id \in SkillId /\ SkillsTypes /\ q.since \in Nat /\ now \in Nat
    BY AtWork DEF Fill, Looking, Writing
  <1>2. PICK entry : entry = [at |-> now, skill |-> q.got]
    OBVIOUS
  <1>3. SetsEntry(q.inst, q.id, entry)
    BY <1>1, <1>2 DEF Fill, Filled, SetsEntry
  <1>4. Was(<<"skill", q.id>>, Saw(q.got), q.since, 0)
    BY <1>1 DEF Based
  <1>5. EntryOK(q.id, entry)
    BY <1>1, <1>2, <1>4, FillsWell
  <1>6. PICK c : /\ Goes(t, c)
                 /\ \/ q.at = "fill" /\ c = [q EXCEPT !.at = "got"]
                    \/ q.at = "refill" /\ c = Finished(q)
    BY <1>1 DEF Fill, Move
  <1>7. CallOK(c) /\ c.at # "sync"
    <2>1. CASE q.at = "fill" /\ c = [q EXCEPT !.at = "got"]
      <3>1. /\ Keeps(c, q, {"at", "got"}) /\ c.at = "got" /\ c.got = q.got
            /\ c.rests = q.rests /\ c.since = q.since /\ c.id = q.id
        BY <1>1, <2>1 DEF Keeps, Whole, Fields
      <3>2. Whole(c) /\ Placed(c) /\ Claimed(c)
        BY <1>1, <2>1, <3>1, LooksOn DEF Looking
      <3>3. Was(<<"skill", q.id>>, Saw(q.got), q.since, TTL + Patience - 1)
        <4>1. q.since - (TTL + Patience - 1) <= q.since - 0
          BY <1>1, SkillBounds
        <4> QED
          BY <1>1, <1>4, <4>1, TheThings, SkillBounds, WasBefore
      <3>4. Based(c)
        BY <1>1, <3>1, <3>3 DEF Based
      <3> QED
        BY <3>1, <3>2, <3>4 DEF CallOK
    <2>2. CASE q.at = "refill" /\ c = Finished(q)
      <3>1. CallOK(c)
        BY <1>1, <2>2, FinishedOK DEF Writing
      <3>2. c.at \in {"next", "answer"}
        BY <1>1, <2>2, FinishedAt
      <3> QED
        BY <3>1, <3>2
    <2> QED
      BY <1>6, <2>1, <2>2
  <1> QED
    BY <1>1, <1>3, <1>5, <1>6, <1>7, QuietCache DEF Fill, Listing

LEMMA SlugFound ==
  ASSUME SkillsInv, NEW t \in Thread, FindBySlug(t)
  PROVE  SkillsInv'
  <1>1. PICK q : q = calls[t] /\ CallOK(q) /\ Whole(q) /\ Placed(q) /\ Based(q) /\ Claimed(q)
                 /\ q.at = "query" /\ q.op = "find" /\ SkillsTypes
    BY AtWork DEF FindBySlug, At
  <1>2. PICK c : /\ Goes(t, c)
                 /\ \/ c = Answer(q, {})
                    \/ \E s \in Existing : c = [q EXCEPT !.at = "fill", !.id = s, !.got = skills[s]]
    BY <1>1 DEF FindBySlug, OwnedBy
  <1>3. CASE c = Answer(q, {})
    <2>1. CallOK(c)
      BY <1>1, <1>3, AnswerOK
    <2>2. c.at = "answer"
      BY <1>3 DEF Answer, Idle
    <2> QED
      BY <1>1, <1>2, <2>1, <2>2, Quiet DEF FindBySlug, OnlyCalls, clock, Listing
  <1>4. ASSUME NEW s \in Existing, c = [q EXCEPT !.at = "fill", !.id = s, !.got = skills[s]]
        PROVE  SkillsInv'
    <2>1. /\ Keeps(c, q, {"at", "id", "got"}) /\ c.at = "fill" /\ c.id = s /\ c.got = skills[s]
      BY <1>1, <1>4 DEF Keeps, Whole, Fields
    <2>2. /\ Whole(c) /\ c.op = "find" /\ c.inst = q.inst /\ c.since = q.since /\ c.rests = q.rests
      BY <1>1, <2>1 DEF Keeps, Fields
    <2>3. s \in SkillId /\ s <= drawn
      BY <1>1 DEF Existing, SkillsTypes
    <2>4. Placed(c)
      BY <1>1, <2>1, <2>2, <2>3 DEF Placed, Blank, Loops
    <2>5. Saw(c.got) = Value(<<"skill", c.id>>)
      BY <2>1, <2>3, TheThings DEF Saw
    <2>6. Based(c)
      BY <1>1, <2>1, <2>2, <2>5, IsNow DEF Based
    <2>7. Claimed(c)
      BY <2>1, <2>2, <2>3 DEF Claimed
    <2> QED
      BY <1>1, <1>2, <2>1, <2>2, <2>4, <2>6, <2>7, Quiet DEF FindBySlug, OnlyCalls, clock, Listing, CallOK
  <1> QED
    BY <1>2, <1>3, <1>4

-----------------------------------------------------------------------------
(* The reads.                                                              *)

\* A request is answered with what was so since it began.
LEMMA Answers ==
  ASSUME SkillsInv, NEW t \in Thread, NEW rests, Goes(t, Answer(calls[t], rests)),
         \A b \in rests : b[1] \in Things /\ Was(b[1], b[2], calls[t].since, Lag(b[1])),
         calls[t].at \notin Listing,
         UNCHANGED <<now, catalogue, policy, local, history>>
  PROVE  SkillsInv'
  <1>1. PICK q : q = calls[t] /\ CallOK(q) /\ SkillsTypes
    BY AtWork
  <1>2. PICK c : c = Answer(q, rests)
    OBVIOUS
  <1>3. CallOK(c)
    BY <1>1, <1>2, AnswerOK
  <1>4. c.at = "answer"
    BY <1>2 DEF Answer, Idle
  <1> QED
    BY <1>1, <1>2, <1>3, <1>4, Quiet

\* What of a skill, and of all, an answer rests on.
LEMMA RestsOn ==
  ASSUME SkillsInv, NEW q, CallOK(q), q.id \in SkillId, q.at = "got"
  PROVE  \A b \in Rests(q) : b[1] \in Things /\ Was(b[1], b[2], q.since, Lag(b[1]))
  <1>1. Was(<<"skill", q.id>>, Saw(q.got), q.since, TTL + Patience - 1)
    BY DEF CallOK, Based
  <1> SUFFICES ASSUME NEW b \in Rests(q) PROVE b[1] \in Things /\ Was(b[1], b[2], q.since, Lag(b[1]))
    OBVIOUS
  <1>2. b[1] = <<"skill", q.id>> /\ b[2] = Saw(q.got)
    BY DEF Rests, Saw
  <1> QED
    BY <1>1, <1>2, TheThings

LEMMA AllNow ==
  /\ \A b \in AllSkills : b[1] \in Things /\ b[2] = Value(b[1])
  /\ \A b \in TheClient : b[1] \in Things /\ b[2] = Value(b[1])
  <1>1. \A b \in AllSkills : b[1] \in Things /\ b[2] = Value(b[1])
    <2> SUFFICES ASSUME NEW s \in SkillId, NEW b, b = <<<<"skill", s>>, Value(<<"skill", s>>)>>
                 PROVE  b[1] \in Things /\ b[2] = Value(b[1])
      BY DEF AllSkills
    <2>1. b[1] = <<"skill", s>> /\ b[2] = Value(<<"skill", s>>)
      OBVIOUS
    <2> QED
      BY <2>1, TheThings
  <1>2. \A b \in TheClient : b[1] \in Things /\ b[2] = Value(b[1])
    <2> SUFFICES ASSUME NEW b, b = <<<<"client", 0>>, client>>
                 PROVE  b[1] \in Things /\ b[2] = Value(b[1])
      BY DEF TheClient
    <2>1. b[1] = <<"client", 0>> /\ b[2] = client
      OBVIOUS
    <2> QED
      BY <2>1, TheThings
  <1> QED
    BY <1>1, <1>2

LEMMA RestsNow ==
  ASSUME NEW b, b[2] = Value(b[1])
  PROVE  \A from, slack : Was(b[1], b[2], from, slack)
  BY DEF Was

LEMMA Served ==
  ASSUME SkillsInv, NEW t \in Thread, Serve(t)
  PROVE  SkillsInv'
  <1>1. calls[t].at = "got" /\ CallOK(calls[t]) /\ calls[t].id \in SkillId
    BY AtWork DEF Serve, Looking
  <1>2. \A b \in Rests(calls[t]) : b[1] \in Things /\ Was(b[1], b[2], calls[t].since, Lag(b[1]))
    BY <1>1, RestsOn
  <1> QED
    BY <1>1, <1>2, Answers DEF Serve, OnlyCalls, clock, Listing

LEMMA Queried ==
  ASSUME SkillsInv, NEW t \in Thread, Query(t)
  PROVE  SkillsInv'
  <1>1. PICK q : q = calls[t] /\ CallOK(q) /\ Whole(q) /\ Placed(q) /\ Based(q) /\ q.at = "query"
                 /\ q.op \in {"list", "market"} /\ SkillsTypes
    BY AtWork DEF Query
  <1>2. CASE q.op = "market"
    <2>1. Goes(t, Answer(q, AllSkills))
      BY <1>1, <1>2 DEF Query
    <2>2. \A b \in AllSkills : b[1] \in Things /\ Was(b[1], b[2], q.since, Lag(b[1]))
      BY AllNow, RestsNow
    <2> QED
      BY <1>1, <2>1, <2>2, Answers DEF Query, OnlyCalls, clock, Listing
  <1>3. CASE q.op = "list"
    <2>1. PICK c : Goes(t, c) /\ c = [q EXCEPT !.at = "narrow", !.rests = AllSkills]
      BY <1>1, <1>3 DEF Query
    <2>2. /\ Keeps(c, q, {"at", "id", "got", "arg", "todo", "rests"}) /\ c.at = "narrow" /\ c.rests = AllSkills
          /\ c.got = q.got
      BY <1>1, <2>1 DEF Keeps, Whole, Fields
    <2>3. c.got = None /\ c.op = "list"
      BY <1>1, <1>3, <2>2 DEF Placed, Blank, Keeps, Fields
    <2>4. Whole(c) /\ Placed(c) /\ Claimed(c)
      BY <1>1, <1>3, <2>2, <2>3, Aside DEF Looking, Writing, Listing
    <2>5. Based(c)
      BY <2>2, AllNow, RestsNow DEF Based
    <2> QED
      BY <1>1, <2>1, <2>2, <2>4, <2>5, Quiet DEF Query, OnlyCalls, clock, Listing, CallOK
  <1> QED
    BY <1>1, <1>2, <1>3

LEMMA LastSessions == Resumable \in Seq(SkillId) /\ Resumable \in Seq(1 .. Len(InitialSkills))
  <1>1. DOMAIN InitialSkills = 1 .. Len(InitialSkills) /\ Len(InitialSkills) \in Nat /\ Len(InitialSkills) <= MaxSkills
    BY CatalogueAssumption
  <1>2. Resumable \in Seq(1 .. Len(InitialSkills))
    BY <1>1, ContentsAssumption
  <1>3. 1 .. Len(InitialSkills) \subseteq SkillId
    BY <1>1, SkillBounds DEF SkillId
  <1> QED
    BY <1>2, <1>3

LEMMA Narrowed ==
  ASSUME SkillsInv, NEW t \in Thread, Narrow(t)
  PROVE  SkillsInv'
  <1>1. PICK q : q = calls[t] /\ CallOK(q) /\ Whole(q) /\ Placed(q) /\ Based(q) /\ q.at = "narrow" /\ SkillsTypes
    BY AtWork DEF Narrow
  <1>2. q.got = None /\ q.op # "templates" /\ \A b \in q.rests : b[1] \in Things /\ Was(b[1], b[2], q.since, 0)
    BY <1>1 DEF Placed, Blank, Based, Looking, Writing, Listing
  <1>3. PICK enabled : enabled = IF client = None THEN None ELSE client.enabled
    OBVIOUS
  <1>4. PICK half : half = [q EXCEPT !.at = "resume", !.todo = Resumable]
    OBVIOUS
  <1>5. PICK c : /\ Goes(t, c)
                 /\ \/ q.op = "list" /\ c = Answer(q, q.rests \union TheClient)
                    \/ q.op = "me" /\ c = [q EXCEPT !.at = "default", !.rests = TheClient]
                    \/ q.op = "recent" /\ c = [half EXCEPT !.rests = TheClient, !.arg = enabled]
    <2>1. [half EXCEPT !.rests = TheClient, !.arg = enabled]
             = [q EXCEPT !.at = "resume", !.todo = Resumable, !.rests = TheClient, !.arg = enabled]
      BY <1>4
    <2> QED
      BY <1>1, <1>3, <2>1 DEF Narrow
  <1>6. CASE q.op = "list" /\ c = Answer(q, q.rests \union TheClient)
    <2>1. \A b \in q.rests \union TheClient : b[1] \in Things /\ Was(b[1], b[2], q.since, 0)
      BY <1>2, AllNow, RestsNow
    <2>2. \A b \in q.rests \union TheClient : b[1] \in Things /\ Was(b[1], b[2], q.since, Lag(b[1]))
      BY <1>1, <2>1, OfLate
    <2> QED
      BY <1>1, <1>5, <1>6, <2>2, Answers DEF Narrow, OnlyCalls, clock, Listing
  <1>7. ASSUME \/ q.op = "me" /\ c = [q EXCEPT !.at = "default", !.rests = TheClient]
               \/ q.op = "recent" /\ c = [half EXCEPT !.rests = TheClient, !.arg = enabled]
        PROVE  SkillsInv'
    <2>1. /\ Keeps(c, q, {"at", "id", "got", "arg", "todo", "rests"}) /\ c.rests = TheClient /\ c.got = q.got
          /\ c.op = q.op /\ \/ q.op = "me" /\ c.at = "default"
                            \/ q.op = "recent" /\ c.at = "resume" /\ c.todo = Resumable
      <3>1. CASE q.op = "me" /\ c = [q EXCEPT !.at = "default", !.rests = TheClient]
        BY <1>1, <3>1 DEF Keeps, Whole, Fields
      <3>2. CASE q.op = "recent" /\ c = [half EXCEPT !.rests = TheClient, !.arg = enabled]
        <4>1. /\ Whole(half) /\ half.at = "resume" /\ half.todo = Resumable
              /\ \A f \in Fields \ {"at", "todo"} : half[f] = q[f]
          BY <1>1, <1>4 DEF Whole, Fields
        <4> QED
          BY <3>2, <4>1 DEF Keeps, Whole, Fields
      <3> QED
        BY <1>7, <3>1, <3>2
    <2>2. c.op \in {"seed", "recent"} => c.todo \in Seq(SkillId)
      BY <2>1, LastSessions
    <2>3. Whole(c) /\ Placed(c) /\ Claimed(c)
      BY <1>1, <1>2, <2>1, <2>2, Aside DEF Looking, Writing, Listing
    <2>4. Based(c)
      BY <2>1, AllNow, RestsNow DEF Based
    <2> QED
      BY <1>1, <1>5, <2>1, <2>3, <2>4, Quiet DEF Narrow, OnlyCalls, clock, Listing, CallOK
  <1> QED
    BY <1>5, <1>6, <1>7

LEMMA Defaulted ==
  ASSUME SkillsInv, NEW t \in Thread, Default(t)
  PROVE  SkillsInv'
  <1>1. PICK q : q = calls[t] /\ CallOK(q) /\ Based(q) /\ q.at = "default" /\ SkillsTypes
    BY AtWork DEF Default, At
  <1>2. \A b \in q.rests \union TheClient : b[1] \in Things /\ Was(b[1], b[2], q.since, 0)
    BY <1>1, AllNow, RestsNow DEF Based
  <1>3. \A b \in q.rests \union TheClient : b[1] \in Things /\ Was(b[1], b[2], q.since, Lag(b[1]))
    BY <1>1, <1>2, OfLate
  <1> QED
    BY <1>1, <1>3, Answers DEF Default, OnlyCalls, clock, Listing

LEMMA Resumed ==
  ASSUME SkillsInv, NEW t \in Thread, Resume(t)
  PROVE  SkillsInv'
  <1>1. PICK q : q = calls[t] /\ CallOK(q) /\ Whole(q) /\ Placed(q) /\ Based(q) /\ Claimed(q)
                 /\ q.at \in {"resume", "got"} /\ q.op = "recent" /\ SkillsTypes
    BY AtWork DEF Resume
  <1>2. \A b \in q.rests : b[1] \in Things /\ Was(b[1], b[2], q.since, 0)
    BY <1>1 DEF Based
  <1>3. q.todo \in Seq(SkillId) /\ (q.todo # <<>> => Head(q.todo) \in SkillId /\ Tail(q.todo) \in Seq(SkillId))
    BY <1>1, TailOf DEF Placed
  <1>4. PICK c : /\ Goes(t, c)
                 /\ \/ q.at = "resume" /\ c = Answer(q, q.rests)
                    \/ q.at = "got" /\ c = Answer(q, q.rests \union Rests(q))
                    \/ q.at = "resume" /\ q.todo # <<>> /\ c = [q EXCEPT !.at = "look", !.id = Head(q.todo)]
                    \/ q.at = "got" /\ c = [q EXCEPT !.at = "resume", !.todo = Tail(@), !.got = None, !.id = 0]
    BY <1>1 DEF Resume, Looks
  <1>5. CASE q.at = "resume" /\ c = Answer(q, q.rests)
    <2>1. \A b \in q.rests : b[1] \in Things /\ Was(b[1], b[2], q.since, Lag(b[1]))
      BY <1>1, <1>2, OfLate
    <2> QED
      BY <1>1, <1>4, <1>5, <2>1, Answers DEF Resume, OnlyCalls, clock, Listing
  <1>6. CASE q.at = "got" /\ c = Answer(q, q.rests \union Rests(q))
    <2>1. \A b \in q.rests : b[1] \in Things /\ Was(b[1], b[2], q.since, Lag(b[1]))
      BY <1>1, <1>2, OfLate
    <2>2. \A b \in Rests(q) : b[1] \in Things /\ Was(b[1], b[2], q.since, Lag(b[1]))
      BY <1>1, <1>6, RestsOn DEF Placed, Looking
    <2>3. \A b \in q.rests \union Rests(q) : b[1] \in Things /\ Was(b[1], b[2], q.since, Lag(b[1]))
      BY <2>1, <2>2
    <2> QED
      BY <1>1, <1>4, <1>6, <2>3, Answers DEF Resume, OnlyCalls, clock, Listing
  <1>7. CASE q.at = "resume" /\ q.todo # <<>> /\ c = [q EXCEPT !.at = "look", !.id = Head(q.todo)]
    <2>1. /\ Keeps(c, q, {"at", "id"}) /\ c.at = "look" /\ c.id = Head(q.todo)
      BY <1>1, <1>7 DEF Keeps, Whole, Fields
    <2>2. /\ Whole(c) /\ c.op = "recent" /\ c.inst = q.inst /\ c.since = q.since /\ c.rests = q.rests
          /\ c.todo = q.todo /\ c.got = None
      BY <1>1, <1>7, <2>1 DEF Keeps, Fields, Placed, Blank
    <2>3. Placed(c)
      BY <1>1, <1>3, <1>7, <2>1, <2>2 DEF Placed, Blank
    <2>4. Based(c) /\ Claimed(c)
      BY <1>2, <2>1, <2>2 DEF Based, Claimed
    <2> QED
      BY <1>1, <1>4, <1>7, <2>1, <2>2, <2>3, <2>4, Quiet DEF Resume, OnlyCalls, clock, Listing, CallOK
  <1>8. CASE q.at = "got" /\ c = [q EXCEPT !.at = "resume", !.todo = Tail(@), !.got = None, !.id = 0]
    <2>1. PICK half : half = [q EXCEPT !.at = "resume", !.todo = Tail(@)]
      OBVIOUS
    <2>2. c = [half EXCEPT !.got = None, !.id = 0]
      BY <1>8, <2>1
    <2>3. /\ Whole(half) /\ half.at = "resume" /\ half.todo = Tail(q.todo)
          /\ \A f \in Fields \ {"at", "todo"} : half[f] = q[f]
      BY <1>1, <2>1 DEF Whole, Fields
    <2>4. /\ Keeps(c, q, {"at", "id", "got", "arg", "todo", "rests"}) /\ c.at = "resume" /\ c.todo = Tail(q.todo)
          /\ c.got = None /\ c.rests = q.rests
      BY <2>2, <2>3 DEF Keeps, Whole, Fields
    <2>5. q.todo # <<>>
      BY <1>1, <1>8 DEF Placed, Looking
    <2>6. Whole(c) /\ Placed(c) /\ Claimed(c) /\ c.since = q.since
      BY <1>1, <1>3, <2>4, <2>5, Aside DEF Looking, Writing, Listing
    <2>7. Based(c)
      BY <1>2, <2>4, <2>6 DEF Based
    <2> QED
      BY <1>1, <1>4, <1>8, <2>4, <2>6, <2>7, Quiet DEF Resume, OnlyCalls, clock, Listing, CallOK
  <1> QED
    BY <1>4, <1>5, <1>6, <1>7, <1>8

\* The card of a bucket rests on what was so in it.
LEMMA OfBucket ==
  ASSUME SkillsInv, NEW q, CallOK(q), NEW rests,
         \A b \in rests : b[1] \in Things /\ Was(b[1], b[2], Bucket(now) * TTL, 0)
  PROVE  \A b \in rests : b[1] \in Things /\ Was(b[1], b[2], q.since, Lag(b[1]))
  <1> TAKE b \in rests
  <1>1. PICK n : n = Bucket(now)
    OBVIOUS
  <1>2. PICK m : m = n * TTL
    OBVIOUS
  <1>3. n \in Nat /\ m <= now /\ now < m + TTL
    BY <1>1, <1>2, TheTime, OfBuckets
  <1>4. m \in Nat
    BY <1>2, <1>3, SkillBounds
  <1>5. q.since \in Nat /\ q.since <= now /\ now \in Nat /\ SkillsTypes
    BY TheTime DEF CallOK, Placed
  <1>6. Lag(b[1]) \in Nat /\ Lag(b[1]) >= TTL + Patience - 1
    BY SkillBounds DEF Lag
  <1>7. q.since - Lag(b[1]) <= m - 0
    BY <1>3, <1>4, <1>5, <1>6, SkillBounds
  <1>8. b[1] \in Things /\ Was(b[1], b[2], m, 0)
    BY <1>1, <1>2
  <1> QED
    BY <1>4, <1>5, <1>6, <1>7, <1>8, WasBefore

LEMMA CardHit ==
  ASSUME SkillsInv, NEW t \in Thread, Hit(t)
  PROVE  SkillsInv'
  <1>1. PICK q : q = calls[t] /\ CallOK(q) /\ Whole(q) /\ Placed(q) /\ Based(q) /\ q.at = "card"
                 /\ q.inst \in Instance /\ SkillsTypes
    BY AtWork DEF Hit
  <1>2. Bucket(now) \in 0 .. Bucket(MaxTime) /\ Bucket(now) \in Nat /\ Bucket(now) * TTL <= now
    <2>1. now \in 0 .. MaxTime
      BY <1>1 DEF SkillsTypes
    <2> QED
      BY <2>1, OfBuckets, LaterBuckets, SkillBounds
  <1>3. PICK card : card = cards[q.inst][Bucket(now)]
    OBVIOUS
  <1>4. PICK c : /\ Goes(t, c)
                 /\ \/ card # None /\ c = Answer(q, card)
                    \/ c = [q EXCEPT !.at = "build", !.arg = Bucket(now)]
    BY <1>1, <1>3 DEF Hit
  <1>5. CASE card # None /\ c = Answer(q, card)
    <2>1. \A b \in card : b[1] \in Things /\ Was(b[1], b[2], Bucket(now) * TTL, 0)
      BY <1>1, <1>2, <1>3, <1>5 DEF SkillsInv, CardsRecent
    <2>2. \A b \in card : b[1] \in Things /\ Was(b[1], b[2], q.since, Lag(b[1]))
      BY <1>1, <2>1, OfBucket
    <2> QED
      BY <1>1, <1>4, <1>5, <2>2, Answers DEF Hit, OnlyCalls, clock, Listing
  <1>6. CASE c = [q EXCEPT !.at = "build", !.arg = Bucket(now)]
    <2>1. /\ Keeps(c, q, {"at", "id", "got", "arg", "todo", "rests"}) /\ c.at = "build" /\ c.arg = Bucket(now)
          /\ c.rests = q.rests /\ c.got = q.got /\ c.id = q.id /\ c.todo = q.todo /\ c.op = q.op
      BY <1>1, <1>6 DEF Keeps, Whole, Fields
    <2>2. q.op # "templates" /\ (c.op \in {"seed", "recent"} => c.todo \in Seq(SkillId))
      BY <1>1, <2>1 DEF Placed, Looking, Writing, Listing
    <2>3. Whole(c) /\ Placed(c) /\ Claimed(c) /\ c.since = q.since
      BY <1>1, <2>1, <2>2, Aside DEF Looking, Writing, Listing, Blank
    <2>4. Based(c)
      BY <1>1, <1>2, <2>1, <2>3 DEF Based
    <2> QED
      BY <1>1, <1>4, <2>1, <2>3, <2>4, Quiet DEF Hit, OnlyCalls, clock, Listing, CallOK
  <1> QED
    BY <1>4, <1>5, <1>6

LEMMA CardBuilt ==
  ASSUME SkillsInv, NEW t \in Thread, Build(t)
  PROVE  SkillsInv'
  <1>1. PICK q : q = calls[t] /\ CallOK(q) /\ Whole(q) /\ Placed(q) /\ Based(q) /\ q.at = "build" /\ SkillsTypes
    BY AtWork DEF Build
  <1>2. PICK found \in {AllSkills, {}} : Goes(t, [q EXCEPT !.at = "keep", !.rests = found])
    BY <1>1 DEF Build
  <1>3. PICK c : c = [q EXCEPT !.at = "keep", !.rests = found]
    OBVIOUS
  <1>4. /\ Keeps(c, q, {"at", "id", "got", "arg", "todo", "rests"}) /\ c.at = "keep" /\ c.arg = q.arg
        /\ c.rests = found /\ c.got = q.got /\ c.id = q.id /\ c.todo = q.todo /\ c.op = q.op
    BY <1>1, <1>3 DEF Keeps, Whole, Fields
  <1>5. q.op # "templates" /\ (c.op \in {"seed", "recent"} => c.todo \in Seq(SkillId))
    BY <1>1, <1>4 DEF Placed, Looking, Writing, Listing
  <1>6. Whole(c) /\ Placed(c) /\ Claimed(c)
    BY <1>1, <1>4, <1>5, Aside DEF Looking, Writing, Listing, Blank
  <1>7. \A b \in c.rests : b[1] \in Things /\ \A from, slack : Was(b[1], b[2], from, slack)
    BY <1>4, AllNow, RestsNow
  <1>8. Based(c)
    BY <1>1, <1>4, <1>7 DEF Based
  <1> QED
    BY <1>1, <1>2, <1>3, <1>4, <1>6, <1>8, Quiet DEF Build, OnlyCalls, clock, Listing, CallOK

LEMMA CardKept ==
  ASSUME SkillsInv, NEW t \in Thread, Keep(t)
  PROVE  SkillsInv'
  <1>1. PICK q : q = calls[t] /\ CallOK(q) /\ Based(q) /\ q.at = "keep" /\ q.inst \in Instance /\ SkillsTypes
    BY AtWork DEF Keep
  <1>2. PICK kept : kept = IF cards[q.inst][q.arg] = None THEN q.rests ELSE cards[q.inst][q.arg]
    OBVIOUS
  <1>3. cards' = [cards EXCEPT ![q.inst][q.arg] = kept]
    BY <1>1, <1>2 DEF Keep
  <1>4. /\ \A j \in Instance, b \in 0 .. Bucket(MaxTime) :
              cards'[j][b] = IF j = q.inst /\ b = q.arg THEN kept ELSE cards[j][b]
        /\ cards' = [j \in Instance |-> [b \in 0 .. Bucket(MaxTime) |-> cards'[j][b]]]
    <2>1. PICK row : row = [cards[q.inst] EXCEPT ![q.arg] = kept]
      OBVIOUS
    <2>2. cards[q.inst] = [b \in 0 .. Bucket(MaxTime) |-> cards[q.inst][b]]
      BY <1>1 DEF SkillsTypes
    <2>3. row = [b \in 0 .. Bucket(MaxTime) |-> IF b = q.arg THEN kept ELSE cards[q.inst][b]]
      BY <2>1, <2>2
    <2>4. cards' = [cards EXCEPT ![q.inst] = row]
      BY <1>3, <2>1
    <2>5. \A j \in Instance : cards'[j] = IF j = q.inst THEN row ELSE cards[j]
      BY <1>1, <2>4 DEF SkillsTypes
    <2>6. cards' = [j \in Instance |-> cards'[j]]
      BY <1>1, <2>4 DEF SkillsTypes
    <2>7. ASSUME NEW j \in Instance
          PROVE  cards'[j] = [b \in 0 .. Bucket(MaxTime) |-> IF j = q.inst /\ b = q.arg THEN kept ELSE cards[j][b]]
      <3>1. CASE j = q.inst
        BY <2>3, <2>5, <3>1
      <3>2. CASE j # q.inst
        <4>1. cards[j] = [b \in 0 .. Bucket(MaxTime) |-> cards[j][b]]
          BY <1>1 DEF SkillsTypes
        <4> QED
          BY <2>5, <3>2, <4>1
      <3> QED
        BY <3>1, <3>2
    <2>8. \A j \in Instance : /\ \A b \in 0 .. Bucket(MaxTime) : cards'[j][b] = IF j = q.inst /\ b = q.arg THEN kept ELSE cards[j][b]
                             /\ cards'[j] = [b \in 0 .. Bucket(MaxTime) |-> cards'[j][b]]
      <3> TAKE j \in Instance
      <3>1. PICK new : new = cards'[j]
        OBVIOUS
      <3>2. new = [b \in 0 .. Bucket(MaxTime) |-> IF j = q.inst /\ b = q.arg THEN kept ELSE cards[j][b]]
        BY <2>7, <3>1
      <3>3. new = [b \in 0 .. Bucket(MaxTime) |-> new[b]]
        BY <3>2
      <3> QED
        BY <3>1, <3>2, <3>3
    <2>9. cards' = [j \in Instance |-> [b \in 0 .. Bucket(MaxTime) |-> cards'[j][b]]]
      BY <2>6, <2>8, Zenon
    <2> QED
      BY <2>8, <2>9
  <1>5. \A b \in q.rests : b[1] \in Things /\ Was(b[1], b[2], q.since, Lag(b[1]))
    <2>1. \A b \in q.rests : b[1] \in Things /\ Was(b[1], b[2], q.since, 0)
      BY <1>1 DEF Based
    <2> QED
      BY <1>1, <2>1, OfLate
  <1>6. PICK c : c = Answer(q, q.rests)
    OBVIOUS
  <1>7. CallOK(c) /\ c.at = "answer" /\ Goes(t, c)
    BY <1>1, <1>5, <1>6, AnswerOK DEF Answer, Idle, Keep
  <1>8. NothingChanges /\ UNCHANGED permits
    BY DEF Keep, NothingChanges, clock, catalogue, policy, history
  <1>9. PermitsRecent' /\ permits' = [i \in Instance |-> permits'[i]]
    BY <1>1, <1>8, RestStays DEF SkillsTypes
  <1>10. CardsRecent'
    <2>1. \A x, v, a, d : Was(x, v, a, d)' <=> Was(x, v, a, d)
      BY <1>8 DEF NothingChanges, Was, Value
    <2> SUFFICES ASSUME NEW j \in Instance, NEW b \in 0 .. Bucket(MaxTime), cards'[j][b] # None
                 PROVE  /\ b * TTL <= now
                        /\ \A r \in cards'[j][b] : r[1] \in Things /\ Was(r[1], r[2], b * TTL, 0)
      BY <1>8, <2>1 DEF CardsRecent, NothingChanges, Bucket
    <2>2. CASE cards'[j][b] = cards[j][b]
      BY <2>2 DEF SkillsInv, CardsRecent
    <2>3. CASE cards'[j][b] # cards[j][b]
      <3>1. j = q.inst /\ b = q.arg /\ cards'[j][b] = q.rests
        BY <1>2, <1>4, <2>3
      <3> QED
        BY <1>1, <3>1 DEF Based
    <2> QED
      BY <2>2, <2>3
  <1> QED
    BY <1>1, <1>4, <1>7, <1>9, <1>10, QuietLocal DEF Keep, Listing

\* A step on a decision and one call.
LEMMA QuietPermits ==
  ASSUME SkillsInv, NEW t \in Thread, NEW call, Goes(t, call), CallOK(call),
         calls[t].at \notin Listing, call.at # "sync",
         UNCHANGED <<clock, catalogue, policy, cache, cards, tools, history>>,
         PermitsRecent', permits' = [i \in Instance |-> permits'[i]]
  PROVE  SkillsInv'
  <1>1. NothingChanges /\ UNCHANGED cards
    BY DEF NothingChanges, clock, catalogue, policy, history
  <1>2. CardsRecent' /\ cards' = [i \in Instance |-> [b \in 0 .. Bucket(MaxTime) |-> cards'[i][b]]]
    BY <1>1, TheTime, RestStays DEF SkillsTypes
  <1> QED
    BY <1>2, QuietLocal

LEMMA KeepsPermits ==
  ASSUME SkillsInv, NothingChanges, \A i \in Instance : permits'[i] # None => permits'[i] = permits[i]
  PROVE  PermitsRecent'
  <1>1. \A x, v, a, d : Was(x, v, a, d)' <=> Was(x, v, a, d)
    BY DEF NothingChanges, Was, Value
  <1> QED
    BY <1>1 DEF NothingChanges, SkillsInv, PermitsRecent

LEMMA Permitted ==
  ASSUME SkillsInv, NEW t \in Thread, Permit(t)
  PROVE  SkillsInv'
  <1>1. PICK q : q = calls[t] /\ CallOK(q) /\ Whole(q) /\ Placed(q) /\ Based(q) /\ q.at = "permit"
                 /\ q.inst \in Instance /\ SkillsTypes /\ q.since \in Nat /\ q.since <= now /\ now \in Nat
    BY AtWork DEF Permit
  <1>2. PICK permit : permit = permits[q.inst]
    OBVIOUS
  <1>3. CASE PermitFresh(permit) /\ Goes(t, Answer(q, permit.rests)) /\ UNCHANGED permits
    <2>1. permit # None /\ now - permit.at <= TTL /\ permit.at \in Nat /\ permit.at <= now
      BY <1>1, <1>2, <1>3 DEF PermitFresh, SkillsInv, PermitsRecent
    <2>2. \A b \in permit.rests : b[1] \in Things /\ Was(b[1], b[2], q.since, Lag(b[1]))
      <3> TAKE b \in permit.rests
      <3>1. b[1] \in Things /\ b[1][1] = "rule" /\ Was(b[1], b[2], permit.at, Patience)
        BY <1>1, <1>2, <2>1 DEF SkillsInv, PermitsRecent
      <3>2. Lag(b[1]) = TTL + Patience
        BY <3>1 DEF Lag
      <3>3. q.since - (TTL + Patience) <= permit.at - Patience
        BY <1>1, <2>1, SkillBounds
      <3>4. Was(b[1], b[2], q.since, TTL + Patience)
        BY <1>1, <2>1, <3>1, <3>3, SkillBounds, WasBefore
      <3> QED
        BY <3>1, <3>2, <3>4
    <2>3. UNCHANGED <<now, catalogue, policy, local, history>>
      BY <1>3 DEF Permit, clock, local
    <2> QED
      BY <1>1, <1>3, <2>2, <2>3, Answers DEF Listing
  <1>4. CASE permits' = [permits EXCEPT ![q.inst] = None] /\ Goes(t, [q EXCEPT !.at = "rule", !.arg = 1])
    <2>1. PICK c : c = [q EXCEPT !.at = "rule", !.arg = 1]
      OBVIOUS
    <2>2. /\ Keeps(c, q, {"at", "id", "got", "arg", "todo", "rests"}) /\ c.at = "rule" /\ c.arg = 1
          /\ c.rests = q.rests /\ c.got = q.got /\ c.id = q.id /\ c.todo = q.todo /\ c.op = q.op
      BY <1>1, <2>1 DEF Keeps, Whole, Fields
    <2>3. q.op # "templates" /\ (c.op \in {"seed", "recent"} => c.todo \in Seq(SkillId)) /\ c.arg \in Levels
      BY <1>1, <2>2 DEF Placed, Looking, Writing, Listing, Levels
    <2>4. Whole(c) /\ Placed(c) /\ Claimed(c) /\ c.since = q.since
      BY <1>1, <2>2, <2>3, Aside DEF Looking, Writing, Listing, Blank
    <2>5. Based(c)
      BY <1>1, <2>2, <2>4 DEF Based
    <2>6. /\ \A i \in Instance : permits'[i] = IF i = q.inst THEN None ELSE permits[i]
          /\ permits' = [i \in Instance |-> permits'[i]]
      BY <1>1, <1>4 DEF SkillsTypes
    <2>7. PermitsRecent'
      <3>1. \A i \in Instance : permits'[i] # None => permits'[i] = permits[i]
        BY <2>6
      <3> QED
        BY <3>1, KeepsPermits DEF Permit, NothingChanges, clock, catalogue, policy, history
    <2> QED
      BY <1>1, <1>4, <2>1, <2>2, <2>4, <2>5, <2>6, <2>7, QuietPermits DEF Permit, Listing, CallOK
  <1> QED
    BY <1>1, <1>2, <1>3, <1>4 DEF Permit

LEMMA RuleRead ==
  ASSUME SkillsInv, NEW t \in Thread, ReadRule(t)
  PROVE  SkillsInv'
  <1>1. PICK q : q = calls[t] /\ CallOK(q) /\ Whole(q) /\ Placed(q) /\ Based(q) /\ q.at = "rule" /\ SkillsTypes
    BY AtWork DEF ReadRule
  <1>2. q.arg \in Levels
    BY <1>1 DEF Placed
  <1>3. PICK basis : basis = <<<<"rule", q.arg>>, rules[q.arg]>>
    OBVIOUS
  <1>4. PICK c : /\ Goes(t, c)
                 /\ \/ q.arg < Wildcard /\ c = [q EXCEPT !.rests = @ \union {basis}, !.arg = @ + 1]
                    \/ c = [q EXCEPT !.rests = @ \union {basis}, !.at = "decide"]
    BY <1>1, <1>3 DEF ReadRule
  <1>5. /\ Keeps(c, q, {"at", "id", "got", "arg", "todo", "rests"}) /\ c.rests = q.rests \union {basis}
        /\ c.got = q.got /\ c.id = q.id /\ c.todo = q.todo /\ c.op = q.op
        /\ \/ c.at = "rule" /\ q.arg < Wildcard /\ c.arg = q.arg + 1
           \/ c.at = "decide"
    BY <1>1, <1>4 DEF Keeps, Whole, Fields
  <1>6. q.op # "templates" /\ (c.op \in {"seed", "recent"} => c.todo \in Seq(SkillId))
        /\ (c.at = "rule" => c.arg \in Levels)
    BY <1>1, <1>2, <1>5 DEF Placed, Looking, Writing, Listing, Levels, Wildcard
  <1>7. Whole(c) /\ Placed(c) /\ Claimed(c) /\ c.since = q.since
    BY <1>1, <1>5, <1>6, Aside DEF Looking, Writing, Listing, Blank
  <1>8. basis[1] = <<"rule", q.arg>> /\ basis[2] = Value(basis[1]) /\ basis[1] \in Things /\ basis[1][1] = "rule"
    BY <1>2, <1>3, TheThings
  <1>9. Based(c)
    BY <1>1, <1>5, <1>7, <1>8, RestsNow DEF Based
  <1> QED
    BY <1>1, <1>4, <1>5, <1>7, <1>9, Quiet DEF ReadRule, OnlyCalls, clock, Listing, CallOK

LEMMA Decided ==
  ASSUME SkillsInv, NEW t \in Thread, Decide(t)
  PROVE  SkillsInv'
  <1>1. PICK q : q = calls[t] /\ CallOK(q) /\ Placed(q) /\ Based(q) /\ q.at = "decide" /\ q.inst \in Instance
                 /\ SkillsTypes /\ q.since \in Nat /\ q.since <= now /\ now \in Nat
    BY AtWork DEF Decide
  <1>2. PICK permit : permit = [at |-> now, rests |-> q.rests]
    OBVIOUS
  <1>3. permits' = [permits EXCEPT ![q.inst] = permit]
    BY <1>1, <1>2 DEF Decide
  <1>4. /\ \A i \in Instance : permits'[i] = IF i = q.inst THEN permit ELSE permits[i]
        /\ permits' = [i \in Instance |-> permits'[i]]
    BY <1>1, <1>3 DEF SkillsTypes
  <1>5. now <= q.since + Patience
    BY <1>1 DEF Placed
  <1>6. \A b \in q.rests : b[1] \in Things /\ b[1][1] = "rule" /\ Was(b[1], b[2], q.since, 0)
    BY <1>1 DEF Based
  <1>7. \A b \in q.rests : Was(b[1], b[2], now, Patience)
    <2> TAKE b \in q.rests
    <2>1. now - Patience <= q.since - 0
      BY <1>1, <1>5, SkillBounds
    <2> QED
      BY <1>1, <1>6, <2>1, SkillBounds, WasBefore
  <1>8. PICK c : c = Answer(q, q.rests)
    OBVIOUS
  <1>9. CallOK(c) /\ c.at = "answer" /\ Goes(t, c)
    <2>1. \A b \in q.rests : b[1] \in Things /\ Was(b[1], b[2], q.since, Lag(b[1]))
      BY <1>1, <1>6, OfLate
    <2> QED
      BY <1>1, <1>8, <2>1, AnswerOK DEF Answer, Idle, Decide
  <1>10. PermitsRecent'
    <2>1. NothingChanges
      BY DEF Decide, NothingChanges, clock, catalogue, policy, history
    <2>2. \A x, v, a, d : Was(x, v, a, d)' <=> Was(x, v, a, d)
      BY <2>1 DEF NothingChanges, Was, Value
    <2> SUFFICES ASSUME NEW i \in Instance, permits'[i] # None
                 PROVE  /\ permits'[i].at \in Nat /\ permits'[i].at <= now
                        /\ \A b \in permits'[i].rests :
                              b[1] \in Things /\ b[1][1] = "rule" /\ Was(b[1], b[2], permits'[i].at, Patience)
      BY <2>1, <2>2 DEF PermitsRecent, NothingChanges
    <2>3. CASE i = q.inst
      <3>1. permits'[i] = permit /\ permit.at = now /\ permit.rests = q.rests
        BY <1>2, <1>4, <2>3
      <3> QED
        BY <1>1, <1>6, <1>7, <3>1
    <2>4. CASE i # q.inst
      BY <1>4, <2>4 DEF SkillsInv, PermitsRecent
    <2> QED
      BY <2>3, <2>4
  <1> QED
    BY <1>1, <1>4, <1>9, <1>10, QuietPermits DEF Decide, Listing

-----------------------------------------------------------------------------
(* The rebuilds.                                                           *)

\* What is needed of a step that leaves the catalogue and the histories of it.
LEMMA Frame ==
  ASSUME SkillsInv, NothingChanges, ToolsInv', CacheRecent', CardsRecent', UNCHANGED permits,
         \A u \in Thread : CallOK(calls[u])', calls' = [u \in Thread |-> calls'[u]],
         cache' = [i \in Instance |-> [s \in SkillId |-> cache'[i][s]]],
         cards' = [i \in Instance |-> [b \in 0 .. Bucket(MaxTime) |-> cards'[i][b]]],
         tools' = [i \in Instance |-> tools'[i]], synced' = [i \in Instance |-> synced'[i]]
  PROVE  SkillsInv'
  <1>1. PermitsRecent' /\ SlugsUnique'
    BY RestStays
  <1>2. SkillsTypes'
    BY TheTime DEF NothingChanges, SkillsTypes, Existing, Bucket
  <1> QED
    BY <1>1, <1>2 DEF SkillsInv, ToolsInv

\* The same for a step on the tools and one call.
LEMMA FrameTools ==
  ASSUME SkillsInv, NEW t \in Thread, NEW call, Goes(t, call), CallOK(call), ToolsInv',
         UNCHANGED <<clock, catalogue, policy, cache, permits, cards, past, rivals>>,
         tools' = [i \in Instance |-> tools'[i]], synced' = [i \in Instance |-> synced'[i]]
  PROVE  SkillsInv'
  <1>1. NothingChanges /\ UNCHANGED <<cache, permits, cards>>
    BY DEF NothingChanges, clock, catalogue, policy
  <1>2. calls' = [u \in Thread |-> calls'[u]]
    BY TheTime, OneCall
  <1>3. \A u \in Thread : CallOK(calls[u])'
    BY <1>1, CallsStay
  <1>4. CacheRecent' /\ CardsRecent'
    BY <1>1, RestStays
  <1>5. /\ cache' = [i \in Instance |-> [s \in SkillId |-> cache'[i][s]]]
        /\ cards' = [i \in Instance |-> [b \in 0 .. Bucket(MaxTime) |-> cards'[i][b]]]
    BY <1>1, TheTime DEF SkillsTypes
  <1> QED
    BY <1>1, <1>2, <1>3, <1>4, <1>5, Frame

\* What a rebuild notes down is no matter to what the call goes by.
LEMMA SameOK ==
  ASSUME NEW q, CallOK(q), NEW c, Keeps(c, q, {"public", "drop", "mixed"}), c.public \subseteq q.public
  PROVE  CallOK(c)
  <1>1. /\ Whole(c) /\ c.op = q.op /\ c.at = q.at /\ c.inst = q.inst /\ c.ctx = q.ctx /\ c.id = q.id
        /\ c.got = q.got /\ c.arg = q.arg /\ c.again = q.again /\ c.found = q.found /\ c.todo = q.todo
        /\ c.rests = q.rests /\ c.since = q.since /\ c.claims = q.claims /\ c.lost = q.lost
    BY DEF Keeps, Fields
  <1>2. Placed(q) /\ Based(q) /\ Claimed(q)
    BY DEF CallOK
  <1>3. Placed(c)
    BY <1>1, <1>2 DEF Placed
  <1>4. Based(c)
    BY <1>1, <1>2 DEF Based
  <1>5. Claimed(c)
    BY <1>1, <1>2 DEF Claimed, HoldsSlug, Ahead
  <1> QED
    BY <1>1, <1>3, <1>4, <1>5 DEF CallOK

LEMMA ListsOn ==
  ASSUME NEW q, CallOK(q), q.at \in Listing, NEW c, Keeps(c, q, {"at", "public", "drop", "mixed"}),
         c.at \in {"public", "sync", "reread"}, c.at = "sync" => c.public \subseteq SkillId
  PROVE  CallOK(c)
  <1>1. /\ Whole(c) /\ c.op = q.op /\ c.inst = q.inst /\ c.ctx = q.ctx /\ c.id = q.id
        /\ c.got = q.got /\ c.arg = q.arg /\ c.again = q.again /\ c.found = q.found /\ c.todo = q.todo
        /\ c.rests = q.rests /\ c.since = q.since /\ c.claims = q.claims /\ c.lost = q.lost
    BY DEF Keeps, Fields
  <1>2. Placed(q) /\ Based(q) /\ Claimed(q)
    BY DEF CallOK
  <1>3. Placed(c)
    BY <1>1, <1>2 DEF Placed, Writing, Listing, Looking, Blank
  <1>4. Based(c)
    BY <1>1, <1>2 DEF Based, Listing
  <1>5. c.op = "templates" => Ahead(c) = Ahead(q)
    BY <1>1 DEF Ahead, Listing
  <1>6. Claimed(c)
    BY <1>1, <1>2, <1>5 DEF Claimed, Looking
  <1> QED
    BY <1>1, <1>3, <1>4, <1>6 DEF CallOK

LEMMA RebuiltOK ==
  ASSUME SkillsTypes, NEW q, CallOK(q), q.at \in Listing
  PROVE  CallOK(Rebuilt(q)) /\ Rebuilt(q).at \in {"reread", "next", "answer"}
  <1>1. PICK done : done = [q EXCEPT !.public = {}, !.drop = {}, !.mixed = FALSE]
    OBVIOUS
  <1>2. Whole(q)
    BY DEF CallOK
  <1>3. Keeps(done, q, {"public", "drop", "mixed"}) /\ done.at = q.at /\ done.public = {}
    BY <1>1, <1>2 DEF Keeps, Whole, Fields
  <1>4. CallOK(done) /\ Whole(done)
    BY <1>3, SameOK DEF Keeps
  <1>5. CallOK(Finished(done)) /\ Finished(done).at \in {"next", "answer"}
    BY <1>3, <1>4, FinishedOK, FinishedAt DEF Writing
  <1>6. PICK c : c = [done EXCEPT !.at = "reread"]
    OBVIOUS
  <1>7. Keeps(c, q, {"at", "public", "drop", "mixed"}) /\ c.at = "reread"
    BY <1>3, <1>4, <1>6 DEF Keeps, Whole, Fields
  <1>8. CallOK(c)
    BY <1>7, ListsOn
  <1>9. Rebuilt(q) = c \/ Rebuilt(q) = Finished(done)
    BY <1>1, <1>6 DEF Rebuilt
  <1> QED
    BY <1>5, <1>7, <1>8, <1>9

\* A rebuild that ends without the lists being of the present leaves no claim that they are.
LEMMA ToolsTouched ==
  ASSUME SkillsInv, NEW t \in Thread, NEW call, Goes(t, call), UNCHANGED skills,
         NEW i \in Instance, calls[t].inst = i, call.at \notin Listing,
         \/ calls[t].at = "public" /\ tools'[i] = tools[i]
         \/ calls[t].at = "sync",
         \A j \in Instance \ {i} : tools'[j] = tools[j] /\ (synced'[j] => synced[j]),
         synced'[i] => tools'[i] = Public
  PROVE  ToolsInv'
  <1>1. \A u \in Thread : calls'[u] = IF u = t THEN call ELSE calls[u]
    BY TheTime, OneCall
  <1>2. Public' = Public
    BY DEF Public, Existing
  <1>3. RebuildsAlone'
    <2> SUFFICES ASSUME NEW u \in Thread, calls'[u].at = "sync", ~calls'[u].mixed
                 PROVE  /\ tools'[calls'[u].inst] \subseteq calls'[u].public \union calls'[u].drop
                        /\ \A w \in Thread \ {u} : ~(calls'[w].inst = calls'[u].inst /\ calls'[w].at = "sync")
      BY DEF RebuildsAlone, Syncing
    <2>1. u # t /\ calls'[u] = calls[u]
      BY <1>1 DEF Listing
    <2>2. /\ tools[calls[u].inst] \subseteq calls[u].public \union calls[u].drop
          /\ \A w \in Thread \ {u} : ~Syncing(w, calls[u].inst)
      BY <2>1 DEF SkillsInv, RebuildsAlone
    <2>3. \A w \in Thread \ {u} : ~(calls'[w].inst = calls[u].inst /\ calls'[w].at = "sync")
      BY <1>1, <2>1, <2>2 DEF Syncing, Listing
    <2>4. tools'[calls[u].inst] = tools[calls[u].inst]
      <3>1. calls[t].at = "sync" => calls[u].inst # i
        BY <2>1, <2>2 DEF Syncing
      <3>2. calls[u].inst \in Instance
        BY <2>1, AtWork
      <3> QED
        BY <3>1, <3>2
    <2> QED
      BY <2>1, <2>2, <2>3, <2>4
  <1>4. ToolsMatchPublic'
    <2> SUFFICES ASSUME NEW j \in Instance, synced'[j],
                        \A u \in Thread : ~(Rebuilding(u)' /\ Here(u)' = j)
                 PROVE  tools'[j] = Public
      BY <1>2 DEF ToolsMatchPublic
    <2>1. CASE j # i
      <3>1. \A u \in Thread : ~(Rebuilding(u) /\ Here(u) = j)
        BY <1>1, <2>1 DEF Rebuilding, Here
      <3> QED
        BY <2>1, <3>1 DEF SkillsInv, ToolsMatchPublic
    <2>2. CASE j = i
      BY <2>2
    <2> QED
      BY <2>1, <2>2
  <1> QED
    BY <1>3, <1>4 DEF ToolsInv

\* The cards of an instance go.
LEMMA CardsGone ==
  ASSUME SkillsTypes, NEW i \in Instance, NEW row, row = [b \in DOMAIN cards[i] |-> None],
         cards' = [cards EXCEPT ![i] = row]
  PROVE  /\ \A j \in Instance, b \in 0 .. Bucket(MaxTime) : cards'[j][b] # None => cards'[j][b] = cards[j][b]
         /\ cards' = [j \in Instance |-> [b \in 0 .. Bucket(MaxTime) |-> cards'[j][b]]]
  <1>1. \A j \in Instance : cards[j] = [b \in 0 .. Bucket(MaxTime) |-> cards[j][b]]
    BY DEF SkillsTypes
  <1>2. row = [b \in 0 .. Bucket(MaxTime) |-> None]
    BY <1>1
  <1>3. \A j \in Instance : cards'[j] = IF j = i THEN row ELSE cards[j]
    BY DEF SkillsTypes
  <1>4. cards' = [j \in Instance |-> cards'[j]]
    BY DEF SkillsTypes
  <1>5. \A j \in Instance : cards'[j] = [b \in 0 .. Bucket(MaxTime) |-> cards'[j][b]]
    <2> TAKE j \in Instance
    <2>1. PICK new : new = cards'[j]
      OBVIOUS
    <2>2. new = [b \in 0 .. Bucket(MaxTime) |-> IF j = i THEN None ELSE cards[j][b]]
      <3>1. CASE j = i
        BY <1>2, <1>3, <2>1, <3>1
      <3>2. CASE j # i
        BY <1>1, <1>3, <2>1, <3>2
      <3> QED
        BY <3>1, <3>2
    <2>3. new = [b \in 0 .. Bucket(MaxTime) |-> new[b]]
      BY <2>2
    <2> QED
      BY <2>1, <2>2, <2>3
  <1>6. cards' = [j \in Instance |-> [b \in 0 .. Bucket(MaxTime) |-> cards'[j][b]]]
    BY <1>4, <1>5, Zenon
  <1> QED
    BY <1>2, <1>3, <1>6

LEMMA KeepsCards ==
  ASSUME SkillsInv, NothingChanges,
         \A j \in Instance, b \in 0 .. Bucket(MaxTime) : cards'[j][b] # None => cards'[j][b] = cards[j][b]
  PROVE  CardsRecent'
  <1>1. \A x, v, a, d : Was(x, v, a, d)' <=> Was(x, v, a, d)
    BY DEF NothingChanges, Was, Value
  <1> QED
    BY <1>1 DEF NothingChanges, SkillsInv, CardsRecent, Bucket

LEMMA Invalidated ==
  ASSUME SkillsInv, NEW t \in Thread, Invalidate(t)
  PROVE  SkillsInv'
  <1>1. PICK q : q = calls[t] /\ CallOK(q) /\ Whole(q) /\ Placed(q) /\ Based(q) /\ q.at = "invalidate"
                 /\ q.inst \in Instance /\ q.id \in SkillId /\ SkillsTypes
    BY AtWork DEF Invalidate, Writing, Listing
  <1>2. PICK c : Goes(t, c) /\ c = [q EXCEPT !.at = "public"]
    BY <1>1 DEF Invalidate, Move
  <1>3. Keeps(c, q, {"at", "public", "drop", "mixed"}) /\ c.at = "public" /\ c.inst = q.inst
    BY <1>1, <1>2 DEF Keeps, Whole, Fields
  <1>4. CallOK(c)
    BY <1>1, <1>3, ListsOn DEF Listing
  <1>5. NothingChanges /\ UNCHANGED permits /\ UNCHANGED <<skills, tools, synced>>
    BY DEF Invalidate, NothingChanges, clock, catalogue, policy, history
  <1>6. PICK entry : /\ SetsEntry(q.inst, q.id, entry)
                     /\ \/ q.again /\ entry = None
                        \/ ~q.again /\ entry = [at |-> now, skill |-> q.got]
    <2>1. CASE q.again
      <3>1. SetsEntry(q.inst, q.id, None)
        BY <1>1, <2>1 DEF Invalidate, SetsEntry
      <3> QED
        BY <2>1, <3>1
    <2>2. CASE ~q.again
      <3>1. SetsEntry(q.inst, q.id, [at |-> now, skill |-> q.got])
        BY <1>1, <2>2 DEF Invalidate, SetsEntry, Filled
      <3> QED
        BY <2>2, <3>1
    <2> QED
      BY <2>1, <2>2
  <1>7. entry = None \/ EntryOK(q.id, entry)
    <2> SUFFICES ASSUME ~q.again, entry = [at |-> now, skill |-> q.got] PROVE EntryOK(q.id, entry)
      BY <1>6
    <2>1. Was(<<"skill", q.id>>, Saw(q.got), q.since, 0)
      BY <1>1 DEF Based
    <2> QED
      BY <1>1, <2>1, FillsWell
  <1>8. CacheRecent'
    BY <1>1, <1>5, <1>6, <1>7, CacheStays
  <1>9. cache' = [j \in Instance |-> [s \in SkillId |-> cache'[j][s]]]
    BY <1>1, <1>6, CacheSet
  <1>10. /\ \A j \in Instance, b \in 0 .. Bucket(MaxTime) : cards'[j][b] # None => cards'[j][b] = cards[j][b]
         /\ cards' = [j \in Instance |-> [b \in 0 .. Bucket(MaxTime) |-> cards'[j][b]]]
    <2>1. PICK row : row = [b \in DOMAIN cards[q.inst] |-> None]
      OBVIOUS
    <2>2. cards' = [cards EXCEPT ![q.inst] = row]
      BY <1>1, <2>1 DEF Invalidate
    <2> QED
      BY <1>1, <2>1, <2>2, CardsGone
  <1>11. CardsRecent'
    BY <1>5, <1>10, KeepsCards
  <1>12. ToolsInv'
    BY <1>1, <1>2, <1>3, <1>5, ToolsKept DEF Listing, SkillsInv, ToolsInv
  <1>13. \A u \in Thread : CallOK(calls[u])'
    BY <1>2, <1>4, <1>5, CallsStay
  <1>14. calls' = [u \in Thread |-> calls'[u]]
    BY <1>1, <1>2, OneCall
  <1>15. tools' = [j \in Instance |-> tools'[j]] /\ synced' = [j \in Instance |-> synced'[j]]
    BY <1>1, <1>5 DEF SkillsTypes
  <1> QED
    BY <1>5, <1>8, <1>9, <1>10, <1>11, <1>12, <1>13, <1>14, <1>15, Frame

LEMMA PublicQueried ==
  ASSUME SkillsInv, NEW t \in Thread, QueryPublic(t)
  PROVE  SkillsInv'
  <1>1. PICK q : q = calls[t] /\ CallOK(q) /\ Whole(q) /\ q.at = "public" /\ q.inst \in Instance /\ SkillsTypes
    BY AtWork DEF QueryPublic
  <1>2. PICK others : others = {u \in Thread : Syncing(u, q.inst)}
    OBVIOUS
  <1>3. PICK some \in BOOLEAN : some = (others # {})
    BY Zenon
  <1>4. PICK c : c = [q EXCEPT !.at = "sync", !.public = Public, !.mixed = some]
    OBVIOUS
  <1>5. PICK d : d = [c EXCEPT !.drop = Gone(q.inst)]
    OBVIOUS
  <1>6. /\ Keeps(d, q, {"at", "public", "drop", "mixed"}) /\ d.at = "sync" /\ d.inst = q.inst
        /\ d.public = Public /\ d.mixed = some /\ d.drop = Gone(q.inst)
    <2>1. /\ Whole(c) /\ c.at = "sync" /\ c.public = Public /\ c.mixed = some
          /\ \A f \in Fields \ {"at", "public", "mixed"} : c[f] = q[f]
      BY <1>1, <1>4 DEF Whole, Fields
    <2> QED
      BY <1>5, <2>1 DEF Keeps, Whole, Fields
  <1>7. calls' = [u \in Thread |-> IF u = t THEN d ELSE [calls[u] EXCEPT !.mixed = @ \/ u \in others]]
    <2>1. d = [q EXCEPT !.at = "sync", !.public = Public, !.mixed = others # {}, !.drop = Gone(q.inst)]
      BY <1>3, <1>4, <1>5
    <2> QED
      BY <1>1, <1>2, <2>1 DEF QueryPublic
  <1>8. calls'[t] = d /\ calls' = [u \in Thread |-> calls'[u]]
    BY <1>7
  <1>9. ASSUME NEW u \in Thread \ {t}
        PROVE  /\ Keeps(calls'[u], calls[u], {"public", "drop", "mixed"})
               /\ calls'[u].at = calls[u].at /\ calls'[u].inst = calls[u].inst
               /\ calls'[u].public = calls[u].public /\ calls'[u].drop = calls[u].drop
               /\ ~calls'[u].mixed => ~calls[u].mixed /\ ~Syncing(u, q.inst)
    <2>1. PICK b \in BOOLEAN : b = (calls[u].mixed \/ u \in others)
      BY Zenon
    <2>2. calls'[u] = [calls[u] EXCEPT !.mixed = b]
      BY <1>7, <2>1
    <2>3. Whole(calls[u])
      BY AtWork
    <2>4. PICK e, p : e = calls'[u] /\ p = calls[u]
      OBVIOUS
    <2>5. Keeps(e, p, {"public", "drop", "mixed"}) /\ e.at = p.at /\ e.inst = p.inst /\ e.public = p.public
          /\ e.drop = p.drop /\ e.mixed = b
      BY <2>2, <2>3, <2>4 DEF Keeps, Whole, Fields
    <2>6. ~e.mixed => ~p.mixed /\ u \notin others
      BY <2>1, <2>4, <2>5
    <2> QED
      BY <1>2, <2>4, <2>5, <2>6
  <1>10. NothingChanges /\ UNCHANGED <<cache, permits, cards, tools, synced>> /\ Public' = Public
    BY DEF QueryPublic, OnlyCalls, NothingChanges, clock, catalogue, policy, local, history, Public, Existing
  <1>11. \A u \in Thread : CallOK(calls[u])'
    <2> TAKE u \in Thread
    <2>1. PICK e : e = calls'[u]
      OBVIOUS
    <2>2. CallOK(e)
      <3>1. CASE u = t
        BY <1>1, <1>6, <1>8, <2>1, <3>1, ListsOn DEF Listing, Public, Existing
      <3>2. CASE u # t
        <4>1. CallOK(calls[u])
          BY AtWork
        <4> QED
          BY <1>9, <2>1, <3>2, <4>1, SameOK
      <3> QED
        BY <3>1, <3>2
    <2>3. CallOK(e)'
      BY <1>10, <2>2, StaysOK
    <2> QED
      BY <2>1, <2>3
  <1>12. RebuildsAlone'
    <2> SUFFICES ASSUME NEW u \in Thread, calls'[u].at = "sync", ~calls'[u].mixed
                 PROVE  /\ tools[calls'[u].inst] \subseteq calls'[u].public \union calls'[u].drop
                        /\ \A w \in Thread \ {u} : ~(calls'[w].inst = calls'[u].inst /\ calls'[w].at = "sync")
      BY <1>10 DEF RebuildsAlone, Syncing
    <2>1. CASE u = t
      <3>1. others = {} /\ calls'[u] = d
        BY <1>3, <1>6, <1>8, <2>1
      <3>2. \A w \in Thread \ {u} : ~(calls'[w].inst = q.inst /\ calls'[w].at = "sync")
        BY <1>2, <1>9, <2>1, <3>1 DEF Syncing
      <3> QED
        BY <1>6, <3>1, <3>2 DEF Gone
    <2>2. CASE u # t
      <3>1. /\ calls[u].at = "sync" /\ ~calls[u].mixed /\ ~Syncing(u, q.inst) /\ calls'[u].inst = calls[u].inst
            /\ calls'[u].public = calls[u].public /\ calls'[u].drop = calls[u].drop
        BY <1>9, <2>2
      <3>2. /\ tools[calls[u].inst] \subseteq calls[u].public \union calls[u].drop
            /\ \A w \in Thread \ {u} : ~Syncing(w, calls[u].inst)
        BY <3>1 DEF SkillsInv, RebuildsAlone
      <3>3. \A w \in Thread \ {u, t} : ~(calls'[w].inst = calls[u].inst /\ calls'[w].at = "sync")
        BY <1>9, <3>2 DEF Syncing
      <3>4. calls[u].inst # q.inst
        BY <3>1 DEF Syncing
      <3> QED
        BY <1>6, <1>8, <3>1, <3>2, <3>3, <3>4
    <2> QED
      BY <2>1, <2>2
  <1>13. ToolsMatchPublic'
    <2> SUFFICES ASSUME NEW i \in Instance, synced[i], \A u \in Thread : ~(Rebuilding(u)' /\ Here(u)' = i)
                 PROVE  tools[i] = Public
      BY <1>10 DEF ToolsMatchPublic
    <2>1. ~(Rebuilding(t) /\ Here(t) = i)
      BY <1>1, <1>6, <1>8 DEF Rebuilding, Here
    <2>2. \A u \in Thread \ {t} : ~(Rebuilding(u) /\ Here(u) = i)
      BY <1>9 DEF Rebuilding, Here
    <2> QED
      BY <2>1, <2>2 DEF SkillsInv, ToolsMatchPublic
  <1>14. CacheRecent' /\ CardsRecent'
    BY <1>10, RestStays
  <1>15. /\ cache' = [i \in Instance |-> [s \in SkillId |-> cache'[i][s]]]
         /\ cards' = [i \in Instance |-> [b \in 0 .. Bucket(MaxTime) |-> cards'[i][b]]]
         /\ tools' = [i \in Instance |-> tools'[i]] /\ synced' = [i \in Instance |-> synced'[i]]
    BY <1>1, <1>10 DEF SkillsTypes
  <1> QED
    BY <1>8, <1>10, <1>11, <1>12, <1>13, <1>14, <1>15, Frame DEF ToolsInv

LEMMA RebuildSkipped ==
  ASSUME SkillsInv, NEW t \in Thread, SkipRebuild(t)
  PROVE  SkillsInv'
  <1>1. PICK q : q = calls[t] /\ CallOK(q) /\ q.at = "public" /\ q.inst \in Instance /\ SkillsTypes
    BY AtWork DEF SkipRebuild
  <1>2. PICK c : c = Rebuilt(q)
    OBVIOUS
  <1>3. CallOK(c) /\ c.at \notin Listing /\ Goes(t, c)
    BY <1>1, <1>2, RebuiltOK DEF SkipRebuild, Listing
  <1>4. /\ \A i \in Instance : synced'[i] = IF i = q.inst THEN FALSE ELSE synced[i]
        /\ synced' = [i \in Instance |-> synced'[i]]
    BY <1>1 DEF SkipRebuild, SkillsTypes, Here
  <1>5. UNCHANGED <<skills, tools>> /\ UNCHANGED <<clock, catalogue, policy, cache, permits, cards, past, rivals>>
    BY DEF SkipRebuild, catalogue, local
  <1>6. ToolsInv'
    BY <1>1, <1>3, <1>4, <1>5, ToolsTouched
  <1>7. tools' = [i \in Instance |-> tools'[i]]
    BY <1>1, <1>5 DEF SkillsTypes
  <1> QED
    BY <1>3, <1>4, <1>5, <1>6, <1>7, FrameTools

LEMMA ToolDropped ==
  ASSUME SkillsInv, NEW t \in Thread, DropTool(t)
  PROVE  SkillsInv'
  <1>1. PICK q : q = calls[t] /\ CallOK(q) /\ Whole(q) /\ q.at = "sync" /\ q.inst \in Instance /\ SkillsTypes
    BY AtWork DEF DropTool
  <1>2. UNCHANGED <<clock, catalogue, policy, cache, permits, cards, past, rivals>> /\ UNCHANGED skills
    BY DEF DropTool, catalogue
  <1>3. PICK s \in q.drop :
           \/ /\ s \in tools[q.inst] /\ tools' = [tools EXCEPT ![q.inst] = @ \ {s}]
              /\ Goes(t, [q EXCEPT !.drop = @ \ {s}]) /\ UNCHANGED synced
           \/ /\ synced' = [synced EXCEPT ![q.inst] = FALSE]
              /\ Goes(t, Raised([q EXCEPT !.public = {}, !.drop = {}, !.mixed = FALSE]))
              /\ UNCHANGED tools
    BY <1>1 DEF DropTool
  <1>4. CASE /\ tools' = [tools EXCEPT ![q.inst] = @ \ {s}]
             /\ Goes(t, [q EXCEPT !.drop = @ \ {s}]) /\ UNCHANGED synced
    <2>1. PICK c : c = [q EXCEPT !.drop = @ \ {s}]
      OBVIOUS
    <2>2. Keeps(c, q, {"public", "drop", "mixed"}) /\ c.at = "sync" /\ c.inst = q.inst /\ c.public = q.public
          /\ c.mixed = q.mixed /\ c.drop = q.drop \ {s}
      BY <1>1, <2>1 DEF Keeps, Whole, Fields
    <2>3. CallOK(c)
      BY <1>1, <2>2, SameOK
    <2>4. /\ \A i \in Instance : tools'[i] = IF i = q.inst THEN tools[i] \ {s} ELSE tools[i]
          /\ tools' = [i \in Instance |-> tools'[i]] /\ synced' = [i \in Instance |-> synced'[i]]
      BY <1>1, <1>4 DEF SkillsTypes
    <2>5. \A u \in Thread : calls'[u] = IF u = t THEN c ELSE calls[u]
      BY <1>1, <1>4, <2>1, OneCall
    <2>6. RebuildsAlone'
      <3> SUFFICES ASSUME NEW u \in Thread, calls'[u].at = "sync", ~calls'[u].mixed
                   PROVE  /\ tools'[calls'[u].inst] \subseteq calls'[u].public \union calls'[u].drop
                          /\ \A w \in Thread \ {u} : ~(calls'[w].inst = calls'[u].inst /\ calls'[w].at = "sync")
        BY DEF RebuildsAlone, Syncing
      <3>1. /\ \A w \in Thread : calls'[w].inst = calls[w].inst /\ calls'[w].at = calls[w].at
            /\ calls[u].at = "sync" /\ ~calls[u].mixed /\ calls'[u].public = calls[u].public
        BY <1>1, <2>2, <2>5
      <3>2. /\ tools[calls[u].inst] \subseteq calls[u].public \union calls[u].drop
            /\ \A w \in Thread \ {u} : ~Syncing(w, calls[u].inst)
        BY <3>1 DEF SkillsInv, RebuildsAlone
      <3>3. calls[u].inst \in Instance
        BY <3>1, AtWork
      <3>4. CASE u = t
        <4>1. tools'[q.inst] = tools[q.inst] \ {s}
          BY <1>1, <2>4
        <4> QED
          BY <1>1, <2>2, <2>5, <3>1, <3>2, <3>4, <4>1 DEF Syncing
      <3>5. CASE u # t
        <4>1. calls[u].inst # q.inst
          BY <1>1, <3>2, <3>5 DEF Syncing
        <4>2. tools'[calls[u].inst] = tools[calls[u].inst]
          BY <2>4, <3>3, <4>1
        <4> QED
          BY <2>5, <3>1, <3>2, <3>5, <4>2 DEF Syncing
      <3> QED
        BY <3>4, <3>5
    <2>7. ToolsMatchPublic'
      <3> SUFFICES ASSUME NEW i \in Instance, synced[i], \A u \in Thread : ~(Rebuilding(u)' /\ Here(u)' = i)
                   PROVE  tools'[i] = Public'
        BY <1>4 DEF ToolsMatchPublic
      <3>1. i # q.inst
        BY <2>2, <2>5 DEF Rebuilding, Here
      <3>2. \A u \in Thread : ~(Rebuilding(u) /\ Here(u) = i)
        BY <1>1, <2>2, <2>5 DEF Rebuilding, Here
      <3>3. Public' = Public
        BY <1>2 DEF Public, Existing
      <3> QED
        BY <2>4, <3>1, <3>2, <3>3 DEF SkillsInv, ToolsMatchPublic
    <2> QED
      BY <1>2, <1>4, <2>1, <2>3, <2>4, <2>6, <2>7, FrameTools DEF ToolsInv
  <1>5. CASE /\ synced' = [synced EXCEPT ![q.inst] = FALSE]
             /\ Goes(t, Raised([q EXCEPT !.public = {}, !.drop = {}, !.mixed = FALSE]))
             /\ UNCHANGED tools
    <2>1. PICK done : done = [q EXCEPT !.public = {}, !.drop = {}, !.mixed = FALSE]
      OBVIOUS
    <2>2. Keeps(done, q, {"public", "drop", "mixed"}) /\ done.at = "sync" /\ done.public = {}
      BY <1>1, <2>1 DEF Keeps, Whole, Fields
    <2>3. CallOK(done) /\ Whole(done)
      BY <1>1, <2>2, SameOK DEF Keeps
    <2>4. PICK c : c = Raised(done)
      OBVIOUS
    <2>5. CallOK(c) /\ c.at \notin Listing /\ Goes(t, c)
      BY <1>1, <1>5, <2>1, <2>2, <2>3, <2>4, RaisedOK, FinishedAt DEF Listing
    <2>6. /\ \A i \in Instance : synced'[i] = IF i = q.inst THEN FALSE ELSE synced[i]
          /\ synced' = [i \in Instance |-> synced'[i]] /\ tools' = [i \in Instance |-> tools'[i]]
      BY <1>1, <1>5 DEF SkillsTypes
    <2>7. ToolsInv'
      BY <1>1, <1>2, <1>5, <2>5, <2>6, ToolsTouched
    <2> QED
      BY <1>2, <2>5, <2>6, <2>7, FrameTools
  <1> QED
    BY <1>3, <1>4, <1>5

LEMMA ToolsAdded ==
  ASSUME SkillsInv, NEW t \in Thread, AddTools(t)
  PROVE  SkillsInv'
  <1>1. PICK q : q = calls[t] /\ CallOK(q) /\ q.at = "sync" /\ q.drop = {} /\ q.inst \in Instance /\ SkillsTypes
    BY AtWork DEF AddTools
  <1>2. PICK c : c = Rebuilt(q)
    OBVIOUS
  <1>3. CallOK(c) /\ c.at \notin Listing /\ Goes(t, c)
    BY <1>1, <1>2, RebuiltOK DEF AddTools, Listing
  <1>4. PICK true \in BOOLEAN : true = (q.public = Public /\ ~q.mixed)
    BY Zenon
  <1>5. synced' = [synced EXCEPT ![q.inst] = true] /\ tools' = [tools EXCEPT ![q.inst] = @ \union q.public]
    BY <1>1, <1>4 DEF AddTools
  <1>6. /\ \A i \in Instance : synced'[i] = IF i = q.inst THEN true ELSE synced[i]
        /\ \A i \in Instance : tools'[i] = IF i = q.inst THEN tools[i] \union q.public ELSE tools[i]
        /\ synced' = [i \in Instance |-> synced'[i]] /\ tools' = [i \in Instance |-> tools'[i]]
    BY <1>1, <1>5 DEF SkillsTypes
  <1>7. UNCHANGED skills /\ UNCHANGED <<clock, catalogue, policy, cache, permits, cards, past, rivals>>
    BY DEF AddTools, catalogue
  <1>8. synced'[q.inst] => tools'[q.inst] = Public
    <2> SUFFICES ASSUME true PROVE tools[q.inst] \union q.public = Public
      BY <1>1, <1>6
    <2>1. q.public = Public /\ ~q.mixed
      BY <1>4
    <2>2. tools[q.inst] \subseteq q.public \union q.drop
      BY <1>1, <2>1 DEF SkillsInv, RebuildsAlone
    <2> QED
      BY <1>1, <2>1, <2>2
  <1>9. ToolsInv'
    BY <1>1, <1>3, <1>6, <1>7, <1>8, ToolsTouched
  <1> QED
    BY <1>3, <1>6, <1>7, <1>9, FrameTools

LEMMA DocumentReread ==
  ASSUME SkillsInv, NEW t \in Thread, Reread(t)
  PROVE  SkillsInv'
  <1>1. PICK q : q = calls[t] /\ CallOK(q) /\ Whole(q) /\ Placed(q) /\ Based(q) /\ Claimed(q) /\ q.at = "reread"
                 /\ q.inst \in Instance /\ q.id \in SkillId /\ SkillsTypes
    BY AtWork DEF Reread, Writing
  <1>2. PICK c : /\ Goes(t, c)
                 /\ \/ c = Finished(q)
                    \/ skills[q.id] # None /\ c = [q EXCEPT !.at = "refill", !.got = skills[q.id]]
    BY <1>1 DEF Reread
  <1>3. CallOK(c) /\ c.at # "sync"
    <2>1. CASE c = Finished(q)
      BY <1>1, <2>1, FinishedOK, FinishedAt DEF Writing
    <2>2. CASE skills[q.id] # None /\ c = [q EXCEPT !.at = "refill", !.got = skills[q.id]]
      <3>1. Keeps(c, q, {"at", "got"}) /\ c.at = "refill" /\ c.got = skills[q.id]
        BY <1>1, <2>2 DEF Keeps, Whole, Fields
      <3>2. /\ Whole(c) /\ c.op = q.op /\ c.inst = q.inst /\ c.ctx = q.ctx /\ c.id = q.id
            /\ c.arg = q.arg /\ c.again = q.again /\ c.found = q.found /\ c.todo = q.todo
            /\ c.rests = q.rests /\ c.since = q.since /\ c.claims = q.claims /\ c.lost = q.lost
        BY <3>1 DEF Keeps, Fields
      <3>3. Placed(c)
        BY <1>1, <3>1, <3>2 DEF Placed, Writing, Listing, Looking, Blank
      <3>4. Saw(c.got) = Value(<<"skill", c.id>>)
        BY <1>1, <3>1, <3>2, TheThings DEF Saw
      <3>5. Based(c)
        BY <1>1, <3>1, <3>2, <3>4, IsNow DEF Based
      <3>6. c.op = "templates" => Ahead(c) = Ahead(q)
        BY <1>1, <3>1, <3>2 DEF Ahead
      <3>7. q.id <= drawn
        BY <1>1, <2>2 DEF SkillsTypes, Existing
      <3>8. Claimed(c)
        BY <1>1, <3>1, <3>2, <3>6, <3>7 DEF Claimed, Looking
      <3> QED
        BY <3>1, <3>2, <3>3, <3>5, <3>8 DEF CallOK
    <2> QED
      BY <1>2, <2>1, <2>2
  <1> QED
    BY <1>1, <1>2, <1>3, Quiet DEF Reread, OnlyCalls, clock, Listing

-----------------------------------------------------------------------------
(* The writes.  A write changes the value of one thing, which is remembered,*)
(* and takes what it claims from whoever claims it as well.                *)

\* What a step may do to the catalogue that takes the claims W.
Rewrites(W) ==
    /\ drawn' \in 0 .. MaxSkills /\ drawn <= drawn' /\ skills' = [s \in SkillId |-> skills'[s]]
    /\ \A s \in Existing' :
          /\ s <= drawn' /\ WholeSkill(skills'[s])
          /\ s <= drawn => s \in Existing /\ skills'[s].owner = skills[s].owner
          /\ \/ s \in Existing /\ skills'[s].slug = skills[s].slug
             \/ SlugClaim(skills'[s].owner, skills'[s].slug) \in W
          /\ \/ s \in Existing /\ skills'[s].name = skills[s].name
             \/ skills'[s].owner = Platform => NameClaim(skills'[s].name) \in W

LEMMA OwnersKept ==
  ASSUME SkillsInv, NEW W, Rewrites(W)
  PROVE  \A n \in SkillId : n <= drawn => (n <= drawn' /\ (n \in Existing' => n \in Existing /\ skills'[n].owner = skills[n].owner))
  <1>1. \A n \in SkillId : n \in Nat
    BY SkillBounds DEF SkillId
  <1>2. drawn \in Nat /\ drawn' \in Nat /\ drawn <= drawn'
    BY TheTime, SkillBounds DEF Rewrites
  <1>3. \A n \in Existing' : n <= drawn => n \in Existing /\ skills'[n].owner = skills[n].owner
    BY DEF Rewrites
  <1> QED
    BY <1>1, <1>2, <1>3

\* What was read, cached or answered was so, whatever changes.
LEMMA BasedLater ==
  ASSUME SkillsInv, NEW y \in Things, Changes(y), NEW q, Placed(q), Based(q)
  PROVE  Placed(q)' /\ Based(q)'
  <1>1. now' = now /\ SkillsTypes /\ now \in Nat
    BY TheTime DEF Changes
  <1>2. Placed(q)'
    BY <1>1 DEF Placed
  <1>3. q.since \in Nat /\ q.since <= now
    BY DEF Placed
  <1>4. ASSUME NEW x \in Things, NEW v, NEW d \in Nat, Was(x, v, q.since, d)
        PROVE  Was(x, v, q.since, d)'
    <2>1. q.since <= now + d
      BY <1>1, <1>3
    <2> QED
      BY <1>1, <1>3, <1>4, <2>1, WasStays
  <1>5. \A b \in q.rests :
          b[1] \in Things /\ Was(b[1], b[2], q.since, IF q.at = "answer" THEN Lag(b[1]) ELSE 0)'
    <2> TAKE b \in q.rests
    <2>1. PICK d : d = IF q.at = "answer" THEN Lag(b[1]) ELSE 0
      OBVIOUS
    <2>2. d \in Nat /\ b[1] \in Things /\ Was(b[1], b[2], q.since, d)
      BY <2>1, SkillBounds DEF Based, Lag
    <2>3. Was(b[1], b[2], q.since, d)'
      BY <1>4, <2>2
    <2> QED
      BY <2>1, <2>2, <2>3
  <1>6. q.at = "got" => Was(<<"skill", q.id>>, Saw(q.got), q.since, TTL + Patience - 1)'
    <2> SUFFICES ASSUME q.at = "got" PROVE Was(<<"skill", q.id>>, Saw(q.got), q.since, TTL + Patience - 1)'
      OBVIOUS
    <2>1. <<"skill", q.id>> \in Things /\ TTL + Patience - 1 \in Nat
      BY TheThings, SkillBounds DEF Placed, Looking
    <2> QED
      BY <1>4, <2>1 DEF Based
  <1>7. q.at \in {"fill", "refill"} \/ (q.at = "invalidate" /\ ~q.again) =>
          Was(<<"skill", q.id>>, Saw(q.got), q.since, 0)'
    <2> SUFFICES ASSUME q.at \in {"fill", "refill"} \/ (q.at = "invalidate" /\ ~q.again)
                 PROVE  Was(<<"skill", q.id>>, Saw(q.got), q.since, 0)'
      OBVIOUS
    <2>1. <<"skill", q.id>> \in Things
      BY TheThings DEF Placed, Looking, Writing, Listing
    <2> QED
      BY <1>4, <2>1 DEF Based
  <1>8. q.at = "keep" => \A b \in q.rests : Was(b[1], b[2], q.arg * TTL, 0)'
    <2> SUFFICES ASSUME q.at = "keep", NEW b \in q.rests PROVE Was(b[1], b[2], q.arg * TTL, 0)'
      OBVIOUS
    <2>1. PICK m : m = q.arg * TTL
      OBVIOUS
    <2>2. q.arg \in Nat /\ m <= now /\ b[1] \in Things /\ Was(b[1], b[2], m, 0)
      BY <2>1 DEF Based
    <2>3. m \in Nat
      BY <2>1, <2>2, SkillBounds
    <2>4. Was(b[1], b[2], m, 0)'
      BY <1>1, <2>2, <2>3, WasStays
    <2> QED
      BY <2>1, <2>4
  <1> QED
    BY <1>1, <1>2, <1>5, <1>6, <1>7, <1>8 DEF Based

LEMMA CachedLater ==
  ASSUME SkillsInv, NEW y \in Things, Changes(y), NEW W, Rewrites(W), UNCHANGED <<cache, permits, cards>>
  PROVE  CacheRecent' /\ PermitsRecent' /\ CardsRecent'
  <1>1. now' = now /\ SkillsTypes /\ now \in Nat
    BY TheTime DEF Changes
  <1>2. CacheRecent'
    <2> SUFFICES ASSUME NEW i \in Instance, NEW s \in SkillId, cache[i][s] # None
                 PROVE  /\ cache[i][s].at \in Nat /\ cache[i][s].at <= now
                        /\ Was(<<"skill", s>>, Saw(cache[i][s].skill), cache[i][s].at, Patience)'
                        /\ cache[i][s].skill # None => s <= drawn' /\ (s \in Existing' => cache[i][s].skill.owner = skills'[s].owner)
      BY <1>1 DEF CacheRecent
    <2>1. PICK e : e = cache[i][s]
      OBVIOUS
    <2>2. /\ e.at \in Nat /\ e.at <= now /\ Was(<<"skill", s>>, Saw(e.skill), e.at, Patience)
          /\ e.skill # None => s <= drawn /\ (s \in Existing => e.skill.owner = skills[s].owner)
      BY <2>1 DEF SkillsInv, CacheRecent
    <2>3. e.at <= now + Patience
      BY <1>1, <2>2, SkillBounds
    <2>4. Was(<<"skill", s>>, Saw(e.skill), e.at, Patience)'
      BY <1>1, <2>2, <2>3, TheThings, SkillBounds, WasStays
    <2>5. e.skill # None => s <= drawn' /\ (s \in Existing' => e.skill.owner = skills'[s].owner)
      BY <2>2, OwnersKept
    <2> QED
      BY <2>1, <2>2, <2>4, <2>5
  <1>3. PermitsRecent'
    <2> SUFFICES ASSUME NEW i \in Instance, permits[i] # None
                 PROVE  /\ permits[i].at \in Nat /\ permits[i].at <= now
                        /\ \A b \in permits[i].rests :
                              b[1] \in Things /\ b[1][1] = "rule" /\ Was(b[1], b[2], permits[i].at, Patience)'
      BY <1>1 DEF PermitsRecent
    <2>1. permits[i].at \in Nat /\ permits[i].at <= now
      BY DEF SkillsInv, PermitsRecent
    <2>2. permits[i].at <= now + Patience
      BY <1>1, <2>1, SkillBounds
    <2>3. ASSUME NEW b \in permits[i].rests
          PROVE  b[1] \in Things /\ b[1][1] = "rule" /\ Was(b[1], b[2], permits[i].at, Patience)'
      <3>1. b[1] \in Things /\ b[1][1] = "rule" /\ Was(b[1], b[2], permits[i].at, Patience)
        BY <2>3 DEF SkillsInv, PermitsRecent
      <3> QED
        BY <1>1, <2>1, <2>2, <3>1, SkillBounds, WasStays
    <2> QED
      BY <2>1, <2>3
  <1>4. CardsRecent'
    <2> SUFFICES ASSUME NEW i \in Instance, NEW k \in 0 .. Bucket(MaxTime), cards[i][k] # None
                 PROVE  /\ k * TTL <= now
                        /\ \A b \in cards[i][k] : b[1] \in Things /\ Was(b[1], b[2], k * TTL, 0)'
      BY <1>1 DEF CardsRecent, Bucket
    <2>1. PICK m : m = k * TTL
      OBVIOUS
    <2>2. m <= now /\ \A b \in cards[i][k] : b[1] \in Things /\ Was(b[1], b[2], m, 0)
      BY <2>1 DEF SkillsInv, CardsRecent
    <2>3. m \in Nat
      <3>1. Bucket(MaxTime) \in Nat
        BY OfBuckets, SkillBounds
      <3>2. k \in Nat
        BY <3>1
      <3> QED
        BY <2>1, <3>2, SkillBounds
    <2>4. \A b \in cards[i][k] : b[1] \in Things /\ Was(b[1], b[2], m, 0)'
      BY <1>1, <2>2, <2>3, WasStays
    <2> QED
      BY <2>1, <2>2, <2>4
  <1> QED
    BY <1>2, <1>3, <1>4

\* What one found free is free still, unless it is among what was taken.
LEMMA FreeLater ==
  ASSUME SkillsInv, NEW W, Rewrites(W)
  PROVE  /\ \A owner, slug, except :
               SlugFree(owner, slug, except) /\ SlugClaim(owner, slug) \notin W => SlugFree(owner, slug, except)'
         /\ \A name : NameFree(name) /\ NameClaim(name) \notin W => NameFree(name)'
  <1>1. /\ drawn \in 0 .. MaxSkills /\ drawn' \in 0 .. MaxSkills
        /\ \A s \in Existing : s <= drawn
    BY TheTime DEF Rewrites, SkillsTypes
  <1>2. \A s \in Existing' : s \in Existing => skills'[s].owner = skills[s].owner
    BY <1>1 DEF Rewrites
  <1>3. ASSUME NEW owner, NEW slug, NEW except, SlugFree(owner, slug, except), SlugClaim(owner, slug) \notin W
        PROVE  SlugFree(owner, slug, except)'
    <2> SUFFICES ASSUME NEW r \in Existing', r # except, skills'[r].owner = owner PROVE skills'[r].slug # slug
      BY DEF SlugFree
    <2>1. CASE r \in Existing /\ skills'[r].slug = skills[r].slug
      BY <1>2, <1>3, <2>1 DEF SlugFree
    <2>2. CASE SlugClaim(skills'[r].owner, skills'[r].slug) \in W
      BY <1>3, <2>2
    <2> QED
      BY <2>1, <2>2 DEF Rewrites
  <1>4. ASSUME NEW name, NameFree(name), NameClaim(name) \notin W
        PROVE  NameFree(name)'
    <2> SUFFICES ASSUME NEW r \in Existing', skills'[r].owner = Platform PROVE skills'[r].name # name
      BY DEF NameFree
    <2>1. CASE r \in Existing /\ skills'[r].name = skills[r].name
      BY <1>2, <1>4, <2>1 DEF NameFree
    <2>2. CASE NameClaim(skills'[r].name) \in W
      BY <1>4, <2>2
    <2> QED
      BY <2>1, <2>2 DEF Rewrites
  <1> QED
    BY <1>3, <1>4

LEMMA ClaimedLater ==
  ASSUME SkillsInv, NEW W, Rewrites(W), NEW q, Claimed(q), NEW c, Keeps(c, q, {"lost"}),
         c.lost = q.lost \union (W \intersect q.claims)
  PROVE  Claimed(c)'
  <1>1. /\ Whole(c) /\ c.op = q.op /\ c.at = q.at /\ c.inst = q.inst /\ c.ctx = q.ctx /\ c.id = q.id
        /\ c.got = q.got /\ c.arg = q.arg /\ c.again = q.again /\ c.found = q.found /\ c.todo = q.todo
        /\ c.rests = q.rests /\ c.since = q.since /\ c.claims = q.claims
    BY DEF Keeps, Fields
  <1>2. \A claim \in c.claims : claim \notin c.lost => claim \notin q.lost /\ claim \notin W
    BY <1>1
  <1>3. \A n \in SkillId : n <= drawn => (n <= drawn' /\ (n \in Existing' => n \in Existing /\ skills'[n].owner = skills[n].owner))
    BY OwnersKept
  <1>5. \A owner, slug, except : HoldsSlug(q, owner, slug, except) => HoldsSlug(c, owner, slug, except)'
    BY <1>1, <1>2, FreeLater DEF HoldsSlug
  <1>6. c.got # None => c.id \in SkillId /\ c.id <= drawn' /\ (c.id \in Existing' => c.got.owner = skills'[c.id].owner)
    BY <1>1, <1>3 DEF Claimed
  <1>7. c.op = "put" /\ c.again /\ c.at \in Looking /\ c.arg.slug # None =>
          c.id \in SkillId /\ c.id <= drawn' /\ (c.id \in Existing' => HoldsSlug(c, skills[c.id].owner, c.arg.slug, c.id)')
    BY <1>1, <1>3, <1>5 DEF Claimed
  <1>8. c.op = "templates" => \A k \in Ahead(c) : c.todo[k].name \notin DOMAIN c.found =>
                /\ NameClaim(c.todo[k].name) \in c.claims
                /\ NameClaim(c.todo[k].name) \notin c.lost => NameFree(c.todo[k].name)'
    BY <1>1, <1>2, FreeLater DEF Claimed, Ahead
  <1> QED
    BY <1>1, <1>5, <1>6, <1>7, <1>8 DEF Claimed, Ahead

\* A write of the catalogue: it takes the claims W, and its instance is to be rebuilt.
Writes(t, c, W) ==
    /\ calls'[t] = c /\ calls' = [u \in Thread |-> calls'[u]]
    /\ \A u \in Thread \ {t} : /\ Keeps(calls'[u], calls[u], {"lost"})
                               /\ calls'[u].lost = calls[u].lost \union (W \intersect calls[u].claims)

LEMMA Written ==
  ASSUME SkillsInv, NEW t \in Thread, NEW c, NEW W, NEW s \in SkillId, Writes(t, c, W), Rewrites(W),
         Changes(<<"skill", s>>), CallOK(c)', c.at = "invalidate", c.inst \in Instance, calls[t].at \notin Listing,
         Changed(c.inst), UNCHANGED <<rules, cache, permits, cards, tools>>, SlugsUnique'
  PROVE  SkillsInv'
  <1>1. SkillsTypes /\ now' = now /\ now \in Nat /\ <<"skill", s>> \in Things
    BY TheTime, TheThings DEF Changes
  <1>2. \A u \in Thread : CallOK(calls[u])'
    <2> TAKE u \in Thread
    <2>1. CASE u = t
      BY <2>1 DEF Writes
    <2>2. CASE u # t
      <3>1. PICK q, e : q = calls[u] /\ e = calls'[u]
        OBVIOUS
      <3>2. CallOK(q) /\ Placed(q) /\ Based(q) /\ Claimed(q)
        BY <3>1, AtWork
      <3>3. Keeps(e, q, {"lost"}) /\ e.lost = q.lost \union (W \intersect q.claims)
        BY <2>2, <3>1 DEF Writes
      <3>4. /\ Whole(e) /\ e.op = q.op /\ e.at = q.at /\ e.inst = q.inst /\ e.ctx = q.ctx /\ e.id = q.id
            /\ e.got = q.got /\ e.arg = q.arg /\ e.again = q.again /\ e.found = q.found /\ e.todo = q.todo
            /\ e.rests = q.rests /\ e.since = q.since /\ e.public = q.public
        BY <3>3 DEF Keeps, Fields
      <3>5. Placed(e) /\ Based(e)
        BY <3>2, <3>4 DEF Placed, Based
      <3>6. Placed(e)' /\ Based(e)'
        BY <1>1, <3>5, BasedLater
      <3>7. Claimed(e)'
        BY <3>2, <3>3, ClaimedLater
      <3>8. CallOK(e)'
        BY <3>4, <3>6, <3>7 DEF CallOK, Whole
      <3> QED
        BY <3>1, <3>8
    <2> QED
      BY <2>1, <2>2
  <1>3. CacheRecent' /\ PermitsRecent' /\ CardsRecent'
    BY <1>1, CachedLater
  <1>4. /\ synced' = [i \in Instance |-> synced'[i]]
        /\ \A i \in Instance : synced'[i] => synced[i] /\ (i = c.inst \/ Public' = Public)
    <2>1. ASSUME NEW i \in Instance PROVE synced'[i] => synced[i] /\ (i = c.inst \/ Public' = Public)
      <3>1. PICK b \in BOOLEAN : b = (synced[i] /\ (i = c.inst \/ Public' = Public))
        BY Zenon
      <3>2. synced'[i] = b
        BY <3>1 DEF Changed
      <3> QED
        BY <3>1, <3>2
    <2>2. synced' = [i \in Instance |-> synced'[i]]
      BY DEF Changed
    <2> QED
      BY <2>1, <2>2
  <1>5. SkillsTypes'
    <2>1. past' = [x \in Things |-> past'[x]] /\ \A x \in Things : \A h \in past'[x] : h[2] \in Nat
      <3>1. past' = [past EXCEPT ![<<"skill", s>>] =
                        {h \in past[<<"skill", s>>] : h[1] # Value(<<"skill", s>>)} \union {<<Value(<<"skill", s>>), now>>}]
        BY DEF Changes, Remembers
      <3>2. ASSUME NEW x \in Things, NEW h \in past'[x] PROVE h[2] \in Nat
        <4>1. h \in past[x] \/ h = <<Value(<<"skill", s>>), now>>
          BY <1>1, <3>1, <3>2 DEF SkillsTypes
        <4> QED
          BY <1>1, <4>1 DEF SkillsTypes
      <3>3. past' = [x \in Things |-> past'[x]]
        BY <1>1, <3>1 DEF SkillsTypes
      <3> QED
        BY <3>2, <3>3
    <2>2. now' \in 0 .. MaxTime /\ drawn' \in 0 .. MaxSkills
      BY <1>1 DEF Rewrites, SkillsTypes
    <2>3. skills' = [r \in SkillId |-> skills'[r]] /\ \A r \in Existing' : r <= drawn' /\ WholeSkill(skills'[r])
      BY DEF Rewrites
    <2>4. /\ rules' = [level \in Levels |-> rules'[level]]
          /\ cache' = [i \in Instance |-> [r \in SkillId |-> cache'[i][r]]]
          /\ permits' = [i \in Instance |-> permits'[i]]
          /\ cards' = [i \in Instance |-> [b \in 0 .. Bucket(MaxTime) |-> cards'[i][b]]]
          /\ tools' = [i \in Instance |-> tools'[i]]
      BY <1>1 DEF SkillsTypes
    <2>5. calls' = [u \in Thread |-> calls'[u]]
      BY DEF Writes
    <2> QED
      BY <1>4, <2>1, <2>2, <2>3, <2>4, <2>5 DEF SkillsTypes, Bucket, WholeSkill
  <1>6. \A u \in Thread \ {t} : /\ calls'[u].at = calls[u].at /\ calls'[u].inst = calls[u].inst
                                /\ calls'[u].public = calls[u].public /\ calls'[u].drop = calls[u].drop
                                /\ calls'[u].mixed = calls[u].mixed
    BY DEF Writes, Keeps, Fields
  <1>7. RebuildsAlone'
    <2> SUFFICES ASSUME NEW u \in Thread, calls'[u].at = "sync", ~calls'[u].mixed
                 PROVE  /\ tools[calls'[u].inst] \subseteq calls'[u].public \union calls'[u].drop
                        /\ \A w \in Thread \ {u} : ~(calls'[w].inst = calls'[u].inst /\ calls'[w].at = "sync")
      BY DEF RebuildsAlone, Syncing
    <2>1. u # t
      BY DEF Writes
    <2>2. calls[u].at = "sync" /\ ~calls[u].mixed
      BY <1>6, <2>1
    <2>3. /\ tools[calls[u].inst] \subseteq calls[u].public \union calls[u].drop
          /\ \A w \in Thread \ {u} : ~Syncing(w, calls[u].inst)
      BY <2>2 DEF SkillsInv, RebuildsAlone
    <2>4. calls'[t].at # "sync"
      BY DEF Writes
    <2> QED
      BY <1>6, <2>1, <2>3, <2>4 DEF Syncing
  <1>8. ToolsMatchPublic'
    <2> SUFFICES ASSUME NEW i \in Instance, synced'[i], \A u \in Thread : ~(Rebuilding(u)' /\ Here(u)' = i)
                 PROVE  tools[i] = Public'
      BY DEF ToolsMatchPublic
    <2>1. i # c.inst
      BY DEF Writes, Rebuilding, Here
    <2>2. synced[i] /\ Public' = Public
      BY <1>4, <2>1
    <2>3. \A u \in Thread : ~(Rebuilding(u) /\ Here(u) = i)
      BY <1>6 DEF Rebuilding, Here, Listing
    <2> QED
      BY <2>2, <2>3 DEF SkillsInv, ToolsMatchPublic
  <1> QED
    BY <1>2, <1>3, <1>5, <1>7, <1>8 DEF SkillsInv

\* Of one skill only is the value another.
LEMMA OnlySkill ==
  ASSUME SkillsTypes, NEW s \in SkillId, NEW skill, skills' = [skills EXCEPT ![s] = skill],
         Remembers(<<"skill", s>>), UNCHANGED <<now, rules, client>>
  PROVE  /\ Changes(<<"skill", s>>) /\ skills' = [r \in SkillId |-> skills'[r]]
         /\ \A r \in SkillId : skills'[r] = IF r = s THEN skill ELSE skills[r]
  <1>1. skills' = [r \in SkillId |-> skills'[r]] /\ \A r \in SkillId : skills'[r] = IF r = s THEN skill ELSE skills[r]
    BY DEF SkillsTypes
  <1>2. ASSUME NEW y \in Things, y # <<"skill", s>>
        PROVE  Value(y)' = Value(y)
    <2>1. CASE y \in {"skill"} \X SkillId
      <3>1. y[1] = "skill" /\ y[2] \in SkillId /\ y[2] # s
        BY <1>2, <2>1
      <3> QED
        BY <1>1, <3>1 DEF Value
    <2>2. CASE y \in {"rule"} \X Levels
      <3>1. y[1] = "rule"
        BY <2>2
      <3> QED
        BY <3>1 DEF Value
    <2>3. CASE y = <<"client", 0>>
      BY <2>3 DEF Value
    <2> QED
      BY <2>1, <2>2, <2>3 DEF Things
  <1> QED
    BY <1>1, <1>2 DEF Changes

\* What Takes says of the calls.
LEMMA TakesWrites ==
  ASSUME SkillsInv, NEW t \in Thread, NEW c, NEW W, Takes(t, c, W)
  PROVE  Writes(t, c, W) /\ rivals' = rivals \union (W \intersect calls[t].lost)
  <1>1. calls' = [u \in Thread |-> IF u = t THEN c
                     ELSE [calls[u] EXCEPT !.lost = @ \union (W \intersect calls[u].claims)]]
    BY DEF Takes
  <1>2. \A u \in Thread : Whole(calls[u])
    BY AtWork
  <1>3. ASSUME NEW u \in Thread \ {t}
        PROVE  /\ Keeps(calls'[u], calls[u], {"lost"})
               /\ calls'[u].lost = calls[u].lost \union (W \intersect calls[u].claims)
    <2>1. PICK q, e : q = calls[u] /\ e = calls'[u]
      OBVIOUS
    <2>2. e = [q EXCEPT !.lost = q.lost \union (W \intersect q.claims)] /\ Whole(q)
      BY <1>1, <1>2, <2>1
    <2>3. Keeps(e, q, {"lost"}) /\ e.lost = q.lost \union (W \intersect q.claims)
      BY <2>2 DEF Keeps, Whole, Fields
    <2> QED
      BY <2>1, <2>3
  <1>4. calls'[t] = c /\ calls' = [u \in Thread |-> calls'[u]]
    BY <1>1
  <1> QED
    BY <1>3, <1>4 DEF Writes, Takes

\* A call that goes on alone takes nothing.
LEMMA GoesWrites ==
  ASSUME SkillsInv, NEW t \in Thread, NEW c, Goes(t, c)
  PROVE  Writes(t, c, {})
  <1>1. \A u \in Thread : calls'[u] = IF u = t THEN c ELSE calls[u]
    BY TheTime, OneCall
  <1>2. calls' = [u \in Thread |-> calls'[u]]
    BY TheTime, OneCall
  <1>3. \A u \in Thread : Whole(calls[u])
    BY AtWork
  <1> QED
    BY <1>1, <1>2, <1>3 DEF Writes, Keeps

LEMMA SlugLookedUp ==
  ASSUME SkillsInv, NEW t \in Thread, FindSlug(t)
  PROVE  SkillsInv'
  <1>1. PICK q : q = calls[t] /\ CallOK(q) /\ Whole(q) /\ Placed(q) /\ Based(q) /\ Claimed(q) /\ q.at = "slug"
                 /\ SkillsTypes
    BY AtWork DEF FindSlug
  <1>2. PICK arg : arg = q.arg
    OBVIOUS
  <1>3. PICK b, n : n \in Nat \ {0} /\ arg.slug = <<b, n>>
    BY <1>1, <1>2 DEF Claimed
  <1>4. PICK claim : claim = SlugClaim(arg.owner, arg.slug)
    OBVIOUS
  <1>5. PICK c : /\ Goes(t, c)
                 /\ \/ c = [q EXCEPT !.arg.slug[2] = @ + 1]
                    \/ /\ ~Taken(arg.owner, arg.slug, 0)
                       /\ c = [q EXCEPT !.at = "create", !.claims = @ \union {claim}, !.lost = @ \ {claim}]
    BY <1>1, <1>2, <1>4 DEF FindSlug
  <1>6. WholeSkill(arg)
    BY <1>1, <1>2 DEF Claimed
  <1>7. CASE c = [q EXCEPT !.arg.slug[2] = @ + 1]
    <2>1. PICK slug : slug = [<<b, n>> EXCEPT ![2] = n + 1]
      OBVIOUS
    <2>2. slug = <<b, n + 1>> /\ n + 1 \in Nat \ {0}
      BY <1>3, <2>1
    <2>3. PICK new : new = [arg EXCEPT !.slug = slug]
      OBVIOUS
    <2>4. c = [q EXCEPT !.arg = new]
      BY <1>2, <1>3, <1>7, <2>1, <2>3
    <2>5. WholeSkill(new) /\ new.owner = arg.owner /\ new.name = arg.name /\ new.slug = slug
      BY <1>6, <2>3 DEF WholeSkill
    <2>6. /\ Keeps(c, q, {"arg"}) /\ c.arg = new
      BY <1>1, <2>4 DEF Keeps, Whole, Fields
    <2>7. /\ Whole(c) /\ c.op = q.op /\ c.at = q.at /\ c.inst = q.inst /\ c.ctx = q.ctx /\ c.id = q.id
          /\ c.got = q.got /\ c.again = q.again /\ c.found = q.found /\ c.todo = q.todo
          /\ c.rests = q.rests /\ c.since = q.since /\ c.claims = q.claims /\ c.lost = q.lost
      BY <2>6 DEF Keeps, Fields
    <2>8. Placed(c) /\ Based(c)
      BY <1>1, <2>7 DEF Placed, Based
    <2>9. Claimed(c)
      BY <1>1, <1>2, <2>2, <2>5, <2>6, <2>7 DEF Claimed, Ahead, Looking
    <2> QED
      BY <1>1, <1>5, <2>7, <2>8, <2>9, Quiet DEF FindSlug, OnlyCalls, clock, Listing, CallOK
  <1>8. CASE /\ ~Taken(arg.owner, arg.slug, 0)
             /\ c = [q EXCEPT !.at = "create", !.claims = @ \union {claim}, !.lost = @ \ {claim}]
    <2>1. /\ Keeps(c, q, {"at", "claims", "lost"}) /\ c.at = "create" /\ c.claims = q.claims \union {claim}
          /\ c.lost = q.lost \ {claim}
      BY <1>1, <1>8 DEF Keeps, Whole, Fields
    <2>2. /\ Whole(c) /\ c.op = q.op /\ c.inst = q.inst /\ c.ctx = q.ctx /\ c.id = q.id
          /\ c.got = q.got /\ c.arg = arg /\ c.again = q.again /\ c.found = q.found /\ c.todo = q.todo
          /\ c.rests = q.rests /\ c.since = q.since
      BY <1>2, <2>1 DEF Keeps, Fields
    <2>3. Placed(c)
      BY <1>1, <2>1, <2>2 DEF Placed, Looking, Writing, Listing, Blank
    <2>4. Based(c)
      BY <1>1, <2>1, <2>2 DEF Based
    <2>5. SlugFree(arg.owner, arg.slug, 0)
      BY <1>8 DEF Taken, OwnedBy, SlugFree
    <2>6. HoldsSlug(c, c.arg.owner, c.arg.slug, 0)
      BY <1>4, <2>1, <2>2, <2>5 DEF HoldsSlug
    <2>7. \A name : NameClaim(name) # claim
      <3> SUFFICES ASSUME NEW name, NameClaim(name) = claim PROVE FALSE
        OBVIOUS
      <3>1. <<name, 0>> = <<b, n>>
        BY <1>3, <1>4 DEF NameClaim, SlugClaim
      <3> QED
        BY <1>3, <3>1
    <2>8. Ahead(c) = Ahead(q)
      BY <1>1, <2>1, <2>2 DEF Ahead
    <2>9. \A k : NameClaim(q.todo[k].name) \in q.claims => NameClaim(q.todo[k].name) \in c.claims
      BY <2>1
    <2>10. \A k : NameClaim(q.todo[k].name) \notin c.lost => NameClaim(q.todo[k].name) \notin q.lost
      BY <2>1, <2>7
    <2>11. Claimed(c)
      BY <1>1, <1>2, <1>6, <2>1, <2>2, <2>6, <2>8, <2>9, <2>10 DEF Claimed, Looking
    <2> QED
      BY <1>1, <1>5, <2>1, <2>2, <2>3, <2>4, <2>11, Quiet DEF FindSlug, OnlyCalls, clock, Listing, CallOK
  <1> QED
    BY <1>5, <1>7, <1>8

LEMMA Created ==
  ASSUME SkillsInv, NEW t \in Thread, Create(t)
  PROVE  SkillsInv'
  <1>1. PICK q : q = calls[t] /\ CallOK(q) /\ Whole(q) /\ Placed(q) /\ Based(q) /\ Claimed(q) /\ q.at = "create"
                 /\ q.inst \in Instance /\ SkillsTypes
    BY AtWork DEF Create
  <1>2. PICK s, arg : s = drawn + 1 /\ arg = q.arg
    OBVIOUS
  <1>3. PICK W : W = {SlugClaim(arg.owner, arg.slug)} \union (IF arg.owner = Platform THEN {NameClaim(arg.name)} ELSE {})
    OBVIOUS
  <1>4. PICK c : c = [q EXCEPT !.at = "invalidate", !.id = s, !.got = arg]
    OBVIOUS
  <1>5. /\ s \in SkillId /\ skills' = [skills EXCEPT ![s] = arg] /\ drawn' = s /\ Takes(t, c, W)
        /\ Remembers(<<"skill", s>>) /\ Changed(q.inst) /\ UNCHANGED <<clock, policy, local>>
    BY <1>1, <1>2, <1>3, <1>4 DEF Create
  <1>6. /\ Keeps(c, q, {"at", "id", "got"}) /\ c.at = "invalidate" /\ c.id = s /\ c.got = arg
    BY <1>1, <1>4 DEF Keeps, Whole, Fields
  <1>7. /\ Whole(c) /\ c.op = q.op /\ c.inst = q.inst /\ c.ctx = q.ctx /\ c.arg = arg
        /\ c.again = q.again /\ c.found = q.found /\ c.todo = q.todo
        /\ c.rests = q.rests /\ c.since = q.since /\ c.claims = q.claims /\ c.lost = q.lost
    BY <1>2, <1>6 DEF Keeps, Fields
  <1>8. UNCHANGED <<now, rules, client, cache, permits, cards, tools>>
    BY <1>5 DEF clock, policy, local
  <1>9. /\ Changes(<<"skill", s>>) /\ skills' = [r \in SkillId |-> skills'[r]]
        /\ \A r \in SkillId : skills'[r] = IF r = s THEN arg ELSE skills[r]
    BY <1>1, <1>5, <1>8, OnlySkill
  <1>10. Writes(t, c, W) /\ rivals' = rivals \union (W \intersect q.lost)
    BY <1>1, <1>5, TakesWrites
  <1>11. WholeSkill(arg) /\ \A r \in Existing' : r = s \/ (r \in Existing /\ skills'[r] = skills[r])
    BY <1>1, <1>2, <1>9 DEF Claimed, Existing
  <1>12. \A r \in Existing : r <= drawn /\ WholeSkill(skills[r]) /\ r \in SkillId
    BY <1>1 DEF SkillsTypes, Existing
  <1>13. s \in 1 .. MaxSkills /\ drawn \in Nat /\ drawn < s /\ drawn' = s /\ \A r \in SkillId : r \in Nat
    BY <1>2, <1>5, TheTime, SkillBounds DEF SkillId
  <1>14. skills'[s] = arg
    BY <1>5, <1>9
  <1>15. Rewrites(W)
    <2>1. drawn' \in 0 .. MaxSkills /\ drawn <= drawn'
      BY <1>5, <1>13, SkillBounds
    <2>2. ASSUME NEW r \in Existing'
          PROVE  /\ r <= drawn' /\ WholeSkill(skills'[r])
                 /\ (r <= drawn => r \in Existing /\ skills'[r].owner = skills[r].owner)
                 /\ \/ r \in Existing /\ skills'[r].slug = skills[r].slug
                    \/ SlugClaim(skills'[r].owner, skills'[r].slug) \in W
                 /\ \/ r \in Existing /\ skills'[r].name = skills[r].name
                    \/ (skills'[r].owner = Platform => NameClaim(skills'[r].name) \in W)
      <3>1. CASE r = s
        <4>1. ~(r <= drawn) /\ r <= drawn'
          BY <1>5, <1>13, <3>1
        <4> QED
          BY <1>3, <1>11, <1>14, <3>1, <4>1
      <3>2. CASE r \in Existing /\ skills'[r] = skills[r]
        <4>1. r <= drawn'
          BY <1>12, <1>13, <3>2
        <4> QED
          BY <1>12, <3>2, <4>1
      <3> QED
        BY <1>11, <2>2, <3>1, <3>2
    <2> QED
      BY <1>9, <2>1, <2>2 DEF Rewrites
  <1>16. CallOK(c)'
    <2>1. Placed(c)'
      BY <1>1, <1>5, <1>6, <1>7, <1>8 DEF Placed, Looking, Writing, Listing, Blank
    <2>2. Based(c)'
      <3>1. Placed(q)' /\ Based(q)'
        BY <1>1, <1>5, <1>9, TheThings, BasedLater
      <3>2. Value(<<"skill", s>>)' = Saw(arg)
        BY <1>14 DEF Value, Saw
      <3>3. Was(<<"skill", c.id>>, Saw(c.got), c.since, 0)'
        BY <1>6, <3>2 DEF Was
      <3> QED
        BY <1>1, <1>6, <1>7, <3>1, <3>3 DEF Based
    <2>3. Claimed(c)'
      <3>1. c.got # None => c.id \in SkillId /\ c.id <= drawn' /\ (c.id \in Existing' => c.got.owner = skills'[c.id].owner)
        BY <1>5, <1>6, <1>13, <1>14
      <3>2. c.op = "templates" =>
               \A k \in Ahead(c) : c.todo[k].name \notin DOMAIN c.found =>
                  /\ NameClaim(c.todo[k].name) \in c.claims
                  /\ NameClaim(c.todo[k].name) \notin c.lost => NameFree(c.todo[k].name)'
        <4> SUFFICES ASSUME c.op = "templates", NEW k \in Ahead(c), c.todo[k].name \notin DOMAIN c.found
                     PROVE  /\ NameClaim(c.todo[k].name) \in c.claims
                            /\ NameClaim(c.todo[k].name) \notin c.lost => NameFree(c.todo[k].name)'
          OBVIOUS
        <4>1. k \in DOMAIN q.todo /\ k # 1 /\ k \in Ahead(q) /\ q.todo # <<>> /\ q.todo \in Seq(Template)
          BY <1>1, <1>6, <1>7 DEF Ahead, Placed, Loops
        <4>2. 1 \in DOMAIN q.todo /\ Head(q.todo) = q.todo[1]
          BY <4>1, TailOf
        <4>3. arg.name = q.todo[1].name /\ q.todo[k].name # arg.name
          BY <1>1, <1>2, <1>7, <4>1, <4>2 DEF Claimed
        <4>4. NameClaim(q.todo[k].name) \notin W
          <5>1. NameClaim(q.todo[k].name) # NameClaim(arg.name)
            BY <4>3 DEF NameClaim
          <5>2. NameClaim(q.todo[k].name) # SlugClaim(arg.owner, arg.slug)
            <6> SUFFICES ASSUME NameClaim(q.todo[k].name) = SlugClaim(arg.owner, arg.slug) PROVE FALSE
              OBVIOUS
            <6>1. PICK b, n : n \in Nat \ {0} /\ arg.slug = <<b, n>>
              BY <1>1, <1>2, <1>7 DEF Claimed
            <6>2. <<q.todo[k].name, 0>> = <<b, n>>
              BY <6>1 DEF NameClaim, SlugClaim
            <6> QED
              BY <6>1, <6>2
          <5> QED
            BY <1>3, <5>1, <5>2
        <4>5. /\ NameClaim(q.todo[k].name) \in q.claims
              /\ NameClaim(q.todo[k].name) \notin q.lost => NameFree(q.todo[k].name)
          BY <1>1, <1>7, <4>1 DEF Claimed
        <4> QED
          BY <1>7, <1>15, <4>4, <4>5, FreeLater
      <3>3. c.op = "templates" => \A j, k \in DOMAIN c.todo : c.todo[j].name = c.todo[k].name => j = k
        BY <1>1, <1>7 DEF Claimed
      <3>4. c.op = "fork" => c.ctx.uid # Platform
        BY <1>1, <1>7 DEF Claimed
      <3> QED
        BY <1>6, <3>1, <3>2, <3>3, <3>4 DEF Claimed, Looking
    <2> QED
      BY <1>7, <2>1, <2>2, <2>3 DEF CallOK, Whole
  <1>17. SlugsUnique'
    <2>1. arg.slug # None => (SlugClaim(arg.owner, arg.slug) \in q.lost \/ SlugFree(arg.owner, arg.slug, 0))
      BY <1>1, <1>2 DEF Claimed, HoldsSlug
    <2>2. arg.owner = Platform => NameClaim(arg.name) \in q.lost \/ NameFree(arg.name)
      <3> SUFFICES ASSUME arg.owner = Platform PROVE NameClaim(arg.name) \in q.lost \/ NameFree(arg.name)
        OBVIOUS
      <3>1. q.op = "templates" /\ arg.name = Head(q.todo).name /\ arg.name \notin DOMAIN q.found
        BY <1>1, <1>2 DEF Claimed
      <3>2. q.todo # <<>> /\ q.todo \in Seq(Template)
        BY <1>1, <3>1 DEF Placed, Loops
      <3>3. 1 \in DOMAIN q.todo /\ Head(q.todo) = q.todo[1]
        BY <3>2, TailOf
      <3>4. 1 \in Ahead(q)
        BY <1>1, <3>3 DEF Ahead
      <3> QED
        BY <1>1, <3>1, <3>3, <3>4 DEF Claimed
    <2>3. \A r \in Existing' \ {s} : r # 0 /\ r \in Existing /\ skills'[r] = skills[r]
      BY <1>11, <1>12, SkillBounds DEF SkillId
    <2>4. ASSUME NEW r \in Existing' \ {s}, skills'[r].owner = arg.owner
          PROVE  /\ skills'[r].slug = arg.slug /\ arg.slug # None => SlugClaim(arg.owner, arg.slug) \in rivals'
                 /\ arg.owner = Platform /\ skills'[r].name = arg.name => NameClaim(arg.name) \in rivals'
      <3>1. r # 0 /\ r \in Existing /\ skills'[r] = skills[r]
        BY <2>3, <2>4
      <3>2. ASSUME skills[r].slug = arg.slug, arg.slug # None
            PROVE  SlugClaim(arg.owner, arg.slug) \in rivals'
        <4>1. ~SlugFree(arg.owner, arg.slug, 0)
          BY <2>4, <3>1, <3>2 DEF SlugFree
        <4> QED
          BY <1>3, <1>10, <2>1, <3>2, <4>1
      <3>3. ASSUME arg.owner = Platform, skills[r].name = arg.name
            PROVE  NameClaim(arg.name) \in rivals'
        <4>1. ~NameFree(arg.name)
          BY <2>4, <3>1, <3>3 DEF NameFree
        <4> QED
          BY <1>3, <1>10, <2>2, <3>3, <4>1
      <3> QED
        BY <3>1, <3>2, <3>3
    <2>5. ASSUME NEW r \in Existing', NEW p \in Existing', r # p, skills'[r].owner = skills'[p].owner
          PROVE  /\ skills'[r].slug = skills'[p].slug /\ skills'[r].slug # None =>
                       SlugClaim(skills'[r].owner, skills'[r].slug) \in rivals'
                 /\ skills'[r].owner = Platform /\ skills'[r].name = skills'[p].name =>
                       NameClaim(skills'[r].name) \in rivals'
      <3>1. CASE r = s
        BY <1>14, <2>4, <2>5, <3>1
      <3>2. CASE p = s
        BY <1>14, <2>4, <2>5, <3>2
      <3>3. CASE r # s /\ p # s
        <4>1. r \in Existing /\ skills'[r] = skills[r] /\ p \in Existing /\ skills'[p] = skills[p]
          BY <2>3, <2>5, <3>3
        <4> QED
          BY <1>10, <2>5, <4>1 DEF SkillsInv, SlugsUnique
      <3> QED
        BY <3>1, <3>2, <3>3
    <2> QED
      BY <2>5 DEF SlugsUnique
  <1> QED
    BY <1>1, <1>5, <1>6, <1>7, <1>8, <1>9, <1>10, <1>15, <1>16, <1>17, Written DEF Listing

\* A look-up that ends: the loop goes on, or the request is answered or gone.
LEMMA EndsOK ==
  ASSUME SkillsInv, NEW t \in Thread, NEW q, q = calls[t], q.at \in Looking, NEW c, Goes(t, c),
         c = Finished(q) \/ c = Raised(q), UNCHANGED <<now, catalogue, policy, local, history>>
  PROVE  SkillsInv'
  <1>1. CallOK(q) /\ Whole(q) /\ SkillsTypes
    BY AtWork
  <1>2. CallOK(c)
    BY <1>1, FinishedOK, RaisedOK DEF Looking
  <1>3. c.at # "sync"
    BY <1>1, FinishedAt
  <1> QED
    BY <1>2, <1>3, Quiet DEF Looking, Listing

\* What was looked up is written and the tools are to be rebuilt.
LEMMA PlacedList ==
  ASSUME NEW q, Placed(q), q.at = "got", NEW c, c.at = "invalidate",
         c.op = q.op, c.inst = q.inst, c.since = q.since, c.id = q.id, c.todo = q.todo, c.found = q.found
  PROVE  Placed(c)
  BY DEF Placed, Looking, Writing, Listing, Blank

LEMMA Updated ==
  ASSUME SkillsInv, NEW t \in Thread, Update(t)
  PROVE  SkillsInv'
  <1>1. PICK q : q = calls[t] /\ CallOK(q) /\ Whole(q) /\ Placed(q) /\ Based(q) /\ Claimed(q) /\ q.at = "got"
                 /\ q.again /\ q.op \in {"put", "templates"}
                 /\ q.inst \in Instance /\ q.id \in SkillId /\ SkillsTypes
    BY AtWork DEF Update, Looking
  <1>2. PICK s, arg : s = q.id /\ arg = q.arg
    OBVIOUS
  <1>3. PICK W : W = IF arg.slug = None THEN {} ELSE {SlugClaim(q.got.owner, arg.slug)}
    OBVIOUS
  <1>4. PICK c : c = [q EXCEPT !.at = "invalidate"]
    OBVIOUS
  <1>5. UNCHANGED <<clock, drawn, policy, local>>
    BY DEF Update
  <1>6. CASE \/ Goes(t, Finished(q)) /\ UNCHANGED <<skills, history>>
             \/ Goes(t, Raised(q)) /\ UNCHANGED <<skills, history>>
    BY <1>1, <1>5, <1>6, EndsOK DEF Looking, clock, catalogue
  <1>7. CASE /\ q.got # None /\ skills[s] # None
             /\ skills' = [skills EXCEPT ![s] = Edited(@, arg)]
             /\ Takes(t, c, W) /\ Remembers(<<"skill", s>>) /\ Changed(q.inst)
    <2>1. PICK old, new : old = skills[s] /\ new = Edited(old, arg)
      OBVIOUS
    <2>2. skills' = [skills EXCEPT ![s] = new]
      BY <1>7, <2>1
    <2>3. UNCHANGED <<now, rules, client, cache, permits, cards, tools>> /\ drawn' = drawn
      BY <1>5 DEF clock, policy, local
    <2>4. /\ Changes(<<"skill", s>>) /\ skills' = [r \in SkillId |-> skills'[r]]
          /\ \A r \in SkillId : skills'[r] = IF r = s THEN new ELSE skills[r]
      <3>1. Remembers(<<"skill", s>>) /\ s \in SkillId /\ SkillsTypes /\ UNCHANGED <<now, rules, client>>
        BY <1>1, <1>2, <1>7, <2>3
      <3> QED
        BY <2>2, <3>1, OnlySkill
    <2>5. /\ Keeps(c, q, {"at"}) /\ c.at = "invalidate"
      BY <1>1, <1>4 DEF Keeps, Whole, Fields
    <2>6. /\ Whole(c) /\ c.op = q.op /\ c.inst = q.inst /\ c.ctx = q.ctx /\ c.arg = arg /\ c.id = s /\ c.got = q.got
          /\ c.again = q.again /\ c.found = q.found /\ c.todo = q.todo
          /\ c.rests = q.rests /\ c.since = q.since /\ c.claims = q.claims /\ c.lost = q.lost
      BY <1>2, <2>5 DEF Keeps, Fields
    <2>7. Writes(t, c, W) /\ rivals' = rivals \union (W \intersect q.lost)
      BY <1>1, <1>7, TakesWrites
    <2>8. s \in Existing /\ WholeSkill(old) /\ s <= drawn /\ q.got.owner = old.owner
      BY <1>1, <1>2, <1>7, <2>1 DEF Existing, SkillsTypes, Claimed
    <2>9. /\ WholeSkill(new) /\ new.owner = old.owner /\ new.name = old.name
          /\ new.slug = IF arg.slug = None THEN old.slug ELSE arg.slug
      BY <2>1, <2>8 DEF Edited, WholeSkill
    <2>10. /\ \A r \in Existing' : r \in Existing /\ (r # s => skills'[r] = skills[r])
           /\ skills'[s] = new
      BY <1>1, <1>2, <2>4, <2>8 DEF Existing
    <2>11. Rewrites(W)
      <3>1. drawn' \in 0 .. MaxSkills /\ drawn <= drawn'
        BY <1>1, <2>3, TheTime DEF SkillsTypes
      <3>2. \A r \in Existing : r <= drawn /\ WholeSkill(skills[r])
        BY <1>1 DEF SkillsTypes
      <3>3. ASSUME NEW r \in Existing'
            PROVE  /\ r <= drawn' /\ WholeSkill(skills'[r])
                   /\ (r <= drawn => r \in Existing /\ skills'[r].owner = skills[r].owner)
                   /\ \/ r \in Existing /\ skills'[r].slug = skills[r].slug
                      \/ SlugClaim(skills'[r].owner, skills'[r].slug) \in W
                   /\ \/ r \in Existing /\ skills'[r].name = skills[r].name
                      \/ (skills'[r].owner = Platform => NameClaim(skills'[r].name) \in W)
        <4>1. CASE r = s
          BY <1>3, <2>1, <2>3, <2>8, <2>9, <2>10, <4>1
        <4>2. CASE r # s
          BY <2>3, <2>10, <3>2, <3>3, <4>2
        <4> QED
          BY <4>1, <4>2
      <3> QED
        BY <2>4, <3>1, <3>3 DEF Rewrites
    <2>12. CallOK(c)'
      <3>1. Placed(q)' /\ Based(q)'
        BY <1>1, <1>2, <2>4, TheThings, BasedLater
      <3>2. Placed(c)'
        <4>1. Placed(c)
          BY <1>1, <1>2, <2>5, <2>6, PlacedList
        <4> QED
          BY <2>3, <4>1 DEF Placed
      <3>3. Based(c)'
        BY <1>1, <2>5, <2>6, <3>1 DEF Based
      <3>4. c.got # None => c.id \in SkillId /\ c.id <= drawn' /\ (c.id \in Existing' => c.got.owner = skills'[c.id].owner)
        BY <1>1, <1>2, <2>3, <2>6, <2>8, <2>9, <2>10
      <3>5. c.op = "templates" => W = {} /\ Ahead(c) = Ahead(q)
        BY <1>1, <1>2, <1>3, <2>5, <2>6 DEF Claimed, Ahead, Looking
      <3>6. c.op = "templates" =>
               \A k \in Ahead(c) : c.todo[k].name \notin DOMAIN c.found =>
                  /\ NameClaim(c.todo[k].name) \in c.claims
                  /\ NameClaim(c.todo[k].name) \notin c.lost => NameFree(c.todo[k].name)'
        BY <1>1, <2>6, <2>11, <3>5, FreeLater DEF Claimed
      <3>7. c.op = "templates" => \A j, k \in DOMAIN c.todo : c.todo[j].name = c.todo[k].name => j = k
        BY <1>1, <2>6 DEF Claimed
      <3>8. c.op = "fork" => c.ctx.uid # Platform
        BY <1>1, <2>6 DEF Claimed
      <3>9. Claimed(c)'
        BY <2>5, <3>4, <3>6, <3>7, <3>8 DEF Claimed, Looking
      <3> QED
        BY <2>6, <3>2, <3>3, <3>9 DEF CallOK, Whole
    <2>13. SlugsUnique'
      <3>1. arg.slug # None => SlugClaim(old.owner, arg.slug) \in q.lost \/ SlugFree(old.owner, arg.slug, s)
        BY <1>1, <1>2, <2>1, <2>8 DEF Claimed, HoldsSlug, Looking
      <3>2. ASSUME NEW r \in Existing' \ {s}, skills'[r].owner = new.owner
            PROVE  /\ skills'[r].slug = new.slug /\ new.slug # None => SlugClaim(new.owner, new.slug) \in rivals'
                   /\ new.owner = Platform /\ skills'[r].name = new.name => NameClaim(new.name) \in rivals'
        <4>1. r \in Existing /\ skills'[r] = skills[r] /\ skills[r].owner = old.owner /\ r # s
          BY <2>9, <2>10, <3>2
        <4>2. ASSUME skills[r].slug = new.slug, new.slug # None PROVE SlugClaim(new.owner, new.slug) \in rivals'
          <5>1. CASE arg.slug = None
            <6>1. skills[r].slug = skills[s].slug /\ skills[r].slug # None
              BY <2>1, <2>9, <4>2, <5>1
            <6>2. SlugClaim(skills[r].owner, skills[r].slug) \in rivals
              BY <2>1, <2>8, <4>1, <6>1 DEF SkillsInv, SlugsUnique
            <6> QED
              BY <2>7, <2>9, <4>1, <4>2, <6>2
          <5>2. CASE arg.slug # None
            <6>1. ~SlugFree(old.owner, arg.slug, s)
              BY <2>9, <4>1, <4>2, <5>2 DEF SlugFree
            <6> QED
              BY <1>3, <2>7, <2>8, <2>9, <3>1, <5>2, <6>1
          <5> QED
            BY <5>1, <5>2
        <4>3. ASSUME new.owner = Platform, skills[r].name = new.name PROVE NameClaim(new.name) \in rivals'
          <5>1. NameClaim(skills[r].name) \in rivals
            BY <2>1, <2>8, <2>9, <4>1, <4>3 DEF SkillsInv, SlugsUnique
          <5> QED
            BY <2>7, <4>3, <5>1
        <4> QED
          BY <4>1, <4>2, <4>3
      <3>3. ASSUME NEW r \in Existing', NEW p \in Existing', r # p, skills'[r].owner = skills'[p].owner
            PROVE  /\ skills'[r].slug = skills'[p].slug /\ skills'[r].slug # None =>
                         SlugClaim(skills'[r].owner, skills'[r].slug) \in rivals'
                   /\ skills'[r].owner = Platform /\ skills'[r].name = skills'[p].name =>
                         NameClaim(skills'[r].name) \in rivals'
        <4>1. CASE r = s
          BY <2>10, <3>2, <3>3, <4>1
        <4>2. CASE p = s
          BY <2>10, <3>2, <3>3, <4>2
        <4>3. CASE r # s /\ p # s
          <5>1. r \in Existing /\ skills'[r] = skills[r] /\ p \in Existing /\ skills'[p] = skills[p]
            BY <2>10, <3>3, <4>3
          <5> QED
            BY <2>7, <3>3, <5>1 DEF SkillsInv, SlugsUnique
        <4> QED
          BY <4>1, <4>2, <4>3
      <3> QED
        BY <3>3 DEF SlugsUnique
    <2> QED
      BY <1>1, <1>2, <1>7, <2>3, <2>4, <2>5, <2>6, <2>7, <2>11, <2>12, <2>13, Written DEF Listing
  <1>8. \/ Goes(t, Finished(q)) /\ UNCHANGED <<skills, history>>
        \/ Goes(t, Raised(q)) /\ UNCHANGED <<skills, history>>
        \/ /\ q.got # None /\ skills[s] # None
           /\ skills' = [skills EXCEPT ![s] = Edited(@, arg)]
           /\ Takes(t, c, W) /\ Remembers(<<"skill", s>>) /\ Changed(q.inst)
    BY <1>1, <1>2, <1>3, <1>4 DEF Update
  <1> QED
    BY <1>6, <1>7, <1>8

LEMMA Erased ==
  ASSUME SkillsInv, NEW t \in Thread, Erase(t)
  PROVE  SkillsInv'
  <1>1. PICK q : q = calls[t] /\ CallOK(q) /\ Whole(q) /\ Placed(q) /\ Based(q) /\ Claimed(q) /\ q.at = "got"
                 /\ q.again /\ q.op \in {"delete", "seed"}
                 /\ q.inst \in Instance /\ q.id \in SkillId /\ SkillsTypes
    BY AtWork DEF Erase, Looking
  <1>2. PICK s : s = q.id
    OBVIOUS
  <1>3. PICK c : c = [q EXCEPT !.at = "invalidate"]
    OBVIOUS
  <1>4. UNCHANGED <<clock, drawn, policy, local, rivals>>
    BY DEF Erase
  <1>5. CASE Goes(t, Finished(q)) /\ UNCHANGED <<skills, past, synced>>
    BY <1>1, <1>4, <1>5, EndsOK DEF Looking, clock, catalogue, history
  <1>6. CASE /\ skills' = [skills EXCEPT ![s] = None] /\ Goes(t, c) /\ Remembers(<<"skill", s>>) /\ Changed(q.inst)
    <2>1. UNCHANGED <<now, rules, client, cache, permits, cards, tools>> /\ drawn' = drawn /\ rivals' = rivals
      BY <1>4 DEF clock, policy, local
    <2>2. /\ Changes(<<"skill", s>>) /\ skills' = [r \in SkillId |-> skills'[r]]
          /\ \A r \in SkillId : skills'[r] = IF r = s THEN None ELSE skills[r]
      BY <1>1, <1>2, <1>6, <2>1, OnlySkill
    <2>3. /\ Keeps(c, q, {"at"}) /\ c.at = "invalidate"
      BY <1>1, <1>3 DEF Keeps, Whole, Fields
    <2>4. /\ Whole(c) /\ c.op = q.op /\ c.inst = q.inst /\ c.ctx = q.ctx /\ c.arg = q.arg /\ c.id = s /\ c.got = q.got
          /\ c.again = q.again /\ c.found = q.found /\ c.todo = q.todo
          /\ c.rests = q.rests /\ c.since = q.since /\ c.claims = q.claims /\ c.lost = q.lost
      BY <1>2, <2>3 DEF Keeps, Fields
    <2>5. Writes(t, c, {})
      BY <1>6, GoesWrites
    <2>6. \A r \in Existing' : r \in Existing /\ skills'[r] = skills[r]
      BY <2>2 DEF Existing
    <2>7. Rewrites({})
      <3>1. drawn' \in 0 .. MaxSkills /\ drawn <= drawn'
        BY <1>1, <2>1, TheTime DEF SkillsTypes
      <3>2. \A r \in Existing : r <= drawn /\ WholeSkill(skills[r])
        BY <1>1 DEF SkillsTypes
      <3> QED
        BY <2>1, <2>2, <2>6, <3>1, <3>2 DEF Rewrites
    <2>8. CallOK(c)'
      <3>1. Placed(q)' /\ Based(q)'
        BY <1>1, <1>2, <2>2, TheThings, BasedLater
      <3>2. Placed(c)'
        <4>1. Placed(c)
          BY <1>1, <1>2, <2>3, <2>4, PlacedList
        <4> QED
          BY <2>1, <4>1 DEF Placed
      <3>3. Based(c)'
        BY <1>1, <2>3, <2>4, <3>1 DEF Based
      <3>4. c.got # None => c.id \in SkillId /\ c.id <= drawn' /\ (c.id \in Existing' => c.got.owner = skills'[c.id].owner)
        BY <1>1, <2>1, <2>4, <2>6, <1>2 DEF Claimed
      <3>5. Claimed(c)'
        BY <1>1, <2>3, <2>4, <3>4 DEF Claimed, Looking
      <3> QED
        BY <2>4, <3>2, <3>3, <3>5 DEF CallOK, Whole
    <2>9. SlugsUnique'
      BY <2>1, <2>6 DEF SkillsInv, SlugsUnique
    <2> QED
      BY <1>1, <1>2, <1>6, <2>1, <2>2, <2>3, <2>4, <2>5, <2>7, <2>8, <2>9, Written DEF Listing
  <1>7. \/ Goes(t, Finished(q)) /\ UNCHANGED <<skills, past, synced>>
        \/ /\ skills' = [skills EXCEPT ![s] = None] /\ Goes(t, c) /\ Remembers(<<"skill", s>>) /\ Changed(q.inst)
    BY <1>1, <1>2, <1>3 DEF Erase
  <1> QED
    BY <1>5, <1>6, <1>7

\* PUT, DELETE and fork once the skill is looked up.
LEMMA Gated ==
  ASSUME SkillsInv, NEW t \in Thread, Gate(t)
  PROVE  SkillsInv'
  <1>1. PICK q : q = calls[t] /\ CallOK(q) /\ Whole(q) /\ Placed(q) /\ Based(q) /\ Claimed(q) /\ q.at = "got"
                 /\ q.op \in {"put", "delete", "fork"} /\ ~q.again
                 /\ q.inst \in Instance /\ q.id \in SkillId /\ SkillsTypes
    BY AtWork DEF Gate, Looking
  <1>2. PICK copy : copy = [owner |-> q.ctx.uid, name |-> ForkName, slug |-> None, access |-> Private]
    OBVIOUS
  <1>3. PICK c : /\ Goes(t, c)
                 /\ \/ q.op = "fork" /\ c = [q EXCEPT !.at = "create", !.arg = copy]
                    \/ q.op = "put" /\ q.got # None /\ c = [q EXCEPT !.at = "check"]
                    \/ q.op = "put" /\ q.arg.slug = None /\ c = [q EXCEPT !.at = "look", !.id = q.id, !.again = TRUE]
                    \/ q.op = "delete" /\ c = [q EXCEPT !.at = "look", !.id = q.id, !.again = TRUE]
                    \/ c = Answer(q, {})
    BY <1>1, <1>2 DEF Gate, Move, LooksAgain, Visible
  <1>4. CASE q.op = "fork" /\ c = [q EXCEPT !.at = "create", !.arg = copy]
    <2>1. /\ Keeps(c, q, {"at", "arg"}) /\ c.at = "create" /\ c.arg = copy
      BY <1>1, <1>4 DEF Keeps, Whole, Fields
    <2>2. /\ Whole(c) /\ c.op = "fork" /\ c.inst = q.inst /\ c.ctx = q.ctx /\ c.id = q.id
          /\ c.got = q.got /\ c.rests = q.rests /\ c.since = q.since
      BY <1>4, <2>1 DEF Keeps, Fields
    <2>3. WholeSkill(copy) /\ copy.owner = q.ctx.uid /\ copy.slug = None
      BY <1>2 DEF WholeSkill
    <2>4. Placed(c)
      BY <1>1, <2>1, <2>2 DEF Placed, Looking, Writing, Listing, Blank, Loops
    <2>5. Based(c)
      BY <1>1, <2>1, <2>2 DEF Based
    <2>6. Claimed(c)
      BY <1>1, <1>4, <2>1, <2>2, <2>3 DEF Claimed
    <2> QED
      BY <1>1, <1>3, <2>1, <2>2, <2>4, <2>5, <2>6, Quiet DEF Gate, OnlyCalls, clock, Listing, CallOK
  <1>5. CASE q.op = "put" /\ q.got # None /\ c = [q EXCEPT !.at = "check"]
    <2>1. /\ Keeps(c, q, {"at"}) /\ c.at = "check"
      BY <1>1, <1>5 DEF Keeps, Whole, Fields
    <2>2. /\ Whole(c) /\ c.op = "put" /\ c.inst = q.inst /\ c.ctx = q.ctx /\ c.id = q.id
          /\ c.got = q.got /\ c.rests = q.rests /\ c.since = q.since
      BY <1>5, <2>1 DEF Keeps, Fields
    <2>3. Placed(c)
      BY <1>1, <1>5, <2>1, <2>2 DEF Placed, Looking, Writing, Listing, Blank, Loops
    <2>4. Based(c)
      BY <1>1, <2>1, <2>2 DEF Based
    <2>5. Claimed(c)
      BY <1>1, <2>1, <2>2 DEF Claimed, Looking
    <2> QED
      BY <1>1, <1>3, <2>1, <2>2, <2>3, <2>4, <2>5, Quiet DEF Gate, OnlyCalls, clock, Listing, CallOK
  <1>6. CASE /\ q.op = "delete" \/ (q.op = "put" /\ q.arg.slug = None)
             /\ c = [q EXCEPT !.at = "look", !.id = q.id, !.again = TRUE]
    <2>1. /\ Keeps(c, q, {"at", "again"}) /\ c.at = "look"
      BY <1>1, <1>6 DEF Keeps, Whole, Fields
    <2>2. /\ Whole(c) /\ c.op = q.op /\ c.inst = q.inst /\ c.ctx = q.ctx /\ c.id = q.id /\ c.arg = q.arg
          /\ c.got = q.got /\ c.rests = q.rests /\ c.since = q.since
      BY <2>1 DEF Keeps, Fields
    <2>3. Placed(c)
      BY <1>1, <2>1, <2>2 DEF Placed, Looking, Blank, Loops
    <2>4. Based(c)
      BY <1>1, <2>1, <2>2 DEF Based
    <2>5. Claimed(c)
      BY <1>1, <1>6, <2>1, <2>2 DEF Claimed
    <2> QED
      BY <1>1, <1>3, <2>1, <2>2, <2>3, <2>4, <2>5, Quiet DEF Gate, OnlyCalls, clock, Listing, CallOK
  <1>7. CASE c = Answer(q, {})
    BY <1>1, <1>3, <1>7, Answers DEF Gate, OnlyCalls, clock, Listing
  <1> QED
    BY <1>3, <1>4, <1>5, <1>6, <1>7

LEMMA SlugChecked ==
  ASSUME SkillsInv, NEW t \in Thread, CheckSlug(t)
  PROVE  SkillsInv'
  <1>1. PICK q : q = calls[t] /\ CallOK(q) /\ Whole(q) /\ Placed(q) /\ Based(q) /\ Claimed(q) /\ q.at = "check"
                 /\ q.op = "put" /\ q.got # None /\ q.id \in SkillId /\ q.inst \in Instance /\ SkillsTypes
    <2>1. PICK q : q = calls[t] /\ CallOK(q) /\ Whole(q) /\ Placed(q) /\ Based(q) /\ Claimed(q) /\ q.at = "check"
                   /\ q.inst \in Instance /\ SkillsTypes
      BY AtWork DEF CheckSlug
    <2>2. q.op = "put" /\ q.got # None /\ q.id \in SkillId
      BY <2>1 DEF Placed
    <2> QED
      BY <2>1, <2>2
  <1>2. PICK claim : claim = SlugClaim(q.got.owner, q.arg.slug)
    OBVIOUS
  <1>3. PICK again : again = [q EXCEPT !.at = "look", !.id = q.id, !.again = TRUE]
    OBVIOUS
  <1>4. PICK c : /\ Goes(t, c)
                 /\ \/ c = Answer(q, {})
                    \/ ~Taken(q.got.owner, q.arg.slug, q.id) /\ c = [again EXCEPT !.claims = {claim}]
    BY <1>1, <1>2, <1>3 DEF CheckSlug, LooksAgain
  <1>5. CASE c = Answer(q, {})
    BY <1>1, <1>4, <1>5, Answers DEF CheckSlug, OnlyCalls, clock, Listing
  <1>6. CASE ~Taken(q.got.owner, q.arg.slug, q.id) /\ c = [again EXCEPT !.claims = {claim}]
    <2>1. Keeps(again, q, {"at", "again"}) /\ again.at = "look"
      BY <1>1, <1>3 DEF Keeps, Whole, Fields
    <2>2. Keeps(c, q, {"at", "again", "claims"}) /\ c.at = "look" /\ c.claims = {claim}
      BY <1>6, <2>1 DEF Keeps, Whole, Fields
    <2>3. /\ Whole(c) /\ c.op = "put" /\ c.inst = q.inst /\ c.ctx = q.ctx /\ c.id = q.id /\ c.arg = q.arg
          /\ c.got = q.got /\ c.rests = q.rests /\ c.since = q.since /\ c.lost = q.lost
      BY <1>1, <2>2 DEF Keeps, Fields
    <2>4. Placed(c)
      BY <1>1, <2>2, <2>3 DEF Placed, Looking, Blank, Loops
    <2>5. Based(c)
      BY <1>1, <2>2, <2>3 DEF Based
    <2>6. SlugFree(q.got.owner, q.arg.slug, q.id)
      BY <1>6 DEF Taken, OwnedBy, SlugFree
    <2>7. HoldsSlug(c, q.got.owner, q.arg.slug, q.id)
      BY <1>2, <2>2, <2>6 DEF HoldsSlug
    <2>8. Claimed(c)
      BY <1>1, <2>2, <2>3, <2>7 DEF Claimed
    <2> QED
      BY <1>1, <1>4, <2>2, <2>3, <2>4, <2>5, <2>8, Quiet DEF CheckSlug, OnlyCalls, clock, Listing, CallOK
  <1> QED
    BY <1>4, <1>5, <1>6

-----------------------------------------------------------------------------
(* The record of the domain and the rules.                                 *)

\* A step that changes one of them, and calls to what they may be.
LEMMA PolicyChanged ==
  ASSUME SkillsInv, NEW y \in Things, Changes(y), UNCHANGED <<skills, drawn, cache, permits, cards, tools, synced, rivals>>,
         \A u \in Thread : CallOK(calls'[u]), calls' = [u \in Thread |-> calls'[u]],
         rules' = [level \in Levels |-> rules'[level]], ToolsInv'
  PROVE  SkillsInv'
  <1>1. SkillsTypes /\ now' = now /\ now \in Nat
    BY TheTime DEF Changes
  <1>2. Rewrites({})
    <2>1. \A s \in Existing' : s \in Existing /\ s <= drawn' /\ WholeSkill(skills'[s]) /\ skills'[s] = skills[s]
      BY <1>1 DEF Existing, SkillsTypes
    <2>2. drawn' \in 0 .. MaxSkills /\ drawn <= drawn' /\ skills' = [s \in SkillId |-> skills'[s]]
      BY <1>1, TheTime DEF SkillsTypes
    <2> QED
      BY <2>1, <2>2 DEF Rewrites
  <1>3. \A u \in Thread : CallOK(calls[u])'
    <2> TAKE u \in Thread
    <2>1. PICK e : e = calls'[u]
      OBVIOUS
    <2>2. Whole(e) /\ Placed(e) /\ Based(e) /\ Claimed(e)
      BY <2>1 DEF CallOK
    <2>3. Placed(e)' /\ Based(e)'
      BY <2>2, BasedLater
    <2>4. Keeps(e, e, {"lost"}) /\ e.lost = e.lost \union ({} \intersect e.claims)
      BY <2>2 DEF Keeps
    <2>5. Claimed(e)'
      BY <1>2, <2>2, <2>4, ClaimedLater
    <2>6. CallOK(e)'
      BY <2>2, <2>3, <2>5 DEF CallOK, Whole
    <2> QED
      BY <2>1, <2>6
  <1>4. CacheRecent' /\ PermitsRecent' /\ CardsRecent'
    BY <1>2, CachedLater
  <1>5. SlugsUnique'
    BY DEF SkillsInv, SlugsUnique, Existing
  <1>6. SkillsTypes'
    <2>1. past' = [past EXCEPT ![y] = {h \in past[y] : h[1] # Value(y)} \union {<<Value(y), now>>}]
      BY DEF Changes, Remembers
    <2>2. ASSUME NEW x \in Things, NEW h \in past'[x] PROVE h[2] \in Nat
      <3>1. h \in past[x] \/ h = <<Value(y), now>>
        BY <1>1, <2>1, <2>2 DEF SkillsTypes
      <3> QED
        BY <1>1, <3>1 DEF SkillsTypes
    <2>3. past' = [x \in Things |-> past'[x]]
      BY <1>1, <2>1 DEF SkillsTypes
    <2>4. /\ now' \in 0 .. MaxTime /\ drawn' \in 0 .. MaxSkills /\ skills' = [r \in SkillId |-> skills'[r]]
          /\ \A r \in Existing' : r <= drawn' /\ WholeSkill(skills'[r])
      BY <1>1 DEF SkillsTypes, Existing
    <2>5. /\ cache' = [i \in Instance |-> [r \in SkillId |-> cache'[i][r]]]
          /\ permits' = [i \in Instance |-> permits'[i]]
          /\ cards' = [i \in Instance |-> [b \in 0 .. Bucket(MaxTime) |-> cards'[i][b]]]
          /\ tools' = [i \in Instance |-> tools'[i]] /\ synced' = [i \in Instance |-> synced'[i]]
      BY <1>1 DEF SkillsTypes
    <2> QED
      BY <2>2, <2>3, <2>4, <2>5 DEF SkillsTypes, Bucket, WholeSkill
  <1> QED
    BY <1>3, <1>4, <1>5, <1>6 DEF SkillsInv, ToolsInv

LEMMA OnlyRule ==
  ASSUME SkillsTypes, NEW l \in Levels, NEW rule, rules' = [rules EXCEPT ![l] = rule],
         Remembers(<<"rule", l>>), UNCHANGED <<now, skills, client>>
  PROVE  Changes(<<"rule", l>>) /\ rules' = [level \in Levels |-> rules'[level]] /\ <<"rule", l>> \in Things
  <1>1. rules' = [level \in Levels |-> rules'[level]] /\ \A level \in Levels : level # l => rules'[level] = rules[level]
    BY DEF SkillsTypes
  <1>2. ASSUME NEW y \in Things, y # <<"rule", l>>
        PROVE  Value(y)' = Value(y)
    <2>1. CASE y \in {"skill"} \X SkillId
      <3>1. y[1] = "skill" /\ y[2] \in SkillId
        BY <2>1
      <3> QED
        BY <3>1 DEF Value
    <2>2. CASE y \in {"rule"} \X Levels
      <3>1. y[1] = "rule" /\ y[2] \in Levels /\ y[2] # l
        BY <1>2, <2>2
      <3> QED
        BY <1>1, <3>1 DEF Value
    <2>3. CASE y = <<"client", 0>>
      BY <2>3 DEF Value
    <2> QED
      BY <2>1, <2>2, <2>3 DEF Things
  <1> QED
    BY <1>1, <1>2, TheThings DEF Changes

LEMMA ClientEdited ==
  ASSUME SkillsInv, EditClient
  PROVE  SkillsInv'
  <1>1. Remembers(<<"client", 0>>) /\ UNCHANGED <<now, catalogue, rules, local, calls, rivals, synced>>
    BY DEF EditClient
  <1>2. UNCHANGED <<now, skills, drawn, rules, cache, permits, cards, tools, synced, rivals, calls>>
    BY <1>1 DEF catalogue, local
  <1>3. ASSUME NEW y \in Things, y # <<"client", 0>>
        PROVE  Value(y)' = Value(y)
    <2>1. y \in ({"skill"} \X SkillId) \union ({"rule"} \X Levels)
      BY <1>3 DEF Things
    <2>2. y[1] \in {"skill", "rule"}
      BY <2>1
    <2> QED
      BY <1>2, <2>2 DEF Value
  <1>4. Changes(<<"client", 0>>) /\ <<"client", 0>> \in Things
    BY <1>1, <1>2, <1>3, TheThings DEF Changes
  <1>5. /\ \A u \in Thread : CallOK(calls'[u])
        /\ calls' = [u \in Thread |-> calls'[u]] /\ rules' = [level \in Levels |-> rules'[level]]
    BY <1>2, TheTime DEF SkillsInv, SkillsTypes
  <1>6. ToolsInv'
    BY <1>2 DEF SkillsInv, ToolsInv, RebuildsAlone, ToolsMatchPublic, Syncing, Rebuilding, Here, Public, Existing
  <1> QED
    BY <1>2, <1>4, <1>5, <1>6, PolicyChanged

LEMMA RuleEdited ==
  ASSUME SkillsInv, EditRule
  PROVE  SkillsInv'
  <1>1. PICK l, rule : l \in Levels /\ rules' = [rules EXCEPT ![l] = rule] /\ Remembers(<<"rule", l>>)
    BY DEF EditRule
  <1>2. UNCHANGED <<now, skills, drawn, client, cache, permits, cards, tools, synced, rivals, calls>>
    BY DEF EditRule, catalogue, local
  <1>3. Changes(<<"rule", l>>) /\ rules' = [level \in Levels |-> rules'[level]] /\ <<"rule", l>> \in Things
    BY <1>1, <1>2, TheTime, OnlyRule
  <1>4. (\A u \in Thread : CallOK(calls'[u])) /\ calls' = [u \in Thread |-> calls'[u]]
    BY <1>2, TheTime DEF SkillsInv, SkillsTypes
  <1>5. ToolsInv'
    BY <1>2 DEF SkillsInv, ToolsInv, RebuildsAlone, ToolsMatchPublic, Syncing, Rebuilding, Here, Public, Existing
  <1> QED
    BY <1>2, <1>3, <1>4, <1>5, PolicyChanged

LEMMA WildcardGranted ==
  ASSUME SkillsInv, NEW t \in Thread, GrantWildcard(t)
  PROVE  SkillsInv'
  <1>1. PICK q : q = calls[t] /\ CallOK(q) /\ Whole(q) /\ Placed(q) /\ Based(q) /\ q.op = "seed"
                 /\ q.at \in {"grant", "allow"} /\ SkillsTypes
    BY AtWork DEF GrantWildcard
  <1>2. PICK place \in {"allow", "previous"} : Goes(t, [q EXCEPT !.at = place])
    BY <1>1 DEF GrantWildcard, Move
  <1>3. PICK c : c = [q EXCEPT !.at = place]
    OBVIOUS
  <1>4. /\ Keeps(c, q, {"at", "id", "got", "arg", "todo", "rests"}) /\ c.at = place /\ c.got = q.got
        /\ c.rests = q.rests /\ c.todo = q.todo
    BY <1>1, <1>3 DEF Keeps, Whole, Fields
  <1>5. q.got = None /\ q.todo \in Seq(SkillId)
    BY <1>1 DEF Placed, Blank
  <1>6. Whole(c) /\ Placed(c) /\ Claimed(c) /\ c.since = q.since
    BY <1>1, <1>4, <1>5, Aside DEF Looking, Writing, Listing
  <1>7. Based(c)
    BY <1>1, <1>4, <1>6 DEF Based
  <1>8. CallOK(c)
    BY <1>6, <1>7 DEF CallOK
  <1>9. UNCHANGED <<now, skills, drawn, client, cache, permits, cards, tools, synced, rivals>>
    BY DEF GrantWildcard, clock, catalogue, local
  <1>10. CASE UNCHANGED <<rules, past>>
    <2>1. UNCHANGED <<now, catalogue, policy, local, history>>
      BY <1>9, <1>10 DEF catalogue, policy, local, history
    <2> QED
      BY <1>1, <1>2, <1>3, <1>4, <1>8, <2>1, Quiet DEF Listing
  <1>11. CASE rules' = [rules EXCEPT ![Wildcard] = "allow"] /\ Remembers(<<"rule", Wildcard>>)
    <2>1. Wildcard \in Levels
      BY DEF Wildcard, Levels
    <2>2. Changes(<<"rule", Wildcard>>) /\ rules' = [level \in Levels |-> rules'[level]] /\ <<"rule", Wildcard>> \in Things
      BY <1>1, <1>9, <1>11, <2>1, OnlyRule
    <2>3. /\ \A u \in Thread : calls'[u] = IF u = t THEN c ELSE calls[u]
          /\ calls' = [u \in Thread |-> calls'[u]]
      BY <1>1, <1>2, <1>3, OneCall
    <2>4. \A u \in Thread : CallOK(calls'[u])
      BY <1>8, <2>3 DEF SkillsInv
    <2>5. ToolsInv'
      BY <1>1, <1>2, <1>3, <1>4, <1>9, ToolsKept DEF SkillsInv, ToolsInv, Listing
    <2> QED
      BY <1>9, <2>2, <2>3, <2>4, <2>5, PolicyChanged
  <1> QED
    BY <1>10, <1>11 DEF GrantWildcard

-----------------------------------------------------------------------------
(* The seed.                                                               *)

LEMMA ListsSkills ==
  ASSUME NEW S \in SUBSET SkillId
  PROVE  SetToSeq(S) \in Seq(SkillId) /\ SetToSeq(S) \in Seq(S)
  <1>1. IsFiniteSet(SkillId)
    BY SkillBounds, FS_Interval DEF SkillId
  <1>2. IsFiniteSet(S)
    BY <1>1, FS_Subset
  <1>3. Cardinality(S) \in Nat /\ ExistsBijection(1 .. Cardinality(S), S)
    BY <1>2, FS_CardinalityType
  <1>4. PICK f \in [1 .. Cardinality(S) -> S] : IsInjective(f)
    BY <1>3 DEF ExistsBijection, Bijection, Injection, IsInjective
  <1>5. SetToSeq(S) \in [1 .. Cardinality(S) -> S]
    BY <1>4 DEF SetToSeq
  <1> QED
    BY <1>3, <1>5

LEMMA PreviousListed ==
  ASSUME SkillsInv, NEW t \in Thread, ListPrevious(t)
  PROVE  SkillsInv'
  <1>1. PICK q : q = calls[t] /\ CallOK(q) /\ Whole(q) /\ Placed(q) /\ Based(q)
                 /\ q.op = "seed" /\ q.at = "previous"
    BY AtWork DEF ListPrevious, At
  <1>2. PICK skillsOf : skillsOf = SetToSeq(OwnedBy(PreviousOwner))
    OBVIOUS
  <1>3. PICK c : Goes(t, c) /\ c = [q EXCEPT !.at = "next", !.todo = skillsOf]
    BY <1>1, <1>2 DEF ListPrevious
  <1>4. /\ Keeps(c, q, {"at", "id", "got", "arg", "todo", "rests"}) /\ c.at = "next" /\ c.got = q.got
        /\ c.rests = q.rests /\ c.todo = skillsOf
    BY <1>1, <1>3 DEF Keeps, Whole, Fields
  <1>5. q.got = None
    BY <1>1 DEF Placed, Blank
  <1>6. skillsOf \in Seq(SkillId)
    <2>1. OwnedBy(PreviousOwner) \in SUBSET SkillId
      BY DEF OwnedBy, Existing
    <2> QED
      BY <1>2, <2>1, ListsSkills
  <1>7. Whole(c) /\ Placed(c) /\ Claimed(c) /\ c.since = q.since
    BY <1>1, <1>4, <1>5, <1>6, Aside DEF Looking, Writing, Listing
  <1>8. Based(c)
    BY <1>1, <1>4, <1>7 DEF Based
  <1> QED
    BY <1>1, <1>3, <1>4, <1>7, <1>8, Quiet DEF ListPrevious, OnlyCalls, clock, Listing, CallOK

LEMMA ExistingListed ==
  ASSUME SkillsInv, NEW t \in Thread, ListExisting(t)
  PROVE  SkillsInv'
  <1>1. PICK q : q = calls[t] /\ CallOK(q) /\ Whole(q) /\ Placed(q) /\ Based(q)
                 /\ q.op = "seed" /\ q.at = "existing"
    BY AtWork DEF ListExisting, At
  <1>2. PICK names, absent : /\ names = {skills[s].name : s \in OwnedBy(Platform)}
                             /\ absent = {Templates[k].name : k \in DOMAIN Templates} \ names
    OBVIOUS
  <1>3. PICK found \in [names -> OwnedBy(Platform)] :
           Goes(t, [q EXCEPT !.op = "templates", !.at = "next", !.todo = Templates,
                             !.found = found, !.claims = {NameClaim(n) : n \in absent}])
    BY <1>1, <1>2 DEF ListExisting
  <1>4. PICK half, free : /\ half = [q EXCEPT !.op = "templates", !.at = "next", !.todo = Templates]
                          /\ free = {NameClaim(n) : n \in absent}
    OBVIOUS
  <1>5. PICK c : c = [half EXCEPT !.found = found, !.claims = free]
    OBVIOUS
  <1>6. Goes(t, c)
    BY <1>3, <1>4, <1>5
  <1>7. Keeps(half, q, {"op", "at", "todo"}) /\ half.op = "templates" /\ half.at = "next" /\ half.todo = Templates
    BY <1>1, <1>4 DEF Keeps, Whole, Fields
  <1>8. /\ Keeps(c, q, {"op", "at", "todo", "found", "claims"}) /\ c.op = "templates" /\ c.at = "next"
        /\ c.todo = Templates /\ c.found = found /\ c.claims = free
    BY <1>5, <1>7 DEF Keeps, Whole, Fields
  <1>9. /\ Whole(c) /\ c.inst = q.inst /\ c.ctx = q.ctx /\ c.id = q.id /\ c.got = q.got
        /\ c.rests = q.rests /\ c.since = q.since
    BY <1>8 DEF Keeps, Fields
  <1>10. Placed(c)
    <2>1. Templates \in Seq(Template)
      BY CatalogueAssumption
    <2>2. \A n \in DOMAIN found : found[n] \in SkillId
      BY DEF OwnedBy, Existing
    <2> QED
      BY <1>1, <1>8, <1>9, <2>1, <2>2 DEF Placed, Looking, Writing, Listing, Blank
  <1>11. Based(c)
    BY <1>1, <1>8, <1>9 DEF Based
  <1>12. Claimed(c)
    <2>1. q.got = None
      BY <1>1 DEF Placed, Blank
    <2>2. \A j, k \in DOMAIN c.todo : c.todo[j].name = c.todo[k].name => j = k
      BY <1>8, CatalogueAssumption
    <2>3. ASSUME NEW k \in Ahead(c), c.todo[k].name \notin DOMAIN c.found
          PROVE  NameClaim(c.todo[k].name) \in c.claims /\ NameFree(c.todo[k].name)
      <3>1. k \in DOMAIN Templates /\ c.todo[k].name = Templates[k].name
        BY <1>8, <2>3 DEF Ahead
      <3>2. Templates[k].name \in absent
        BY <1>2, <1>8, <2>3, <3>1
      <3>3. NameClaim(Templates[k].name) \in free
        BY <1>4, <3>2
      <3>4. NameFree(Templates[k].name)
        BY <1>2, <3>2 DEF NameFree, OwnedBy
      <3> QED
        BY <1>8, <3>1, <3>3, <3>4
    <2> QED
      BY <1>8, <1>9, <2>1, <2>2, <2>3 DEF Claimed, Looking
  <1> QED
    BY <1>1, <1>6, <1>8, <1>9, <1>10, <1>11, <1>12, Quiet DEF ListExisting, OnlyCalls, clock, Listing, CallOK

LEMMA PurgeNext ==
  ASSUME SkillsInv, NEW t \in Thread, NextPurge(t)
  PROVE  SkillsInv'
  <1>1. PICK q : q = calls[t] /\ CallOK(q) /\ Whole(q) /\ Placed(q) /\ Based(q)
                 /\ q.op = "seed" /\ q.at = "next"
    BY AtWork DEF NextPurge, At
  <1>2. q.got = None /\ q.todo \in Seq(SkillId)
    BY <1>1 DEF Placed, Blank
  <1>3. PICK s : s = Head(q.todo)
    OBVIOUS
  <1>4. PICK c : /\ Goes(t, c)
                 /\ \/ c = [q EXCEPT !.at = "existing"]
                    \/ q.todo # <<>> /\ c = [q EXCEPT !.at = "look", !.id = s, !.again = TRUE]
    BY <1>1, <1>3 DEF NextPurge, Move, LooksAgain
  <1>5. CASE c = [q EXCEPT !.at = "existing"]
    <2>1. /\ Keeps(c, q, {"at", "id", "got", "arg", "todo", "rests"}) /\ c.at = "existing" /\ c.got = q.got
          /\ c.rests = q.rests /\ c.todo = q.todo
      BY <1>1, <1>5 DEF Keeps, Whole, Fields
    <2>2. Whole(c) /\ Placed(c) /\ Claimed(c) /\ c.since = q.since
      BY <1>1, <1>2, <2>1, Aside DEF Looking, Writing, Listing
    <2>3. Based(c)
      BY <1>1, <2>1, <2>2 DEF Based
    <2> QED
      BY <1>1, <1>4, <2>1, <2>2, <2>3, Quiet DEF NextPurge, OnlyCalls, clock, Listing, CallOK
  <1>6. CASE q.todo # <<>> /\ c = [q EXCEPT !.at = "look", !.id = s, !.again = TRUE]
    <2>1. /\ Keeps(c, q, {"at", "id", "again"}) /\ c.at = "look" /\ c.id = s
      BY <1>1, <1>6 DEF Keeps, Whole, Fields
    <2>2. /\ Whole(c) /\ c.op = "seed" /\ c.inst = q.inst /\ c.ctx = q.ctx /\ c.todo = q.todo
          /\ c.got = None /\ c.rests = q.rests /\ c.since = q.since
      BY <1>1, <1>2, <2>1 DEF Keeps, Fields
    <2>3. s \in SkillId
      BY <1>2, <1>3, <1>6, TailOf
    <2>4. Placed(c)
      BY <1>1, <1>2, <1>6, <2>1, <2>2, <2>3 DEF Placed, Looking, Blank
    <2>5. Based(c)
      BY <1>1, <2>1, <2>2 DEF Based
    <2>6. Claimed(c)
      BY <2>1, <2>2 DEF Claimed
    <2> QED
      BY <1>1, <1>4, <2>1, <2>2, <2>4, <2>5, <2>6, Quiet DEF NextPurge, OnlyCalls, clock, Listing, CallOK
  <1> QED
    BY <1>4, <1>5, <1>6

LEMMA TemplateNext ==
  ASSUME SkillsInv, NEW t \in Thread, NextTemplate(t)
  PROVE  SkillsInv'
  <1>1. PICK q : q = calls[t] /\ CallOK(q) /\ Whole(q) /\ Placed(q) /\ Based(q) /\ Claimed(q)
                 /\ q.op = "templates" /\ q.at = "next"
    BY AtWork DEF NextTemplate, At
  <1>2. q.got = None /\ q.todo \in Seq(Template) /\ \A n \in DOMAIN q.found : q.found[n] \in SkillId
    BY <1>1 DEF Placed, Blank
  <1>3. PICK name, access : name = Head(q.todo).name /\ access = Head(q.todo).access
    OBVIOUS
  <1>4. PICK new, edit : /\ new = [owner |-> Platform, name |-> name, slug |-> <<name, 1>>,
                                   access |-> IF access = None THEN OpenToAll ELSE access]
                         /\ edit = [slug |-> None, access |-> access]
    OBVIOUS
  <1>5. PICK again : again = [q EXCEPT !.at = "look", !.id = q.found[name], !.again = TRUE]
    OBVIOUS
  <1>6. PICK c : /\ Goes(t, c)
                 /\ \/ c = Answer(q, {})
                    \/ q.todo # <<>> /\ name \in DOMAIN q.found /\ c = [again EXCEPT !.arg = edit]
                    \/ q.todo # <<>> /\ name \notin DOMAIN q.found /\ c = [q EXCEPT !.at = "slug", !.arg = new]
    BY <1>1, <1>3, <1>4, <1>5 DEF NextTemplate, LooksAgain
  <1>7. CASE c = Answer(q, {})
    <2>1. Goes(t, Answer(calls[t], {})) /\ calls[t].at \notin Listing
      BY <1>1, <1>6, <1>7 DEF Listing
    <2>2. UNCHANGED <<now, catalogue, policy, local, history>>
      BY DEF NextTemplate, OnlyCalls, clock
    <2> QED
      BY <2>1, <2>2, Answers
  <1>8. CASE q.todo # <<>> /\ name \in DOMAIN q.found /\ c = [again EXCEPT !.arg = edit]
    <2>1. /\ Keeps(again, q, {"at", "id", "again"}) /\ again.at = "look" /\ again.id = q.found[name]
      BY <1>1, <1>5 DEF Keeps, Whole, Fields
    <2>2. /\ Keeps(c, q, {"at", "id", "again", "arg"}) /\ c.at = "look" /\ c.id = q.found[name] /\ c.arg = edit
      BY <1>8, <2>1 DEF Keeps, Whole, Fields
    <2>3. /\ Whole(c) /\ c.op = "templates" /\ c.inst = q.inst /\ c.ctx = q.ctx /\ c.todo = q.todo
          /\ c.got = None /\ c.rests = q.rests /\ c.since = q.since /\ c.found = q.found
          /\ c.claims = q.claims /\ c.lost = q.lost
      BY <1>1, <1>2, <2>2 DEF Keeps, Fields
    <2>4. Placed(c)
      BY <1>1, <1>2, <1>8, <2>2, <2>3 DEF Placed, Looking, Blank
    <2>5. Based(c)
      BY <1>1, <2>2, <2>3 DEF Based
    <2>6. edit.slug = None /\ Ahead(c) \subseteq Ahead(q)
      BY <1>1, <1>4, <2>2, <2>3 DEF Ahead
    <2>7. Claimed(c)
      BY <1>1, <2>2, <2>3, <2>6 DEF Claimed
    <2> QED
      BY <1>1, <1>6, <2>2, <2>3, <2>4, <2>5, <2>7, Quiet DEF NextTemplate, OnlyCalls, clock, Listing, CallOK
  <1>9. CASE q.todo # <<>> /\ name \notin DOMAIN q.found /\ c = [q EXCEPT !.at = "slug", !.arg = new]
    <2>1. /\ Keeps(c, q, {"at", "arg"}) /\ c.at = "slug" /\ c.arg = new
      BY <1>1, <1>9 DEF Keeps, Whole, Fields
    <2>2. /\ Whole(c) /\ c.op = "templates" /\ c.inst = q.inst /\ c.ctx = q.ctx /\ c.todo = q.todo
          /\ c.got = None /\ c.rests = q.rests /\ c.since = q.since /\ c.found = q.found
          /\ c.claims = q.claims /\ c.lost = q.lost
      BY <1>1, <1>2, <2>1 DEF Keeps, Fields
    <2>3. Placed(c)
      BY <1>1, <1>2, <1>9, <2>1, <2>2 DEF Placed, Looking, Writing, Listing, Blank
    <2>4. Based(c)
      BY <1>1, <2>1, <2>2 DEF Based
    <2>5. /\ WholeSkill(new) /\ new.owner = Platform /\ new.name = name
          /\ \E b : \E n \in Nat \ {0} : new.slug = <<b, n>>
      BY <1>4 DEF WholeSkill
    <2>6. Ahead(c) = Ahead(q)
      BY <1>1, <2>1, <2>2 DEF Ahead
    <2>7. Claimed(c)
      BY <1>1, <1>3, <1>9, <2>1, <2>2, <2>5, <2>6 DEF Claimed, Looking
    <2> QED
      BY <1>1, <1>6, <2>1, <2>2, <2>3, <2>4, <2>7, Quiet DEF NextTemplate, OnlyCalls, clock, Listing, CallOK
  <1> QED
    BY <1>6, <1>7, <1>8, <1>9

LEMMA CallFailed ==
  ASSUME SkillsInv, NEW t \in Thread, Fails(t)
  PROVE  SkillsInv'
  <1>1. PICK q : q = calls[t] /\ CallOK(q) /\ Whole(q) /\ SkillsTypes /\ q.at \notin Listing \union {"next"}
    BY AtWork DEF Fails, Asking, Listing
  <1>2. PICK c : c = Raised(q)
    OBVIOUS
  <1>3. CallOK(c) /\ c.at \in {"next", "idle"} /\ Goes(t, c)
    BY <1>1, <1>2, RaisedOK, FinishedAt DEF Fails
  <1> QED
    BY <1>1, <1>3, Quiet DEF Fails, OnlyCalls, clock

-----------------------------------------------------------------------------
(* A restart, and time.                                                    *)

\* The cache of an instance goes.
LEMMA CacheGone ==
  ASSUME SkillsTypes, NEW i \in Instance, cache' = [cache EXCEPT ![i] = [s \in SkillId |-> None]]
  PROVE  /\ \A j \in Instance, s \in SkillId : cache'[j][s] # None => cache'[j][s] = cache[j][s]
         /\ cache' = [j \in Instance |-> [s \in SkillId |-> cache'[j][s]]]
  <1>1. \A j \in Instance : cache[j] = [s \in SkillId |-> cache[j][s]]
    BY DEF SkillsTypes
  <1>2. \A j \in Instance : cache'[j] = IF j = i THEN [s \in SkillId |-> None] ELSE cache[j]
    BY DEF SkillsTypes
  <1>3. cache' = [j \in Instance |-> cache'[j]]
    BY DEF SkillsTypes
  <1>4. \A j \in Instance : cache'[j] = [s \in SkillId |-> cache'[j][s]]
    <2> TAKE j \in Instance
    <2>1. PICK new : new = cache'[j]
      OBVIOUS
    <2>2. new = [s \in SkillId |-> IF j = i THEN None ELSE cache[j][s]]
      <3>1. CASE j = i
        BY <1>2, <2>1, <3>1
      <3>2. CASE j # i
        BY <1>1, <1>2, <2>1, <3>2
      <3> QED
        BY <3>1, <3>2
    <2>3. new = [s \in SkillId |-> new[s]]
      BY <2>2
    <2> QED
      BY <2>1, <2>2, <2>3
  <1>5. cache' = [j \in Instance |-> [s \in SkillId |-> cache'[j][s]]]
    BY <1>3, <1>4, Zenon
  <1> QED
    BY <1>2, <1>5

LEMMA Restarted ==
  ASSUME SkillsInv, NEW i \in Instance, Restart(i)
  PROVE  SkillsInv'
  <1>1. SkillsTypes
    BY DEF SkillsInv
  <1>2. NothingChanges
    BY DEF Restart, NothingChanges, catalogue, policy
  <1>3. \A x, v, a, d : Was(x, v, a, d)' <=> Was(x, v, a, d)
    BY <1>2 DEF NothingChanges, Was, Value
  <1>4. /\ calls' = [u \in Thread |-> calls'[u]]
        /\ \A u \in Thread : calls'[u] = Idle \/ (calls'[u] = calls[u] /\ ~(Busy(u) /\ Here(u) = i))
    BY DEF Restart
  <1>5. \A u \in Thread : CallOK(calls[u])'
    <2> TAKE u \in Thread
    <2>1. PICK c : c = calls'[u]
      OBVIOUS
    <2>2. CallOK(c)
      BY <1>1, <1>4, <2>1, AtWork, IdleOK
    <2>3. CallOK(c)'
      BY <1>2, <2>2, StaysOK
    <2> QED
      BY <2>1, <2>3
  <1>6. /\ \A j \in Instance, s \in SkillId : cache'[j][s] # None => cache'[j][s] = cache[j][s]
        /\ cache' = [j \in Instance |-> [s \in SkillId |-> cache'[j][s]]]
    BY <1>1, CacheGone DEF Restart
  <1>7. CacheRecent'
    BY <1>2, <1>3, <1>6 DEF SkillsInv, CacheRecent, NothingChanges, Existing
  <1>8. /\ \A j \in Instance : permits'[j] # None => permits'[j] = permits[j]
        /\ permits' = [j \in Instance |-> permits'[j]]
    BY <1>1 DEF Restart, SkillsTypes
  <1>9. PermitsRecent'
    BY <1>2, <1>3, <1>8 DEF SkillsInv, PermitsRecent, NothingChanges
  <1>10. /\ \A j \in Instance, b \in 0 .. Bucket(MaxTime) : cards'[j][b] # None => cards'[j][b] = cards[j][b]
         /\ cards' = [j \in Instance |-> [b \in 0 .. Bucket(MaxTime) |-> cards'[j][b]]]
    <2>1. PICK row : row = [b \in DOMAIN cards[i] |-> None]
      OBVIOUS
    <2>2. cards' = [cards EXCEPT ![i] = row]
      BY <2>1 DEF Restart
    <2> QED
      BY <1>1, <2>1, <2>2, CardsGone
  <1>11. CardsRecent'
    BY <1>2, <1>10, KeepsCards
  <1>12. PICK up, listed : /\ up \in BOOLEAN /\ listed = IF up THEN Public ELSE {}
                           /\ tools' = [tools EXCEPT ![i] = listed] /\ synced' = [synced EXCEPT ![i] = up]
    BY DEF Restart
  <1>13. /\ tools' = [j \in Instance |-> tools'[j]] /\ synced' = [j \in Instance |-> synced'[j]]
         /\ tools'[i] = listed /\ synced'[i] = up
         /\ \A j \in Instance \ {i} : tools'[j] = tools[j] /\ synced'[j] = synced[j]
    BY <1>1, <1>12 DEF SkillsTypes
  <1>14. Public' = Public
    BY <1>2 DEF NothingChanges, Public, Existing
  <1>15. Idle.at = "idle"
    BY DEF Idle
  <1>16. \A u \in Thread : calls'[u].at \in Listing =>
            calls'[u] = calls[u] /\ calls[u].inst \in Instance \ {i}
    <2> SUFFICES ASSUME NEW u \in Thread, calls'[u].at \in Listing
                 PROVE  calls'[u] = calls[u] /\ calls[u].inst \in Instance \ {i}
      OBVIOUS
    <2>1. calls'[u] = calls[u] /\ ~(Busy(u) /\ Here(u) = i) /\ calls[u].at \in Listing
      BY <1>4, <1>15 DEF Listing
    <2>2. calls[u].inst \in Instance
      BY <2>1, AtWork DEF Listing
    <2> QED
      BY <2>1, <2>2 DEF Busy, Here, Listing
  <1>17. RebuildsAlone'
    <2> SUFFICES ASSUME NEW u \in Thread, calls'[u].at = "sync", ~calls'[u].mixed
                 PROVE  /\ tools'[calls'[u].inst] \subseteq calls'[u].public \union calls'[u].drop
                        /\ \A w \in Thread \ {u} : ~(calls'[w].inst = calls'[u].inst /\ calls'[w].at = "sync")
      BY DEF RebuildsAlone, Syncing
    <2>1. calls'[u] = calls[u] /\ calls[u].inst \in Instance \ {i}
      BY <1>16 DEF Listing
    <2>2. /\ tools[calls[u].inst] \subseteq calls[u].public \union calls[u].drop
          /\ \A w \in Thread \ {u} : ~(calls[w].inst = calls[u].inst /\ calls[w].at = "sync")
      BY <2>1 DEF SkillsInv, RebuildsAlone, Syncing
    <2>3. \A w \in Thread : calls'[w].at = "sync" => calls'[w] = calls[w]
      BY <1>16 DEF Listing
    <2> QED
      BY <1>13, <2>1, <2>2, <2>3
  <1>18. ToolsMatchPublic'
    <2> SUFFICES ASSUME NEW j \in Instance, synced'[j], \A u \in Thread : ~(Rebuilding(u)' /\ Here(u)' = j)
                 PROVE  tools'[j] = Public
      BY <1>14 DEF ToolsMatchPublic
    <2>1. CASE j = i
      BY <1>12, <1>13, <2>1
    <2>2. CASE j # i
      <3>1. \A u \in Thread : ~(Rebuilding(u) /\ Here(u) = j)
        <4> SUFFICES ASSUME NEW u \in Thread, Rebuilding(u), Here(u) = j PROVE FALSE
          OBVIOUS
        <4>1. calls[u].at \in Listing /\ calls[u].inst = j
          BY DEF Rebuilding, Here, Listing
        <4>2. calls'[u] = calls[u]
          BY <1>4, <2>2, <4>1 DEF Restart, Busy, Here, Listing
        <4> QED
          BY <4>1, <4>2 DEF Rebuilding, Here, Listing
      <3> QED
        BY <1>13, <2>2, <3>1 DEF SkillsInv, ToolsMatchPublic
    <2> QED
      BY <2>1, <2>2
  <1>19. SlugsUnique'
    BY <1>2, RestStays
  <1>20. SkillsTypes'
    BY <1>1, <1>2, <1>4, <1>6, <1>8, <1>10, <1>13 DEF NothingChanges, SkillsTypes, Existing, Bucket
  <1> QED
    BY <1>5, <1>7, <1>9, <1>11, <1>17, <1>18, <1>19, <1>20 DEF SkillsInv

LEMMA Ticked ==
  ASSUME SkillsInv, Tick
  PROVE  SkillsInv'
  <1>1. /\ now' = now + 1 /\ now < MaxTime /\ \A t \in Thread : Busy(t) => now - calls[t].since < Patience
        /\ UNCHANGED <<skills, drawn, client, rules, cache, permits, cards, tools, calls, past, rivals, synced>>
    BY DEF Tick, catalogue, policy, local, history
  <1>2. SkillsTypes /\ now \in Nat
    BY TheTime
  <1>3. \A x, v, a, d : Was(x, v, a, d)' <=> Was(x, v, a, d)
    BY <1>1 DEF Was, Value
  <1>4. SkillsTypes'
    <2>1. now' \in 0 .. MaxTime
      BY <1>1, <1>2, SkillBounds
    <2> QED
      BY <1>1, <1>2, <2>1 DEF SkillsTypes, Existing
  <1>5. \A u \in Thread : CallOK(calls[u])'
    <2> TAKE u \in Thread
    <2>1. PICK c : c = calls[u] /\ CallOK(c) /\ Placed(c) /\ Based(c) /\ Claimed(c) /\ Whole(c)
      BY AtWork
    <2>2. Placed(c)'
      <3>1. c.at \notin {"idle", "answer"} => now - c.since < Patience
        BY <1>1, <2>1 DEF Busy
      <3>2. c.since \in Nat /\ c.since <= now'
        BY <1>1, <1>2, <2>1 DEF Placed
      <3>3. c.at \notin {"idle", "answer"} => c.inst \in Instance /\ now' <= c.since + Patience
        BY <1>1, <1>2, <2>1, <3>1, SkillBounds DEF Placed
      <3> QED
        BY <2>1, <3>2, <3>3 DEF Placed
    <2>3. Based(c)'
      <3>1. c.at \in {"build", "keep"} => c.arg \in Nat /\ c.arg * TTL <= now'
        <4> SUFFICES ASSUME c.at \in {"build", "keep"} PROVE c.arg \in Nat /\ c.arg * TTL <= now'
          OBVIOUS
        <4>1. PICK n : n = c.arg * TTL
          OBVIOUS
        <4>2. c.arg \in Nat /\ n <= now /\ n \in Int
          BY <2>1, <4>1, SkillBounds DEF Based
        <4> QED
          BY <1>1, <1>2, <4>1, <4>2
      <3> QED
        BY <1>3, <2>1, <3>1 DEF Based
    <2>4. Claimed(c)'
      BY <1>1, <2>1 DEF Claimed, HoldsSlug, SlugFree, NameFree, Existing, Ahead
    <2>5. CallOK(c)'
      BY <2>1, <2>2, <2>3, <2>4 DEF CallOK, Whole
    <2> QED
      BY <1>1, <2>1, <2>5
  <1>6. CacheRecent'
    BY <1>1, <1>2, <1>3 DEF SkillsInv, CacheRecent, Existing
  <1>7. PermitsRecent'
    BY <1>1, <1>2, <1>3 DEF SkillsInv, PermitsRecent
  <1>8. CardsRecent'
    <2> SUFFICES ASSUME NEW j \in Instance, NEW k \in 0 .. Bucket(MaxTime), cards[j][k] # None
                 PROVE  /\ k * TTL <= now'
                        /\ \A b \in cards[j][k] : b[1] \in Things /\ Was(b[1], b[2], k * TTL, 0)
      BY <1>1, <1>3 DEF CardsRecent
    <2>1. PICK n : n = k * TTL
      OBVIOUS
    <2>2. n <= now /\ n \in Int /\ \A b \in cards[j][k] : b[1] \in Things /\ Was(b[1], b[2], n, 0)
      BY <2>1, SkillBounds DEF SkillsInv, CardsRecent
    <2> QED
      BY <1>1, <1>2, <2>1, <2>2
  <1>9. RebuildsAlone' /\ ToolsMatchPublic' /\ SlugsUnique'
    BY <1>1 DEF SkillsInv, RebuildsAlone, ToolsMatchPublic, SlugsUnique, Syncing, Rebuilding, Here, Public, Existing
  <1> QED
    BY <1>4, <1>5, <1>6, <1>7, <1>8, <1>9 DEF SkillsInv

-----------------------------------------------------------------------------
(* A request arrives.                                                      *)

\* What lists of skills are made of.
ToolsKnown == \A i \in Instance : tools[i] \subseteq SkillId

\* What a PUT, and a refresh of a template, set.
Edit == [slug : Slugs \union {None}, access : Accesses \union {None}]

\* What every request is at first.
Asks(c) ==
    /\ Whole(c) /\ c.inst \in Instance /\ c.since = now
    /\ c.rests = {} /\ c.got = None /\ c.again = FALSE /\ c.todo = <<>> /\ c.public = {}

\* What the routes make of a request: which skill it asks for, and what it is to write.
Routed(c) ==
    /\ Asks(c) /\ c.op # "templates"
    /\ c.at \in {"look", "query", "narrow", "card", "permit", "slug", "grant"}
    /\ c.op \in Loops \union {"recent"} => c.at \in {"grant", "narrow"}
    /\ c.at = "look" => c.id \in SkillId /\ (c.id <= drawn \/ \E i \in Instance : c.id \in tools[i])
    /\ c.at # "look" => c.id = 0
    /\ c.op = "fork" => \E a \in Authors : c.ctx.uid = a.uid
    /\ c.op = "put" => c.at = "look" /\ c.arg \in Edit
    /\ c.at = "slug" => c.arg \in Skill /\ c.arg.owner # Platform /\ c.arg.slug \in Slugs

LEMMA Requested ==
  ASSUME NEW op, NEW place, NEW i \in Instance, NEW ctx, NEW c, c = Request(op, place, i, ctx)
  PROVE  Asks(c) /\ c.op = op /\ c.at = place /\ c.ctx = ctx /\ c.id = 0
  <1>1. PICK half : half = [Idle EXCEPT !.op = op, !.at = place, !.inst = i]
    OBVIOUS
  <1>2. c = [half EXCEPT !.ctx = ctx, !.since = now]
    BY <1>1 DEF Request
  <1>3. /\ Whole(half) /\ half.op = op /\ half.at = place /\ half.inst = i /\ half.rests = {} /\ half.got = None
        /\ half.again = FALSE /\ half.todo = <<>> /\ half.public = {} /\ half.id = 0
    BY <1>1 DEF Idle, Whole, Fields
  <1> QED
    BY <1>2, <1>3 DEF Asks, Whole, Fields

LEMMA LooksUp ==
  ASSUME NEW q, Asks(q), NEW s, NEW c, c = Looks(q, s)
  PROVE  Asks(c) /\ c.op = q.op /\ c.ctx = q.ctx /\ c.at = "look" /\ c.id = s
  BY DEF Looks, Asks, Whole, Fields

LEMMA Gives ==
  ASSUME NEW q, Asks(q), NEW arg, NEW c, c = [q EXCEPT !.arg = arg]
  PROVE  Asks(c) /\ c.op = q.op /\ c.ctx = q.ctx /\ c.at = q.at /\ c.id = q.id /\ c.arg = arg
  BY DEF Asks, Whole, Fields

\* An author is not the platform.
LEMMA AuthorsAre ==
  ASSUME NEW a \in Authors
  PROVE  a.uid # Platform /\ Caller(a).uid = a.uid
  <1>1. a \in [uid : STRING \ {Platform}, email : STRING, domain : STRING, tags : SUBSET STRING]
    BY CatalogueAssumption
  <1> QED
    BY <1>1 DEF Caller, Context

LEMMA Received ==
  ASSUME SkillsInv, NEW t \in Thread, NEW c, Receives(t, c), Routed(c)
  PROVE  SkillsInv'
  <1>1. Goes(t, c) /\ calls[t].at \notin Listing /\ UNCHANGED <<now, catalogue, policy, local, history>>
    BY DEF Receives, Busy, Listing
  <1>2. now \in Nat
    BY TheTime
  <1>3. Placed(c)
    <2>1. now <= now + Patience
      BY <1>2, SkillBounds
    <2> QED
      BY <1>2, <2>1 DEF Placed, Routed, Asks, Looking, Writing, Listing, Blank, Loops
  <1>4. Based(c)
    BY DEF Based, Routed, Asks
  <1>5. Claimed(c)
    <2>1. c.op = "fork" => c.ctx.uid # Platform
      BY AuthorsAre DEF Routed
    <2>2. ASSUME c.at = "slug" PROVE WholeSkill(c.arg) /\ \E b : \E n \in Nat \ {0} : c.arg.slug = <<b, n>>
      BY <2>2 DEF Routed, Skill, WholeSkill, Slugs
    <2> QED
      BY <2>1, <2>2 DEF Claimed, Routed, Asks, Looking
  <1> QED
    BY <1>1, <1>3, <1>4, <1>5, Quiet DEF CallOK, Routed, Asks

LEMMA Known == ASSUME SkillsInv PROVE \A s \in 1 .. drawn : s \in SkillId /\ s <= drawn
  BY SkillBounds DEF SkillsInv, SkillsTypes, SkillId

Plain == {<<"list", "query">>, <<"market", "query">>, <<"me", "narrow">>, <<"recent", "narrow">>,
          <<"card", "card">>, <<"may", "permit">>, <<"seed", "grant">>}

LEMMA PlainRouted ==
  ASSUME NEW i \in Instance, NEW ctx, NEW op, NEW place, <<op, place>> \in Plain
  PROVE  Routed(Request(op, place, i, ctx))
  <1>1. PICK c : c = Request(op, place, i, ctx)
    OBVIOUS
  <1>2. Asks(c) /\ c.op = op /\ c.at = place /\ c.id = 0
    BY <1>1, Requested
  <1>3. /\ op \notin {"templates", "fork", "put"} /\ place \in {"query", "narrow", "card", "permit", "grant"}
        /\ op \in Loops \union {"recent"} => place \in {"grant", "narrow"}
    BY DEF Plain, Loops
  <1> QED
    BY <1>1, <1>2, <1>3 DEF Routed

LEMMA LookUpRouted ==
  ASSUME NEW i \in Instance, NEW ctx, NEW op \in {"get", "tool", "delete", "fork"},
         NEW s \in SkillId, s <= drawn \/ \E j \in Instance : s \in tools[j],
         op = "fork" => \E a \in Authors : ctx.uid = a.uid
  PROVE  Routed(Looks(Request(op, "look", i, ctx), s))
  <1>1. PICK q, c : q = Request(op, "look", i, ctx) /\ c = Looks(q, s)
    OBVIOUS
  <1>2. Asks(q) /\ q.op = op /\ q.ctx = ctx
    BY <1>1, Requested
  <1>3. Asks(c) /\ c.op = op /\ c.ctx = ctx /\ c.at = "look" /\ c.id = s
    BY <1>1, <1>2, LooksUp
  <1> QED
    BY <1>1, <1>3 DEF Routed, Loops

LEMMA PutRouted ==
  ASSUME SkillsInv, NEW t \in Thread, Put(t)
  PROVE  \E c : Receives(t, c) /\ Routed(c)
  <1>1. PICK i \in Instance, a \in Authors, s \in 1 .. drawn, edit \in Edits :
           Receives(t, [Looks(Request("put", "look", i, Caller(a)), s) EXCEPT !.arg = edit])
    BY DEF Put
  <1>2. PICK ctx : ctx = Caller(a)
    OBVIOUS
  <1>3. PICK q, l : q = Request("put", "look", i, ctx) /\ l = Looks(q, s)
    OBVIOUS
  <1>4. PICK c : c = [l EXCEPT !.arg = edit]
    OBVIOUS
  <1>5. Asks(q) /\ q.op = "put"
    BY <1>3, Requested
  <1>6. Asks(l) /\ l.op = "put" /\ l.at = "look" /\ l.id = s
    BY <1>3, <1>5, LooksUp
  <1>7. Asks(c) /\ c.op = "put" /\ c.at = "look" /\ c.id = s /\ c.arg = edit
    BY <1>4, <1>6, Gives
  <1>8. Receives(t, c) /\ s \in SkillId /\ s <= drawn
    BY <1>1, <1>2, <1>3, <1>4, Known
  <1>9. edit \in Edit
    BY ContentsAssumption DEF Edit
  <1> QED
    BY <1>7, <1>8, <1>9 DEF Routed, Loops

LEMMA PostRouted ==
  ASSUME NEW t \in Thread, Post(t)
  PROVE  \E c : Receives(t, c) /\ Routed(c)
  <1>1. PICK i \in Instance, a \in Authors, post \in Posts :
           Receives(t, [Request("post", "slug", i, Caller(a)) EXCEPT
              !.arg = [owner |-> a.uid, name |-> post.name, slug |-> <<post.name, 1>>, access |-> post.access]])
    BY DEF Post
  <1>2. PICK ctx, new : /\ ctx = Caller(a)
                        /\ new = [owner |-> a.uid, name |-> post.name, slug |-> <<post.name, 1>>, access |-> post.access]
    OBVIOUS
  <1>3. PICK q : q = Request("post", "slug", i, ctx)
    OBVIOUS
  <1>4. PICK c : c = [q EXCEPT !.arg = new]
    OBVIOUS
  <1>5. Asks(q) /\ q.op = "post" /\ q.at = "slug" /\ q.id = 0
    BY <1>3, Requested
  <1>6. Asks(c) /\ c.op = "post" /\ c.at = "slug" /\ c.arg = new /\ c.id = 0
    BY <1>4, <1>5, Gives
  <1>7. Receives(t, c)
    BY <1>1, <1>2, <1>3, <1>4
  <1>8. new \in Skill /\ new.owner # Platform /\ new.slug \in Slugs
    <2>1. post \in [name : Bases, access : Accesses]
      BY ContentsAssumption
    <2>2. <<post.name, 1>> \in Slugs
      BY <2>1 DEF Slugs
    <2>3. a.uid \in Owners
      BY DEF Owners
    <2> QED
      BY <1>2, <2>1, <2>2, <2>3, AuthorsAre DEF Skill
  <1> QED
    BY <1>6, <1>7, <1>8 DEF Routed, Loops

LEMMA SlugRouted ==
  ASSUME NEW t \in Thread, GetBySlug(t)
  PROVE  \E c : Receives(t, c) /\ Routed(c)
  <1>1. PICK i \in Instance, user \in Readers, a \in Authors, slug \in Bases \X (1 .. MaxSkills) :
           Receives(t, [Request("find", "query", i, Caller(user)) EXCEPT !.arg = [owner |-> a.uid, slug |-> slug]])
    BY DEF GetBySlug
  <1>2. PICK ctx, wanted : ctx = Caller(user) /\ wanted = [owner |-> a.uid, slug |-> slug]
    OBVIOUS
  <1>3. PICK q : q = Request("find", "query", i, ctx)
    OBVIOUS
  <1>4. PICK c : c = [q EXCEPT !.arg = wanted]
    OBVIOUS
  <1>5. Asks(q) /\ q.op = "find" /\ q.at = "query" /\ q.id = 0
    BY <1>3, Requested
  <1>6. Asks(c) /\ c.op = "find" /\ c.at = "query" /\ c.id = 0
    BY <1>4, <1>5, Gives
  <1>7. Receives(t, c)
    BY <1>1, <1>2, <1>3, <1>4
  <1> QED
    BY <1>6, <1>7 DEF Routed, Loops

LEMMA RequestRouted ==
  ASSUME SkillsInv, ToolsKnown, NEW t \in Thread, Receive(t)
  PROVE  \E c : Receives(t, c) /\ Routed(c)
  <1>1. ASSUME NEW op, NEW place, NEW i \in Instance, NEW ctx, <<op, place>> \in Plain,
               Receives(t, Request(op, place, i, ctx))
        PROVE  \E c : Receives(t, c) /\ Routed(c)
    BY <1>1, PlainRouted
  <1>2. /\ <<"list", "query">> \in Plain /\ <<"market", "query">> \in Plain /\ <<"me", "narrow">> \in Plain
        /\ <<"recent", "narrow">> \in Plain /\ <<"card", "card">> \in Plain /\ <<"may", "permit">> \in Plain
        /\ <<"seed", "grant">> \in Plain
    BY DEF Plain
  <1>3. CASE List(t)
    BY <1>1, <1>2, <1>3 DEF List
  <1>4. CASE Marketplace(t)
    BY <1>1, <1>2, <1>4 DEF Marketplace
  <1>5. CASE MyClient(t)
    BY <1>1, <1>2, <1>5 DEF MyClient
  <1>6. CASE Recent(t)
    BY <1>1, <1>2, <1>6 DEF Recent
  <1>7. CASE AgentCard(t)
    BY <1>1, <1>2, <1>7 DEF AgentCard
  <1>8. CASE CanUseTool(t)
    BY <1>1, <1>2, <1>8 DEF CanUseTool
  <1>9. CASE Seed(t)
    BY <1>1, <1>2, <1>9 DEF Seed
  <1>10. CASE Get(t)
    <2>1. PICK i \in Instance, user \in Readers, s \in 1 .. drawn :
             Receives(t, Looks(Request("get", "look", i, Caller(user)), s))
      BY <1>10 DEF Get
    <2>2. s \in SkillId /\ s <= drawn
      BY Known
    <2> QED
      BY <2>1, <2>2, LookUpRouted
  <1>11. CASE UseTool(t)
    <2>1. PICK i \in Instance : \E s \in tools[i] : Receives(t, Looks(Request("tool", "look", i, McpCaller), s))
      BY <1>11 DEF UseTool
    <2>2. PICK s \in tools[i] : Receives(t, Looks(Request("tool", "look", i, McpCaller), s))
      BY <2>1
    <2>3. s \in SkillId
      BY <2>2 DEF ToolsKnown
    <2> QED
      BY <2>2, <2>3, LookUpRouted
  <1>12. CASE Delete(t)
    <2>1. PICK i \in Instance, a \in Authors, s \in 1 .. drawn :
             Receives(t, Looks(Request("delete", "look", i, Caller(a)), s))
      BY <1>12 DEF Delete
    <2>2. s \in SkillId /\ s <= drawn
      BY Known
    <2> QED
      BY <2>1, <2>2, LookUpRouted
  <1>13. CASE Fork(t)
    <2>1. PICK i \in Instance, a \in Authors, s \in 1 .. drawn :
             Receives(t, Looks(Request("fork", "look", i, Caller(a)), s))
      BY <1>13 DEF Fork
    <2>2. s \in SkillId /\ s <= drawn /\ Caller(a).uid = a.uid
      BY Known, AuthorsAre
    <2> QED
      BY <2>1, <2>2, LookUpRouted
  <1> QED
    BY <1>3, <1>4, <1>5, <1>6, <1>7, <1>8, <1>9, <1>10, <1>11, <1>12, <1>13, PutRouted, PostRouted, SlugRouted
       DEF Receive

LEMMA RequestReceived ==
  ASSUME SkillsInv, ToolsKnown, NEW t \in Thread, Receive(t)
  PROVE  SkillsInv'
  BY RequestRouted, Received

-----------------------------------------------------------------------------
(* The invariant.                                                          *)

LEMMA SkillsInitially == SkillsInit => SkillsInv /\ ToolsKnown
  <1> SUFFICES ASSUME SkillsInit PROVE SkillsInv /\ ToolsKnown
    OBVIOUS
  <1>1. /\ now = 0 /\ drawn = Len(InitialSkills) /\ rivals = {}
        /\ skills = [s \in SkillId |-> IF s \in DOMAIN InitialSkills THEN InitialSkills[s] ELSE None]
        /\ rules = [level \in Levels |-> None]
        /\ cache = [i \in Instance |-> [s \in SkillId |-> None]]
        /\ permits = [i \in Instance |-> None]
        /\ cards = [i \in Instance |-> [b \in 0 .. Bucket(MaxTime) |-> None]]
        /\ tools = [i \in Instance |-> Public] /\ synced = [i \in Instance |-> TRUE]
        /\ calls = [t \in Thread |-> Idle] /\ past = [x \in Things |-> {}]
    BY DEF SkillsInit
  <1>2. /\ DOMAIN InitialSkills = 1 .. Len(InitialSkills) /\ Len(InitialSkills) \in 0 .. MaxSkills
        /\ \A s \in DOMAIN InitialSkills : InitialSkills[s] \in Skill
    BY CatalogueAssumption, SkillBounds
  <1>3. \A s \in Existing : s \in DOMAIN InitialSkills /\ skills[s] = InitialSkills[s]
    BY <1>1 DEF Existing
  <1>4. \A skill \in Skill : WholeSkill(skill)
    BY DEF Skill, WholeSkill
  <1>5. SkillsTypes
    <2>1. now \in 0 .. MaxTime /\ drawn \in 0 .. MaxSkills
      BY <1>1, <1>2, SkillBounds
    <2>2. \A s \in Existing : s <= drawn /\ WholeSkill(skills[s])
      <3> TAKE s \in Existing
      <3>1. PICK skill : skill = InitialSkills[s]
        OBVIOUS
      <3>2. skill \in Skill /\ skills[s] = skill /\ s \in 1 .. Len(InitialSkills)
        BY <1>2, <1>3, <3>1
      <3>3. WholeSkill(skill)
        BY <1>4, <3>2
      <3> QED
        BY <1>1, <1>2, <3>2, <3>3
    <2>3. cards = [i \in Instance |-> [b \in 0 .. Bucket(MaxTime) |-> cards[i][b]]]
      BY <1>1
    <2>4. cache = [i \in Instance |-> [s \in SkillId |-> cache[i][s]]]
      BY <1>1
    <2> QED
      BY <1>1, <2>1, <2>2, <2>3, <2>4 DEF SkillsTypes
  <1>6. \A t \in Thread : CallOK(calls[t])
    BY <1>1, <1>5, IdleOK
  <1>7. CacheRecent /\ PermitsRecent /\ CardsRecent
    BY <1>1 DEF CacheRecent, PermitsRecent, CardsRecent
  <1>8. RebuildsAlone /\ ToolsMatchPublic
    <2>1. \A t \in Thread : calls[t].at = "idle"
      BY <1>1 DEF Idle
    <2> QED
      BY <1>1, <2>1 DEF RebuildsAlone, ToolsMatchPublic
  <1>9. SlugsUnique
    BY <1>3, CatalogueAssumption DEF SlugsUnique
  <1>10. ToolsKnown
    BY <1>1 DEF ToolsKnown, Public, Existing
  <1> QED
    BY <1>5, <1>6, <1>7, <1>8, <1>9, <1>10 DEF SkillsInv

LEMMA StepKeeps ==
  ASSUME SkillsInv, NEW t \in Thread, Step(t)
  PROVE  SkillsInv'
  <1>1. CASE \/ Look(t) \/ Evict(t) \/ Read(t) \/ Fill(t) \/ FindBySlug(t)
             \/ Invalidate(t) \/ QueryPublic(t) \/ SkipRebuild(t) \/ DropTool(t) \/ AddTools(t) \/ Reread(t)
    BY <1>1, Looked, Evicted, DocumentRead, Filling, SlugFound, Invalidated, PublicQueried, RebuildSkipped,
       ToolDropped, ToolsAdded, DocumentReread
  <1>2. CASE \/ Serve(t) \/ Query(t) \/ Narrow(t) \/ Default(t) \/ Resume(t) \/ Hit(t) \/ Build(t) \/ Keep(t)
             \/ Permit(t) \/ ReadRule(t) \/ Decide(t)
    BY <1>2, Served, Queried, Narrowed, Defaulted, Resumed, CardHit, CardBuilt, CardKept, Permitted, RuleRead,
       Decided
  <1>3. CASE \/ FindSlug(t) \/ Create(t) \/ Gate(t) \/ CheckSlug(t) \/ Update(t) \/ Erase(t)
             \/ GrantWildcard(t) \/ ListPrevious(t) \/ ListExisting(t) \/ NextPurge(t) \/ NextTemplate(t)
             \/ Fails(t)
    BY <1>3, SlugLookedUp, Created, Gated, SlugChecked, Updated, Erased, WildcardGranted, PreviousListed,
       ExistingListed, PurgeNext, TemplateNext, CallFailed
  <1> QED
    BY <1>1, <1>2, <1>3 DEF Step

LEMMA StepKnown ==
  ASSUME SkillsInv, ToolsKnown, NEW t \in Thread, Step(t)
  PROVE  ToolsKnown'
  <1>1. CASE UNCHANGED tools
    BY <1>1 DEF ToolsKnown
  <1>2. CASE DropTool(t) \/ AddTools(t)
    <2>1. PICK q : q = calls[t] /\ Placed(q) /\ SkillsTypes /\ q.at = "sync" /\ q.inst \in Instance
      BY <1>2, AtWork DEF DropTool, AddTools
    <2>2. q.public \subseteq SkillId
      BY <2>1 DEF Placed
    <2>3. PICK listed : /\ tools' = [tools EXCEPT ![q.inst] = listed] \/ UNCHANGED tools
                        /\ listed \subseteq tools[q.inst] \union q.public
      BY <1>2, <2>1 DEF DropTool, AddTools
    <2>4. \A i \in Instance : tools'[i] = tools[i] \/ (i = q.inst /\ tools'[i] = listed)
      BY <2>1, <2>3 DEF SkillsTypes
    <2> QED
      BY <2>2, <2>3, <2>4 DEF ToolsKnown
  <1>3. ASSUME \/ Look(t) \/ Evict(t) \/ Read(t) \/ Fill(t) \/ FindBySlug(t)
               \/ Invalidate(t) \/ QueryPublic(t) \/ SkipRebuild(t) \/ Reread(t)
        PROVE  UNCHANGED tools
    BY <1>3 DEF Look, Evict, Read, Fill, FindBySlug, Invalidate, QueryPublic, SkipRebuild, Reread, OnlyCalls, local
  <1>4. ASSUME \/ Serve(t) \/ Query(t) \/ Narrow(t) \/ Default(t) \/ Resume(t) \/ Hit(t) \/ Build(t) \/ Keep(t)
               \/ Permit(t) \/ ReadRule(t) \/ Decide(t)
        PROVE  UNCHANGED tools
    BY <1>4 DEF Serve, Query, Narrow, Default, Resume, Hit, Build, Keep, Permit, ReadRule, Decide, OnlyCalls, local
  <1>5. ASSUME \/ FindSlug(t) \/ Create(t) \/ Gate(t) \/ CheckSlug(t) \/ Update(t) \/ Erase(t)
               \/ GrantWildcard(t) \/ ListPrevious(t) \/ ListExisting(t) \/ NextPurge(t) \/ NextTemplate(t)
               \/ Fails(t)
        PROVE  UNCHANGED tools
    BY <1>5 DEF FindSlug, Create, Gate, CheckSlug, Update, Erase, GrantWildcard, ListPrevious, ListExisting,
                NextPurge, NextTemplate, Fails, OnlyCalls, local
  <1> QED
    BY <1>1, <1>2, <1>3, <1>4, <1>5 DEF Step

LEMMA RestartKnown ==
  ASSUME SkillsInv, ToolsKnown, NEW i \in Instance, Restart(i)
  PROVE  ToolsKnown'
  <1>1. PICK listed : tools' = [tools EXCEPT ![i] = listed] /\ listed \subseteq Public
    BY DEF Restart
  <1>2. \A j \in Instance : tools'[j] = tools[j] \/ tools'[j] = listed
    BY <1>1, TheTime DEF SkillsTypes
  <1> QED
    BY <1>1, <1>2 DEF ToolsKnown, Public, Existing

LEMMA SkillsStep == ASSUME SkillsInv, ToolsKnown, SkillsNext PROVE SkillsInv' /\ ToolsKnown'
  <1>1. ASSUME NEW t \in Thread, Receive(t) PROVE SkillsInv' /\ ToolsKnown'
    <2>1. UNCHANGED tools
      BY <1>1 DEF Receive, Receives, local, Get, GetBySlug, UseTool, List, Marketplace, MyClient, Recent,
                  AgentCard, CanUseTool, Post, Put, Delete, Fork, Seed
    <2> QED
      BY <1>1, <2>1, RequestReceived DEF ToolsKnown
  <1>2. ASSUME NEW t \in Thread, Step(t) PROVE SkillsInv' /\ ToolsKnown'
    BY <1>2, StepKeeps, StepKnown
  <1>3. ASSUME NEW i \in Instance, Restart(i) PROVE SkillsInv' /\ ToolsKnown'
    BY <1>3, Restarted, RestartKnown
  <1>4. CASE EditClient \/ EditRule \/ Tick
    <2>1. UNCHANGED tools
      BY <1>4 DEF EditClient, EditRule, Tick, local
    <2> QED
      BY <1>4, <2>1, ClientEdited, RuleEdited, Ticked DEF ToolsKnown
  <1> QED
    BY <1>1, <1>2, <1>3, <1>4 DEF SkillsNext

LEMMA SkillsRests ==
  ASSUME SkillsInv, ToolsKnown, UNCHANGED skillsVars
  PROVE  SkillsInv' /\ ToolsKnown'
  <1>1. NothingChanges /\ UNCHANGED <<cache, permits, cards, tools, calls, synced>>
    BY DEF skillsVars, catalogue, policy, local, history, NothingChanges
  <1>2. \A u \in Thread : CallOK(calls[u])'
    <2> TAKE u \in Thread
    <2>1. PICK c : c = calls[u] /\ CallOK(c)
      BY AtWork
    <2>2. CallOK(c)'
      BY <1>1, <2>1, StaysOK
    <2> QED
      BY <1>1, <2>1, <2>2
  <1>3. calls' = [u \in Thread |-> calls'[u]]
    BY <1>1, TheTime DEF SkillsTypes
  <1>4. SkillsTypes' /\ CacheRecent' /\ PermitsRecent' /\ CardsRecent' /\ SlugsUnique'
    BY <1>1, <1>3, RestStays
  <1>5. RebuildsAlone' /\ ToolsMatchPublic'
    BY <1>1 DEF NothingChanges, SkillsInv, RebuildsAlone, ToolsMatchPublic, Syncing, Rebuilding, Here, Public,
                Existing
  <1> QED
    BY <1>1, <1>2, <1>4, <1>5 DEF SkillsInv, ToolsKnown

LEMMA SkillsAlways == Spec => [](SkillsInv /\ ToolsKnown)
  <1>1. Init => SkillsInv /\ ToolsKnown
    BY SkillsInitially DEF Init
  <1>2. SkillsInv /\ ToolsKnown /\ [Next]_vars => (SkillsInv /\ ToolsKnown)'
    <2> SUFFICES ASSUME SkillsInv, ToolsKnown, [Next]_vars PROVE SkillsInv' /\ ToolsKnown'
      OBVIOUS
    <2>1. SkillsNext \/ UNCHANGED skillsVars
      BY DEF Next, vars
    <2> QED
      BY <2>1, SkillsStep, SkillsRests
  <1> QED
    BY <1>1, <1>2, PTL DEF Spec

-----------------------------------------------------------------------------
(* What it is for.                                                         *)

\* What an answer goes by was so, of each skill, rule or record, until less than the life of
\* a cached answer and the time a request takes before the request began: the caches of
\* skill_config, permissions and a2a on every instance, filled late, evicted twice,
\* invalidated here and not there, never make it older.
THEOREM AnswersTheorem == Spec => []AnswersAreRecent
  <1>1. SkillsInv => AnswersAreRecent
    <2> SUFFICES ASSUME SkillsInv, NEW t \in Thread, calls[t].at = "answer", NEW b \in calls[t].rests
                 PROVE  Recently(b[1], b[2], calls[t].since)
      BY DEF AnswersAreRecent
    <2>1. PICK c : c = calls[t] /\ Based(c) /\ c.since \in Nat /\ SkillsTypes
      BY AtWork
    <2>2. b[1] \in Things /\ Was(b[1], b[2], c.since, Lag(b[1]))
      BY <2>1 DEF Based
    <2> QED
      BY <2>1, <2>2, RecentlyIs
  <1> QED
    BY <1>1, SkillsAlways, PTL

\* rebuild_tools: once an instance's last rebuild was of the present catalogue and
\* overlapped none, its MCP tools are the public skills, whatever rebuilds failed, removed
\* each other's tools or restarted before.
THEOREM ToolsTheorem == Spec => []ToolsMatchPublic
  <1>1. SkillsInv => ToolsMatchPublic
    BY DEF SkillsInv
  <1> QED
    BY <1>1, SkillsAlways, PTL

\* unique_slug, PUT's check and the seed's list of names look first and write later: two
\* skills of an owner with one slug, or two of the platform's with one name, were both being
\* claimed at once.
THEOREM SlugsTheorem == Spec => []SlugsUnique
  <1>1. SkillsInv => SlugsUnique
    BY DEF SkillsInv
  <1> QED
    BY <1>1, SkillsAlways, PTL

\* Slugs, platform skills, default folders and corpora: one each, but for requests that
\* were making the same at once.
THEOREM NoDuplicatesTheorem == Spec => []NoDuplicates
  BY SlugsTheorem, MadeOnceTheorem, PTL DEF NoDuplicates
-----------------------------------------------------------------------------
(* Lists of sessions.  A list newest first is sorted by its rows' times,   *)
(* which no two rows share.                                                *)

LEMMA PagesBounds == MaxRows \in Nat /\ PageSize \in Nat \ {0} /\ MaxClock \in Nat
  BY PagesAssumption DEF MaxClock

\* No two rows of the set S are as new.
ToldApart(S) ==
    /\ S \subseteq RowId
    /\ \A r \in S : last[r] \in Nat
    /\ \A r, q \in S : last[r] = last[q] => r = q

\* A sequence of rows, each older than those before it.
Descends(seq) == \A j, k \in DOMAIN seq : j < k => last[seq[j]] > last[seq[k]]

LEMMA RowsFinite == ASSUME NEW S, S \subseteq RowId PROVE IsFiniteSet(S) /\ Cardinality(S) \in Nat
  <1>1. IsFiniteSet(RowId)
    BY PagesBounds, FS_Interval DEF RowId
  <1>2. IsFiniteSet(S)
    BY <1>1, FS_Subset
  <1> QED
    BY <1>2, FS_CardinalityType

\* The rows of S newer than r: fewer, the newer r is.
Newer(S, r) == {q \in S : last[q] > last[r]}

LEMMA NewerRows ==
  ASSUME NEW S, ToldApart(S), NEW r \in S, NEW s \in S
  PROVE  /\ Cardinality(Newer(S, r)) \in 0 .. Cardinality(S) - 1
         /\ last[s] < last[r] => Cardinality(Newer(S, r)) < Cardinality(Newer(S, s))
  <1>1. IsFiniteSet(S) /\ Cardinality(S) \in Nat /\ Newer(S, r) \subseteq S /\ Newer(S, s) \subseteq S
    BY RowsFinite DEF ToldApart, Newer
  <1>2. /\ IsFiniteSet(Newer(S, r)) /\ Cardinality(Newer(S, r)) \in Nat
        /\ IsFiniteSet(Newer(S, s)) /\ Cardinality(Newer(S, s)) \in Nat
    BY <1>1, RowsFinite DEF ToldApart
  <1>3. Cardinality(Newer(S, r)) <= Cardinality(S) /\ Cardinality(Newer(S, r)) # Cardinality(S)
    <2>1. r \notin Newer(S, r)
      BY DEF Newer, ToldApart
    <2> QED
      BY <1>1, <2>1, FS_Subset
  <1>4. ASSUME last[s] < last[r] PROVE Cardinality(Newer(S, r)) < Cardinality(Newer(S, s))
    <2>1. r \in Newer(S, s) /\ r \notin Newer(S, r)
      BY <1>4 DEF Newer, ToldApart
    <2>2. Newer(S, r) \subseteq Newer(S, s)
      BY <1>4 DEF Newer, ToldApart
    <2>3. /\ Cardinality(Newer(S, r)) <= Cardinality(Newer(S, s))
          /\ Cardinality(Newer(S, r)) # Cardinality(Newer(S, s))
      BY <1>2, <2>1, <2>2, FS_Subset
    <2> QED
      BY <1>2, <2>3
  <1> QED
    BY <1>1, <1>2, <1>3, <1>4

\* Each place of the list has a row, and one only.
LEMMA EveryPlace ==
  ASSUME NEW S, ToldApart(S), NEW k \in 1 .. Cardinality(S)
  PROVE  \E r \in S : Cardinality(Newer(S, r)) = k - 1
  <1> DEFINE n == Cardinality(S)
             f == [r \in S |-> Cardinality(Newer(S, r))]
  <1>1. IsFiniteSet(S) /\ n \in Nat
    BY RowsFinite DEF ToldApart
  <1>2. f \in [S -> 0 .. n - 1]
    BY NewerRows
  <1>3. ASSUME NEW r \in S, NEW s \in S, f[r] = f[s] PROVE r = s
    <2>1. last[r] \in Nat /\ last[s] \in Nat
      BY DEF ToldApart
    <2>2. ~(last[s] < last[r]) /\ ~(last[r] < last[s])
      <3>1. f[r] \in 0 .. n - 1 /\ f[s] \in 0 .. n - 1
        BY <1>2
      <3>2. (last[s] < last[r] => f[r] < f[s]) /\ (last[r] < last[s] => f[s] < f[r])
        BY NewerRows
      <3> HIDE DEF f
      <3> QED
        BY <1>1, <1>3, <3>1, <3>2
    <2>3. last[r] = last[s]
      BY <2>1, <2>2
    <2> QED
      BY <2>3 DEF ToldApart
  <1>4. f \in Injection(S, 0 .. n - 1)
    BY <1>2, <1>3 DEF Injection, IsInjective
  <1>5. IsFiniteSet(0 .. n - 1) /\ Cardinality(0 .. n - 1) = n
    <2> HIDE DEF n
    <2>1. 0 \in Int /\ n - 1 \in Int /\ (0 > n - 1 => n = 0) /\ (n - 1) - 0 + 1 = n
      BY <1>1
    <2> QED
      BY <2>1, FS_Interval
  <1>6. f \in Surjection(S, 0 .. n - 1)
    BY <1>4, <1>5, FS_Injection
  <1>7. k - 1 \in 0 .. n - 1
    BY <1>1
  <1>8. PICK r \in S : f[r] = k - 1
    BY <1>6, <1>7 DEF Surjection
  <1> QED
    BY <1>8

LEMMA Ordered ==
  ASSUME NEW S, ToldApart(S)
  PROVE  /\ NewestFirst(S) \in [1 .. Cardinality(S) -> S]
         /\ NewestFirst(S) \in Seq(S) /\ Len(NewestFirst(S)) = Cardinality(S)
         /\ \A r \in S : \E k \in 1 .. Cardinality(S) : NewestFirst(S)[k] = r
         /\ Descends(NewestFirst(S))
  <1> DEFINE n == Cardinality(S)
             seq == NewestFirst(S)
  <1>1. n \in Nat /\ \A r \in S : last[r] \in Nat
    BY RowsFinite DEF ToldApart
  <1>2. seq = [k \in 1 .. n |-> CHOOSE r \in S : Cardinality(Newer(S, r)) = k - 1]
    BY DEF NewestFirst, Newer
  <1>3. \A k \in 1 .. n : seq[k] \in S /\ Cardinality(Newer(S, seq[k])) = k - 1
    <2> TAKE k \in 1 .. n
    <2>1. \E r \in S : Cardinality(Newer(S, r)) = k - 1
      BY EveryPlace
    <2>2. seq[k] = CHOOSE r \in S : Cardinality(Newer(S, r)) = k - 1
      BY <1>2
    <2> HIDE DEF seq
    <2> QED
      BY <2>1, <2>2
  <1>4. seq \in [1 .. n -> S]
    <2> HIDE DEF seq
    <2> QED
      BY <1>2, <1>3
  <1>5. seq \in Seq(S) /\ Len(seq) = n
    BY <1>1, <1>4
  <1>6. ASSUME NEW j \in 1 .. n, NEW k \in 1 .. n, last[seq[j]] <= last[seq[k]]
        PROVE  k <= j
    <2>1. seq[j] \in S /\ seq[k] \in S /\ last[seq[j]] \in Nat /\ last[seq[k]] \in Nat
      BY <1>1, <1>3
    <2>2. CASE last[seq[j]] < last[seq[k]]
      <3>1. Cardinality(Newer(S, seq[k])) < Cardinality(Newer(S, seq[j]))
        BY <2>1, <2>2, NewerRows
      <3> QED
        BY <1>1, <1>3, <3>1
    <2>3. CASE last[seq[j]] = last[seq[k]]
      <3>1. seq[j] = seq[k]
        BY <2>1, <2>3 DEF ToldApart
      <3>2. j - 1 = k - 1
        BY <1>3, <3>1
      <3> QED
        BY <1>1, <3>2
    <2> QED
      BY <1>6, <2>1, <2>2, <2>3
  <1>7. Descends(seq)
    <2> SUFFICES ASSUME NEW j \in 1 .. n, NEW k \in 1 .. n, j < k PROVE last[seq[j]] > last[seq[k]]
      BY <1>4 DEF Descends
    <2>1. last[seq[j]] \in Nat /\ last[seq[k]] \in Nat
      BY <1>1, <1>3
    <2> HIDE DEF seq
    <2> QED
      BY <1>1, <1>6, <2>1
  <1>8. ASSUME NEW r \in S PROVE \E k \in 1 .. n : seq[k] = r
    <2> DEFINE k == Cardinality(Newer(S, r)) + 1
    <2>1. k \in 1 .. n /\ k - 1 = Cardinality(Newer(S, r))
      BY <1>1, NewerRows
    <2>2. seq[k] \in S /\ Cardinality(Newer(S, seq[k])) = Cardinality(Newer(S, r))
      BY <1>3, <2>1
    <2>3. last[seq[k]] \in Nat /\ last[r] \in Nat
      BY <1>1, <2>2
    <2>4. Cardinality(Newer(S, r)) \in Int
      BY <1>1, NewerRows
    <2>5. last[seq[k]] = last[r]
      <3>1. /\ last[seq[k]] < last[r] => Cardinality(Newer(S, r)) < Cardinality(Newer(S, seq[k]))
            /\ last[r] < last[seq[k]] => Cardinality(Newer(S, seq[k])) < Cardinality(Newer(S, r))
        BY <2>2, NewerRows
      <3> HIDE DEF k, seq
      <3> QED
        BY <2>2, <2>3, <2>4, <3>1
    <2>6. seq[k] = r
      BY <2>2, <2>5 DEF ToldApart
    <2> QED
      BY <2>1, <2>6
  <1> HIDE DEF seq
  <1>9. seq \in [1 .. n -> S] /\ seq \in Seq(S) /\ Len(seq) = n
        /\ (\A r \in S : \E k \in 1 .. n : seq[k] = r) /\ Descends(seq)
    BY <1>4, <1>5, <1>7, <1>8
  <1> QED
    BY <1>9 DEF seq

\* A cut of the list has the newest of it.
LEMMA Cut ==
  ASSUME NEW S, ToldApart(S), NEW m \in Nat, NEW cut, cut = Prefix(NewestFirst(S), m)
  PROVE  /\ cut \in Seq(S) /\ Len(cut) \in Nat /\ DOMAIN cut = 1 .. Len(cut)
         /\ \A k \in 1 .. Len(cut) : cut[k] \in S
         /\ Len(cut) <= m /\ Descends(cut)
         /\ \A r \in S : \/ r \in Range(cut)
                         \/ Len(cut) = m /\ \A k \in 1 .. Len(cut) : last[r] < last[cut[k]]
  <1> DEFINE n == Cardinality(S)
             seq == NewestFirst(S)
             l == IF m < Len(seq) THEN m ELSE Len(seq)
  <1>1. /\ n \in Nat /\ seq \in [1 .. n -> S] /\ seq \in Seq(S) /\ Len(seq) = n
        /\ (\A r \in S : \E k \in 1 .. n : seq[k] = r) /\ Descends(seq)
    BY RowsFinite, Ordered DEF ToldApart
  <1>2. cut = SubSeq(seq, 1, l)
    BY DEF Prefix
  <1> HIDE DEF seq, n
  <1>3. l \in Nat /\ l <= n /\ l <= m /\ (l # m => l = n)
    BY <1>1
  <1>4. cut \in Seq(S) /\ Len(cut) = l /\ \A k \in 1 .. l : cut[k] = seq[k]
    BY <1>1, <1>2, <1>3
  <1>5. DOMAIN cut = 1 .. l /\ DOMAIN seq = 1 .. n
    BY <1>1, <1>4
  <1> HIDE DEF l
  <1>6. \A k \in 1 .. l : k \in 1 .. n /\ seq[k] \in S
    BY <1>1, <1>3
  <1>7. Descends(cut)
    BY <1>1, <1>4, <1>5, <1>6 DEF Descends
  <1>8. ASSUME NEW r \in S
        PROVE  r \in Range(cut) \/ (l = m /\ \A k \in 1 .. l : last[r] < last[cut[k]])
    <2>1. PICK k \in 1 .. n : seq[k] = r
      BY <1>1
    <2>2. CASE k <= l
      <3>1. k \in 1 .. l
        BY <1>1, <1>3, <2>2
      <3> QED
        BY <1>4, <1>5, <2>1, <3>1 DEF Range
    <2>3. CASE l < k
      <3>1. l = m
        BY <1>1, <1>3, <2>3
      <3>2. ASSUME NEW j \in 1 .. l PROVE last[r] < last[cut[j]]
        <4>1. j \in 1 .. n /\ j < k /\ cut[j] = seq[j]
          BY <1>1, <1>3, <1>4, <2>3
        <4>2. last[seq[j]] > last[seq[k]]
          BY <1>1, <1>5, <4>1 DEF Descends
        <4>3. last[seq[j]] \in Nat /\ last[r] \in Nat
          BY <1>1, <4>1 DEF ToldApart
        <4> QED
          BY <2>1, <4>1, <4>2, <4>3
      <3> QED
        BY <3>1, <3>2
    <2> QED
      BY <1>1, <1>3, <2>2, <2>3
  <1>9. cut \in Seq(S) /\ Len(cut) = l /\ l \in Nat /\ l <= m /\ DOMAIN cut = 1 .. l
        /\ (\A k \in 1 .. l : cut[k] \in S) /\ Descends(cut)
    BY <1>3, <1>4, <1>5, <1>6, <1>7
  <1> QED
    BY <1>8, <1>9

\* What is read of a list, from what is older than `after', and shown of it.
PageOf(window, list) == Prefix(NewestFirst({r \in Range(window) : Passes(list, r)}), PageSize)

LEMMA WindowSizes == ASSUME NEW list PROVE WindowSize(list) \in Nat
  BY PagesBounds DEF WindowSize

\* A page that is full has all there is down to its last row, another all there is, unless its
\* window was cut.
LEMMA PageCovers ==
  ASSUME ToldApart({r \in RowId : last[r] > 0}), \A r \in RowId : last[r] \in Nat, NEW list, NEW after \in Nat,
         NEW window, window = Window(list, after), NEW page, page = PageOf(window, list)
  PROVE  /\ page \in Seq(RowId) /\ Len(page) \in Nat /\ DOMAIN page = 1 .. Len(page)
         /\ \A k \in 1 .. Len(page) : page[k] \in RowId /\ last[page[k]] < after /\ last[page[k]] > 0
         /\ Len(page) <= PageSize /\ Descends(page)
         /\ Len(page) # PageSize /\ Len(window) # WindowSize(list) =>
               \A r \in Listed(list) : last[r] < after /\ Passes(list, r) => r \in Range(page)
         /\ Len(page) = PageSize =>
               \A r \in Listed(list) : last[r] < after /\ Passes(list, r) =>
                  r \in Range(page) \/ last[r] < last[page[Len(page)]]
  <1> DEFINE S == {r \in Listed(list) : last[r] < after}
             F == {r \in Range(window) : Passes(list, r)}
  <1>1. ToldApart(S) /\ WindowSize(list) \in Nat
    BY WindowSizes DEF ToldApart, Listed
  <1>2. window = Prefix(NewestFirst(S), WindowSize(list))
    BY DEF Window
  <1>3. /\ window \in Seq(S) /\ Len(window) \in Nat /\ DOMAIN window = 1 .. Len(window)
        /\ \A k \in 1 .. Len(window) : window[k] \in S
        /\ \A r \in S : \/ r \in Range(window)
                        \/ Len(window) = WindowSize(list) /\ \A k \in 1 .. Len(window) : last[r] < last[window[k]]
    <2> HIDE DEF S
    <2> QED
      BY <1>1, <1>2, Cut
  <1>4. F \subseteq S
    BY <1>3 DEF Range
  <1>5. ToldApart(F)
    BY <1>1, <1>4 DEF ToldApart
  <1>6. page = Prefix(NewestFirst(F), PageSize) /\ PageSize \in Nat /\ PageSize > 0
    BY PagesBounds DEF PageOf
  <1>7. /\ page \in Seq(F) /\ Len(page) \in Nat /\ DOMAIN page = 1 .. Len(page)
        /\ \A k \in 1 .. Len(page) : page[k] \in F
        /\ Len(page) <= PageSize /\ Descends(page)
        /\ \A r \in F : \/ r \in Range(page)
                        \/ Len(page) = PageSize /\ \A k \in 1 .. Len(page) : last[r] < last[page[k]]
    <2> HIDE DEF F
    <2> QED
      BY <1>5, <1>6, Cut
  <1>8. \A k \in 1 .. Len(page) : page[k] \in S
    BY <1>4, <1>7
  <1>9. \A r \in S : r \in RowId /\ last[r] < after /\ last[r] > 0
    BY DEF Listed
  <1>10. page \in Seq(RowId)
    <2>1. F \subseteq RowId
      BY <1>4, <1>9
    <2> HIDE DEF F
    <2> QED
      BY <1>7, <2>1
  <1>11. ASSUME NEW r \in S, Passes(list, r), Len(page) # PageSize, Len(window) # WindowSize(list)
         PROVE  r \in Range(page)
    BY <1>3, <1>7, <1>11
  <1>12. ASSUME NEW r \in S, Passes(list, r), Len(page) = PageSize
         PROVE  r \in Range(page) \/ last[r] < last[page[Len(page)]]
    <2>1. Len(page) \in 1 .. Len(page)
      BY <1>6, <1>12
    <2>2. page[Len(page)] \in F
      BY <1>7, <2>1
    <2>3. CASE r \in Range(window)
      BY <1>7, <1>12, <2>1, <2>3
    <2>4. CASE r \notin Range(window)
      <3>1. PICK k \in 1 .. Len(window) : window[k] = page[Len(page)]
        BY <1>3, <2>2 DEF Range
      <3> QED
        BY <1>3, <2>4, <3>1
    <2> QED
      BY <2>3, <2>4
  <1> QED
    BY <1>7, <1>8, <1>9, <1>10, <1>11, <1>12

-----------------------------------------------------------------------------
(* The viewer.  Of the rows that nothing was written to it was shown all   *)
(* it may see down to where its next page begins.                          *)

Pager == [list : Lists, at : {"idle", "query", "more", "end"}, cursor : 0 .. MaxRows,
          after : 0 .. MaxClock + 1, shown : Seq(RowId), starved : BOOLEAN]

PagesTypes ==
    /\ newest \in 0 .. MaxClock /\ last \in [RowId -> 0 .. newest]
    /\ archived \subseteq RowId /\ touched \subseteq RowId /\ moved \in BOOLEAN
    /\ pager \in Pager

Dated == ToldApart({r \in RowId : last[r] > 0})

ShownDownTo(time) == \A r \in Listed(pager.list) \ touched :
    Passes(pager.list, r) /\ last[r] >= time => r \in Range(pager.shown)
Once(rows) == \A j, k \in DOMAIN rows : rows[j] = rows[k] => j = k
ShownIsNewer(time) == \A k \in DOMAIN pager.shown : last[pager.shown[k]] >= time

Progress ==
    /\ pager.at = "query" => ShownDownTo(pager.after)
    /\ pager.at = "more" => pager.cursor \in RowId /\ pager.cursor \in Range(pager.shown)
                            /\ ShownDownTo(last[pager.cursor])
    /\ pager.at = "end" /\ ~pager.starved => ShownDownTo(0)

\* While no row that ended a page moves, a page shows what is older than all before it.
InOrder == ~moved =>
    /\ Once(pager.shown)
    /\ pager.at = "query" => ShownIsNewer(pager.after)
    /\ pager.at = "more" => ShownIsNewer(last[pager.cursor])

PagesInv == PagesTypes /\ Dated /\ Progress /\ InOrder

LEMMA PagesInitially == PagesInit => PagesInv
  <1> SUFFICES ASSUME PagesInit PROVE PagesInv
    OBVIOUS
  <1>1. PagesTypes
    <2>1. newest \in 0 .. MaxClock /\ last \in [RowId -> 0 .. newest]
      BY PagesBounds DEF PagesInit, RowId, MaxClock
    <2>2. pager \in Pager
      BY PagesBounds DEF PagesInit, Pager, NoPager, Lists, RowId, MaxClock
    <2>3. archived \subseteq RowId /\ touched \subseteq RowId /\ moved \in BOOLEAN
      BY DEF PagesInit
    <2> QED
      BY <2>1, <2>2, <2>3 DEF PagesTypes
  <1>2. Dated
    BY PagesBounds DEF PagesInit, Dated, ToldApart, RowId
  <1>3. Progress /\ InOrder
    BY DEF PagesInit, NoPager, Progress, InOrder, Once
  <1> QED
    BY <1>1, <1>2, <1>3 DEF PagesInv

LEMMA Times ==
  ASSUME PagesInv
  PROVE  /\ newest \in Nat /\ newest <= MaxClock /\ \A r \in RowId : last[r] \in Nat /\ last[r] <= newest
         /\ pager \in Pager /\ pager.shown \in Seq(RowId) /\ Len(pager.shown) \in Nat
         /\ DOMAIN pager.shown = 1 .. Len(pager.shown) /\ pager.after \in Nat
         /\ \A k \in DOMAIN pager.shown : pager.shown[k] \in RowId
  <1>1. newest \in Nat /\ newest <= MaxClock /\ \A r \in RowId : last[r] \in Nat /\ last[r] <= newest
    BY PagesBounds DEF PagesInv, PagesTypes
  <1>2. pager \in Pager /\ pager.shown \in Seq(RowId) /\ pager.after \in Nat
    BY PagesBounds DEF PagesInv, PagesTypes, Pager
  <1> QED
    BY <1>1, <1>2

\* What others write leaves the viewer where it is.
LEMMA WritesKeepPager ==
  ASSUME PagesInv, PagesTypes', Dated', pager' = pager, touched \subseteq touched',
         \A r \in RowId : last'[r] >= last[r],
         ~moved' => ~moved /\ (pager.at = "more" => last'[pager.cursor] = last[pager.cursor]),
         \A r \in RowId \ touched' : last'[r] = last[r] /\ (r \in archived <=> r \in archived')
  PROVE  PagesInv'
  <1>1. \A r \in RowId : last[r] \in Nat /\ last'[r] \in Nat
    BY PagesBounds DEF PagesInv, PagesTypes
  <1>2. \A r \in Listed(pager.list)' \ touched' : r \in Listed(pager.list) \ touched /\ last'[r] = last[r]
    BY <1>1 DEF Listed
  <1>3. ASSUME NEW time \in Nat, NEW later \in Nat, time <= later, ShownDownTo(time) PROVE ShownDownTo(later)'
    <2> SUFFICES ASSUME NEW r \in Listed(pager.list)' \ touched', Passes(pager.list, r), last'[r] >= later
                 PROVE  r \in Range(pager.shown)
      BY DEF ShownDownTo, Passes
    <2>1. r \in Listed(pager.list) \ touched /\ last'[r] = last[r] /\ last[r] \in Nat
      BY <1>1, <1>2 DEF Listed
    <2> QED
      BY <1>3, <2>1 DEF ShownDownTo
  <1>4. pager.after \in Nat /\ pager.shown \in Seq(RowId)
        /\ \A k \in DOMAIN pager.shown : pager.shown[k] \in RowId /\ pager.shown[k] \in Range(pager.shown)
    BY Times DEF Range
  <1>5. Progress'
    <2>1. CASE pager.at = "query"
      BY <1>3, <1>4, <2>1 DEF PagesInv, Progress
    <2>2. CASE pager.at = "more"
      BY <1>1, <1>3, <2>2 DEF PagesInv, Progress
    <2>3. CASE pager.at = "end"
      BY <1>3, <2>3 DEF PagesInv, Progress
    <2> QED
      BY <2>1, <2>2, <2>3 DEF Progress
  <1>6. InOrder'
    <2> SUFFICES ASSUME ~moved'
                 PROVE  /\ Once(pager.shown)
                        /\ pager.at = "query" => ShownIsNewer(pager.after)'
                        /\ pager.at = "more" => ShownIsNewer(last[pager.cursor])'
      BY DEF InOrder, Once
    <2>1. \A k \in DOMAIN pager.shown : /\ last'[pager.shown[k]] >= last[pager.shown[k]]
                                        /\ last[pager.shown[k]] \in Nat
                                        /\ last'[pager.shown[k]] \in Nat
      BY <1>1, <1>4
    <2>2. /\ Once(pager.shown)
          /\ pager.at = "query" => ShownIsNewer(pager.after)
          /\ pager.at = "more" => ShownIsNewer(last[pager.cursor])
      BY DEF PagesInv, InOrder
    <2>3. pager.at = "query" => ShownIsNewer(pager.after)'
      BY <1>4, <2>1, <2>2 DEF ShownIsNewer
    <2>4. pager.at = "more" => ShownIsNewer(last[pager.cursor])'
      <3>1. pager.at = "more" => last'[pager.cursor] = last[pager.cursor] /\ last[pager.cursor] \in Nat
        BY <1>1 DEF PagesInv, Progress
      <3> QED
        BY <2>1, <2>2, <3>1 DEF ShownIsNewer
    <2> QED
      BY <2>2, <2>3, <2>4
  <1> QED
    BY <1>5, <1>6 DEF PagesInv

LEMMA TouchKeeps == ASSUME PagesInv, Touch PROVE PagesInv'
  <1>1. PICK r \in RowId : /\ last' = [last EXCEPT ![r] = newest'] /\ touched' = touched \union {r}
                          /\ moved' = (moved \/ (pager.at = "more" /\ r = pager.cursor))
    BY DEF Touch
  <1>2. newest' = newest + 1 /\ newest < MaxClock /\ archived' = archived /\ pager' = pager
    BY DEF Touch
  <1>3. /\ newest \in Nat /\ MaxClock \in Nat /\ \A q \in RowId : last[q] \in Nat /\ last[q] <= newest
        /\ last \in [RowId -> 0 .. newest]
    BY PagesBounds, Times DEF PagesInv, PagesTypes
  <1>4. /\ \A q \in RowId \ {r} : last'[q] = last[q]
        /\ last'[r] = newest + 1
    BY <1>1, <1>2, <1>3
  <1>5. PagesTypes'
    <2>1. last' \in [RowId -> 0 .. newest']
      BY <1>1, <1>2, <1>3
    <2>2. newest' \in 0 .. MaxClock
      BY <1>2, <1>3
    <2> QED
      BY <1>1, <1>2, <2>1, <2>2 DEF PagesInv, PagesTypes
  <1>6. Dated'
    <2>1. \A q \in RowId : last'[q] \in Nat
      BY <1>3, <1>4
    <2>2. ASSUME NEW p \in RowId, NEW q \in RowId, last'[p] > 0, last'[p] = last'[q] PROVE p = q
      BY <1>3, <1>4, <2>2 DEF PagesInv, Dated, ToldApart
    <2> QED
      BY <2>1, <2>2 DEF Dated, ToldApart
  <1>7. \A q \in RowId : last'[q] >= last[q]
    BY <1>3, <1>4
  <1>8. ~moved' => ~moved /\ (pager.at = "more" => last'[pager.cursor] = last[pager.cursor])
    BY <1>1, <1>4 DEF PagesInv, Progress
  <1> QED
    BY <1>1, <1>2, <1>4, <1>5, <1>6, <1>7, <1>8, WritesKeepPager

LEMMA ArchiveKeeps == ASSUME PagesInv, Archive PROVE PagesInv'
  <1>1. PICK r \in RowId : archived' = archived \union {r} /\ touched' = touched \union {r}
    BY DEF Archive
  <1>2. newest' = newest /\ last' = last /\ pager' = pager /\ moved' = moved
    BY DEF Archive
  <1>3. PagesTypes' /\ Dated'
    BY <1>1, <1>2 DEF PagesInv, PagesTypes, Dated, ToldApart
  <1>4. \A q \in RowId : last'[q] >= last[q]
    BY <1>2, Times
  <1> QED
    BY <1>1, <1>2, <1>3, <1>4, WritesKeepPager

LEMMA PagesRest == ASSUME PagesInv, UNCHANGED pagesVars PROVE PagesInv'
  <1>1. newest' = newest /\ last' = last /\ pager' = pager /\ archived' = archived
        /\ touched' = touched /\ moved' = moved
    BY DEF pagesVars
  <1>2. PagesTypes' /\ Dated'
    BY <1>1 DEF PagesInv, PagesTypes, Dated, ToldApart
  <1>3. \A q \in RowId : last'[q] >= last[q]
    BY <1>1, Times
  <1> QED
    BY <1>1, <1>2, <1>3, WritesKeepPager

-----------------------------------------------------------------------------
(* What the viewer does itself.                                            *)

LEMMA OpensKeeps == ASSUME PagesInv, NEW list \in Lists, Opens(list) PROVE PagesInv'
  <1>1. newest' = newest /\ last' = last /\ archived' = archived /\ touched' = {} /\ moved' = FALSE
    BY DEF Opens
  <1>2. pager' = [list |-> list, at |-> "query", cursor |-> 0, after |-> MaxClock + 1,
                  shown |-> <<>>, starved |-> FALSE]
    BY DEF Opens, NoPager
  <1>3. PagesTypes' /\ Dated'
    <2>1. pager' \in Pager
      BY <1>2, PagesBounds DEF Pager
    <2>2. touched' \subseteq RowId /\ moved' \in BOOLEAN
      BY <1>1
    <2>3. newest' \in 0 .. MaxClock /\ last' \in [RowId -> 0 .. newest'] /\ archived' \subseteq RowId
      BY <1>1 DEF PagesInv, PagesTypes
    <2> QED
      BY <1>1, <2>1, <2>2, <2>3 DEF PagesInv, PagesTypes, Dated, ToldApart
  <1>4. \A r \in RowId : ~(last[r] >= MaxClock + 1)
    BY Times, PagesBounds
  <1>5. Progress' /\ InOrder'
    BY <1>1, <1>2, <1>4 DEF Progress, InOrder, Once, ShownDownTo, ShownIsNewer, Listed
  <1> QED
    BY <1>3, <1>5 DEF PagesInv

LEMMA ReadCursorKeeps == ASSUME PagesInv, ReadCursor PROVE PagesInv'
  <1>1. newest' = newest /\ last' = last /\ archived' = archived /\ touched' = touched
        /\ moved' = moved /\ pager.at = "more" /\ pager' = [pager EXCEPT !.at = "query", !.after = last[pager.cursor]]
    BY DEF ReadCursor
  <1>2. pager \in Pager /\ pager.cursor \in RowId /\ last[pager.cursor] \in 0 .. MaxClock + 1
    BY <1>1, Times, PagesBounds DEF PagesInv, Progress
  <1>3. pager'.at = "query" /\ pager'.after = last[pager.cursor] /\ pager'.list = pager.list
        /\ pager'.shown = pager.shown /\ pager' \in Pager
    BY <1>1, <1>2 DEF Pager
  <1>4. PagesTypes' /\ Dated'
    BY <1>1, <1>3 DEF PagesInv, PagesTypes, Dated, ToldApart
  <1>5. Progress'
    BY <1>1, <1>3 DEF PagesInv, Progress, ShownDownTo, Listed, Passes
  <1>6. InOrder'
    BY <1>1, <1>3 DEF PagesInv, InOrder, Once, ShownIsNewer
  <1> QED
    BY <1>4, <1>5, <1>6 DEF PagesInv

\* Where the members of two sequences are when they are joined.
LEMMA Joined ==
  ASSUME NEW T, NEW p \in Seq(T), NEW q \in Seq(T)
  PROVE  /\ p \o q \in Seq(T) /\ Len(p \o q) = Len(p) + Len(q)
         /\ DOMAIN (p \o q) = 1 .. Len(p) + Len(q)
         /\ \A k \in 1 .. Len(p) : (p \o q)[k] = p[k]
         /\ \A k \in 1 .. Len(q) : Len(p) + k \in 1 .. Len(p) + Len(q) /\ (p \o q)[Len(p) + k] = q[k]
  <1>1. Len(p) \in Nat /\ Len(q) \in Nat /\ p \o q \in Seq(T) /\ Len(p \o q) = Len(p) + Len(q)
        /\ DOMAIN (p \o q) = 1 .. Len(p) + Len(q)
    OBVIOUS
  <1>2. ASSUME NEW k \in 1 .. Len(p) PROVE (p \o q)[k] = p[k]
    OBVIOUS
  <1>3. ASSUME NEW k \in 1 .. Len(q) PROVE Len(p) + k \in 1 .. Len(p) + Len(q) /\ (p \o q)[Len(p) + k] = q[k]
    OBVIOUS
  <1> QED
    BY <1>1, <1>2, <1>3

LEMMA ReadPageKeeps == ASSUME PagesInv, ReadPage PROVE PagesInv'
  <1> DEFINE list == pager.list
             window == Window(list, pager.after)
             page == PageOf(window, list)
             cursor == NextCursor(page, window)
             m == Len(pager.shown)
             n == Len(page)
             full == n = PageSize
  <1>1. newest' = newest /\ last' = last /\ archived' = archived /\ touched' = touched
        /\ moved' = moved /\ pager.at = "query"
    BY DEF ReadPage
  <1>2. pager' = [pager EXCEPT !.shown = @ \o page, !.cursor = cursor,
                               !.at = IF cursor = 0 THEN "end" ELSE "more",
                               !.starved = @ \/ (Len(window) = WindowSize(list) /\ cursor = 0)]
    BY DEF ReadPage, PageOf
  <1>3. /\ pager.shown \in Seq(RowId) /\ m \in Nat /\ DOMAIN pager.shown = 1 .. m
        /\ pager \in Pager /\ pager.after \in Nat /\ \A r \in RowId : last[r] \in Nat
        /\ PageSize \in Nat /\ PageSize > 0
        /\ \A k \in DOMAIN pager.shown : pager.shown[k] \in RowId
    BY Times, PagesBounds
  <1>4. /\ page \in Seq(RowId) /\ n \in Nat /\ DOMAIN page = 1 .. n
        /\ \A k \in 1 .. n : page[k] \in RowId /\ last[page[k]] < pager.after /\ last[page[k]] > 0
        /\ n <= PageSize /\ Descends(page)
        /\ n # PageSize /\ Len(window) # WindowSize(list) =>
              \A r \in Listed(list) : last[r] < pager.after /\ Passes(list, r) => r \in Range(page)
        /\ n = PageSize =>
              \A r \in Listed(list) : last[r] < pager.after /\ Passes(list, r) =>
                 r \in Range(page) \/ last[r] < last[page[n]]
    BY <1>3, PageCovers DEF PagesInv, Dated
  <1>5. cursor = IF full THEN page[n] ELSE 0
    BY DEF NextCursor
  <1> HIDE DEF page, window, cursor
  <1>6. cursor \in 0 .. MaxRows /\ (full => cursor # 0 /\ cursor \in RowId /\ n \in 1 .. n)
        /\ (cursor = 0 <=> ~full)
    BY <1>3, <1>4, <1>5, PagesBounds DEF RowId
  <1> DEFINE all == pager.shown \o page
  <1>7. /\ all \in Seq(RowId) /\ Len(all) = m + n
        /\ DOMAIN all = 1 .. m + n
        /\ \A k \in 1 .. m : all[k] = pager.shown[k]
        /\ \A k \in 1 .. n : m + k \in 1 .. m + n /\ all[m + k] = page[k]
    <2> HIDE DEF m, n
    <2>1. /\ all \in Seq(RowId) /\ Len(all) = Len(pager.shown) + Len(page)
          /\ DOMAIN all = 1 .. Len(pager.shown) + Len(page)
          /\ \A k \in 1 .. Len(pager.shown) : all[k] = pager.shown[k]
          /\ \A k \in 1 .. Len(page) : /\ Len(pager.shown) + k \in 1 .. Len(pager.shown) + Len(page)
                                       /\ all[Len(pager.shown) + k] = page[k]
      <3>1. pager.shown \in Seq(RowId) /\ page \in Seq(RowId)
        BY <1>3, <1>4
      <3> QED
        BY <3>1, Joined
    <2> HIDE DEF all
    <2> QED
      BY <2>1 DEF m, n
  <1> HIDE DEF all, m, n
  <1>8. pager' \in Pager /\ pager'.list = list /\ pager'.shown = all /\ pager'.cursor = cursor
        /\ pager'.at = (IF full THEN "more" ELSE "end")
        /\ (~pager'.starved /\ ~full => Len(window) # WindowSize(list))
    BY <1>2, <1>3, <1>6, <1>7 DEF Pager, all
  <1>9. PagesTypes' /\ Dated'
    BY <1>1, <1>8 DEF PagesInv, PagesTypes, Dated, ToldApart
  <1>10. Range(pager.shown) \subseteq Range(all) /\ Range(page) \subseteq Range(all)
    <2>1. ASSUME NEW k \in 1 .. m PROVE pager.shown[k] \in Range(all)
      <3>1. k \in DOMAIN all
        BY <1>3, <1>4, <1>7
      <3> QED
        BY <1>7, <3>1 DEF Range
    <2>2. ASSUME NEW k \in 1 .. n PROVE page[k] \in Range(all)
      <3>1. m + k \in DOMAIN all
        BY <1>3, <1>4, <1>7
      <3> QED
        BY <1>7, <3>1 DEF Range
    <2> QED
      BY <1>3, <1>4, <2>1, <2>2 DEF Range
  <1>11. \A r \in Listed(list) \ touched : Passes(list, r) /\ last[r] >= pager.after => r \in Range(all)
    BY <1>1, <1>10 DEF PagesInv, Progress, ShownDownTo
  <1>12. Progress'
    <2>1. CASE full
      <3>1. ASSUME NEW r \in Listed(list) \ touched, Passes(list, r), last[r] >= last[cursor]
            PROVE  r \in Range(all)
        <4>1. r \in RowId /\ last[r] \in Nat /\ last[cursor] \in Nat
          BY <1>3, <1>6, <2>1 DEF Listed
        <4>2. CASE last[r] >= pager.after
          BY <1>11, <3>1, <4>2
        <4>3. CASE last[r] < pager.after
          <5>1. ~(last[r] < last[page[n]])
            BY <1>5, <2>1, <3>1, <4>1
          <5> QED
            BY <1>4, <1>10, <2>1, <3>1, <4>3, <5>1
        <4> QED
          BY <1>3, <4>1, <4>2, <4>3
      <3>2. cursor \in Range(all)
        BY <1>4, <1>5, <1>6, <1>10, <2>1 DEF Range
      <3> QED
        BY <1>1, <1>6, <1>8, <2>1, <3>1, <3>2 DEF Progress, ShownDownTo, Listed, Passes
    <2>2. CASE ~full
      <3>1. ASSUME ~pager'.starved, NEW r \in Listed(list) \ touched, Passes(list, r)
            PROVE  r \in Range(all)
        <4>1. r \in RowId /\ last[r] \in Nat
          BY <1>3 DEF Listed
        <4>2. CASE last[r] >= pager.after
          BY <1>11, <3>1, <4>2
        <4>3. CASE last[r] < pager.after
          BY <1>4, <1>8, <1>10, <2>2, <3>1, <4>3
        <4> QED
          BY <1>3, <4>1, <4>2, <4>3
      <3> QED
        BY <1>1, <1>8, <2>2, <3>1 DEF Progress, ShownDownTo, Listed, Passes
    <2> QED
      BY <2>1, <2>2
  <1>13. InOrder'
    <2> SUFFICES ASSUME ~moved
                 PROVE  Once(all) /\ (full => \A k \in DOMAIN all : last[all[k]] >= last[cursor])
      BY <1>1, <1>8 DEF InOrder, Once, ShownIsNewer
    <2>1. Once(pager.shown) /\ \A k \in DOMAIN pager.shown : last[pager.shown[k]] >= pager.after
      BY <1>1 DEF PagesInv, InOrder, ShownIsNewer
    <2>2. \A k \in DOMAIN all : \/ k \in 1 .. m
                               \/ \E j \in 1 .. n : k = m + j
      <3> SUFFICES ASSUME NEW k \in DOMAIN all, k \notin 1 .. m
                   PROVE  \E j \in 1 .. n : k = m + j
        OBVIOUS
      <3>1. k - m \in 1 .. n /\ k = m + (k - m)
        BY <1>3, <1>4, <1>7
      <3> QED
        BY <3>1
    <2>3. \A k \in 1 .. m : all[k] = pager.shown[k] /\ last[all[k]] \in Nat /\ last[all[k]] >= pager.after
      BY <1>3, <1>7, <2>1
    <2>4. \A k \in 1 .. n : /\ all[m + k] = page[k] /\ last[page[k]] \in Nat
                            /\ last[page[k]] < pager.after
      BY <1>3, <1>4, <1>7
    <2>5. Once(all)
      <3> SUFFICES ASSUME NEW j \in DOMAIN all, NEW k \in DOMAIN all, all[j] = all[k] PROVE j = k
        BY DEF Once
      <3>1. CASE j \in 1 .. m /\ k \in 1 .. m
        BY <1>3, <2>1, <2>3, <3>1 DEF Once
      <3>2. CASE \E h, i \in 1 .. n : j = m + h /\ k = m + i
        <4>1. PICK h \in 1 .. n, i \in 1 .. n : j = m + h /\ k = m + i
          BY <3>2
        <4>2. ~(h < i) /\ ~(i < h)
          BY <1>4, <2>4, <4>1 DEF Descends
        <4> QED
          BY <1>3, <1>4, <4>1, <4>2
      <3>3. ASSUME NEW a \in 1 .. m, NEW i \in 1 .. n PROVE all[a] # all[m + i]
        <4>1. last[all[a]] \in Nat /\ last[all[a]] >= pager.after /\ pager.after \in Nat
          BY <1>3, <2>3
        <4>2. last[all[m + i]] \in Nat /\ last[all[m + i]] < pager.after
          BY <2>4
        <4>3. last[all[a]] # last[all[m + i]]
          BY <4>1, <4>2
        <4> QED
          BY <4>3
      <3> QED
        BY <2>2, <3>1, <3>2, <3>3
    <2>6. ASSUME full, NEW k \in DOMAIN all PROVE last[all[k]] >= last[cursor]
      <3>1. n \in 1 .. n /\ cursor = page[n] /\ last[cursor] \in Nat /\ last[cursor] < pager.after
        BY <1>5, <1>6, <2>4, <2>6
      <3>2. CASE k \in 1 .. m
        BY <1>3, <2>3, <3>1, <3>2
      <3>3. ASSUME NEW i \in 1 .. n, k = m + i PROVE last[all[k]] >= last[cursor]
        <4>1. i < n \/ i = n
          BY <1>4
        <4> QED
          BY <1>4, <2>4, <3>1, <3>3, <4>1 DEF Descends
      <3> QED
        BY <2>2, <3>2, <3>3
    <2> QED
      BY <2>5, <2>6
  <1> QED
    BY <1>9, <1>12, <1>13 DEF PagesInv

LEMMA PagesStep == ASSUME PagesInv, PagesNext PROVE PagesInv'
  <1>1. ASSUME OpenDocument PROVE PagesInv'
    BY <1>1, OpensKeeps DEF OpenDocument, Lists
  <1>2. ASSUME OpenSkill PROVE PagesInv'
    BY <1>2, OpensKeeps DEF OpenSkill, Lists
  <1> QED
    BY <1>1, <1>2, ReadCursorKeeps, ReadPageKeeps, TouchKeeps, ArchiveKeeps DEF PagesNext

LEMMA PagesAlways == Spec => []PagesInv
  <1>1. Init => PagesInv
    BY PagesInitially DEF Init
  <1>2. PagesInv /\ [Next]_vars => PagesInv'
    BY PagesStep, PagesRest DEF Next, vars
  <1> QED
    BY <1>1, <1>2, PTL DEF Spec

\* PagesComplete: a viewer who pages to the end was shown all that it may see and that nothing
\* was written to, but for a window of rows that held less than a page; and no row twice, but
\* where the row that ended a page was written to before the next page was asked for.
THEOREM PagesTheorem == Spec => []PagesComplete
  <1>1. PagesInv => PagesComplete
    <2> SUFFICES ASSUME PagesInv PROVE PagesComplete
      OBVIOUS
    <2>1. ASSUME pager.at = "end", ~pager.starved, NEW r \in Listed(pager.list) \ touched, Passes(pager.list, r)
          PROVE  \E k \in DOMAIN pager.shown : pager.shown[k] = r
      <3>1. last[r] >= 0
        BY Times DEF Listed
      <3>2. r \in Range(pager.shown)
        BY <2>1, <3>1 DEF PagesInv, Progress, ShownDownTo
      <3> QED
        BY <3>2 DEF Range
    <2>2. ShownOnce
      BY DEF PagesInv, InOrder, Once, ShownOnce
    <2> QED
      BY <2>1, <2>2 DEF PagesComplete
  <1> QED
    BY <1>1, PagesAlways, PTL

(***************************************************************************)
(* The types.  That a cached answer is a skill rests on what every request *)
(* carries from place to place being what the next writes (Typed), and on  *)
(* every identifier it holds having been drawn.                            *)
(***************************************************************************)

\* The places no PUT and no loop is at.
Elsewhere == {"query", "narrow", "default", "card", "build", "keep", "permit", "rule", "decide", "answer"}

Typed(c) ==
    /\ c.id \in 0 .. drawn /\ c.public \subseteq 1 .. drawn
    /\ c.got # None => c.got \in Skill
    /\ c.at \in {"fill", "refill"} \/ (c.at = "invalidate" /\ ~c.again) => c.got \in Skill
    /\ c.at \in {"slug", "create"} => c.arg \in Skill
    /\ c.at = "slug" => c.arg.slug \in Slugs
    /\ c.at \in {"grant", "allow", "previous", "existing", "next", "slug", "create"} => ~c.again
    /\ c.at \in Elsewhere \union {"slug"} => c.op # "put"
    /\ c.at \in Elsewhere => c.op # "templates"
    /\ c.op = "put" \/ (c.op = "templates" /\ c.again) => c.arg \in Edit
    /\ c.op = "fork" => c.ctx.uid \in Owners
    /\ c.op \in {"seed", "recent"} => c.todo \in Seq(1 .. drawn)
    /\ c.op = "templates" => \A n \in DOMAIN c.found : c.found[n] \in 1 .. drawn

Cached(entry, s) == entry # None => s <= drawn /\ entry.skill \in Skill

Stored ==
    /\ Len(InitialSkills) <= drawn
    /\ \A s \in Existing : skills[s] \in Skill
    /\ client \in Clients \union {None} /\ \A l \in Levels : rules[l] \in {"allow", "deny", None}
    /\ \A i \in Instance : tools[i] \subseteq 1 .. drawn
    /\ \A i \in Instance, s \in SkillId : Cached(cache[i][s], s)

TypedInv == Stored /\ \A t \in Thread : Typed(calls[t])

LEMMA Numbered == ASSUME SkillsInv PROVE drawn \in Nat /\ (\A s \in Existing : s \in 1 .. drawn)
  BY TheTime DEF SkillsInv, SkillsTypes, Existing, SkillId

\* A call stays of its type as identifiers are drawn.
LEMMA TypedLater ==
  ASSUME drawn \in Nat, drawn' \in Nat, drawn <= drawn', NEW c, Typed(c)
  PROVE  Typed(c)'
  <1>1. 0 .. drawn \subseteq 0 .. drawn' /\ 1 .. drawn \subseteq 1 .. drawn'
    OBVIOUS
  <1>2. c.todo \in Seq(1 .. drawn) => c.todo \in Seq(1 .. drawn')
    BY <1>1
  <1> QED
    BY <1>1, <1>2 DEF Typed

LEMMA IdleTyped == ASSUME drawn \in Nat PROVE Typed(Idle)
  BY DEF Typed, Idle, Elsewhere

LEMMA AnswerTyped == ASSUME drawn \in Nat, NEW q, NEW rests PROVE Typed(Answer(q, rests))
  <1>1. PICK c : c = Answer(q, rests)
    OBVIOUS
  <1>2. /\ c.id = 0 /\ c.public = {} /\ c.got = None /\ c.at = "answer" /\ c.again = FALSE /\ c.op = "none"
    BY <1>1 DEF Answer, Idle
  <1> QED
    BY <1>1, <1>2 DEF Typed, Elsewhere

LEMMA ProceedsTyped ==
  ASSUME drawn \in Nat, NEW q, Whole(q), Typed(q), q.op \in Loops, q.todo # <<>>
  PROVE  Typed(Proceeds(q))
  <1>1. PICK c : c = Proceeds(q)
    OBVIOUS
  <1>2. /\ c.id = 0 /\ c.public = q.public /\ c.got = None /\ c.at = "next" /\ c.again = FALSE /\ c.op = q.op
        /\ c.found = q.found /\ c.todo = Tail(q.todo)
    <2>1. PICK half : half = [q EXCEPT !.at = "next", !.todo = Tail(q.todo), !.again = FALSE]
      OBVIOUS
    <2>2. c = [half EXCEPT !.id = 0, !.got = None, !.arg = None]
      BY <1>1, <2>1 DEF Proceeds
    <2>3. Whole(half) /\ half.at = "next" /\ half.todo = Tail(q.todo) /\ half.again = FALSE
          /\ half.op = q.op /\ half.public = q.public /\ half.found = q.found
      BY <2>1 DEF Whole, Fields
    <2> QED
      BY <2>2, <2>3 DEF Whole, Fields
  <1>3. ASSUME c.op \in {"seed", "recent"} PROVE c.todo \in Seq(1 .. drawn)
    <2>1. PICK S, todo : S = 1 .. drawn /\ todo = q.todo
      OBVIOUS
    <2>2. todo \in Seq(S) /\ todo # <<>>
      BY <1>2, <1>3, <2>1 DEF Typed
    <2>3. Tail(todo) \in Seq(S)
      BY <2>2, TailOf
    <2> QED
      BY <1>2, <2>1, <2>3
  <1> QED
    BY <1>1, <1>2, <1>3 DEF Typed, Elsewhere, Loops

LEMMA FinishedTyped ==
  ASSUME drawn \in Nat, NEW q, CallOK(q), Typed(q), q.at \in Looking \union Writing \union {"slug", "create"}
  PROVE  Typed(Finished(q))
  <1>1. CASE q.op \in Loops
    <2>1. q.todo # <<>> /\ Whole(q)
      BY <1>1 DEF CallOK, Placed
    <2> QED
      BY <1>1, <2>1, ProceedsTyped DEF Finished, Loops
  <1>2. CASE q.op \notin Loops
    BY <1>2, AnswerTyped DEF Finished, Loops
  <1> QED
    BY <1>1, <1>2

LEMMA RaisedTyped ==
  ASSUME drawn \in Nat, NEW q, Whole(q), Typed(q)
  PROVE  Typed(Raised(q))
  <1>1. CASE q.op = "templates" /\ q.todo # <<>>
    BY <1>1, ProceedsTyped DEF Raised, Loops
  <1>2. CASE ~(q.op = "templates" /\ q.todo # <<>>)
    BY <1>2, IdleTyped DEF Raised
  <1> QED
    BY <1>1, <1>2

\* What one call does, and what it leaves.
LEMMA OneTyped ==
  ASSUME SkillsInv, TypedInv, Stored', NEW t \in Thread, NEW c, Goes(t, c), Typed(c), UNCHANGED drawn
  PROVE  TypedInv'
  <1>1. \A u \in Thread : calls'[u] = IF u = t THEN c ELSE calls[u]
    BY OneCall DEF SkillsInv
  <1>2. \A u \in Thread : Typed(calls'[u])
    BY <1>1 DEF TypedInv
  <1>3. \A q : Typed(q) => Typed(q)'
    BY DEF Typed
  <1>4. \A u \in Thread : Typed(calls[u])'
    <2> TAKE u \in Thread
    <2>1. PICK q : q = calls'[u] /\ Typed(q)
      BY <1>2
    <2>2. Typed(q)'
      BY <1>3, <2>1
    <2> QED
      BY <2>1, <2>2 DEF Typed
  <1> QED
    BY <1>4 DEF TypedInv

LEMMA StoredStays ==
  ASSUME TypedInv, UNCHANGED <<skills, drawn, client, rules, tools, cache>>
  PROVE  Stored'
  BY DEF TypedInv, Stored, Cached, Existing

LEMMA QuietTyped ==
  ASSUME SkillsInv, TypedInv, NEW t \in Thread, NEW c, Goes(t, c), Typed(c),
         UNCHANGED <<skills, drawn, client, rules, tools, cache>>
  PROVE  TypedInv'
  BY OneTyped, StoredStays

LEMMA Typing ==
  ASSUME SkillsInv, TypedInv, NEW t \in Thread
  PROVE  \E q : /\ q = calls[t] /\ CallOK(q) /\ Whole(q) /\ Placed(q) /\ Typed(q)
                /\ SkillsTypes /\ drawn \in Nat /\ Stored
                /\ (\A s \in Existing : s \in 1 .. drawn /\ skills[s] \in Skill)
                /\ (q.at \notin {"idle", "answer"} => q.inst \in Instance)
                /\ (q.at \in Looking \union Writing => q.id \in SkillId)
  BY AtWork, Numbered DEF TypedInv, Stored

-----------------------------------------------------------------------------
\* A step that writes to the cache alone.
LEMMA CacheTyped ==
  ASSUME SkillsInv, TypedInv, NEW t \in Thread, NEW c, Goes(t, c), Typed(c),
         UNCHANGED <<skills, drawn, client, rules, tools>>,
         NEW i, NEW s, NEW entry, SetsEntry(i, s, entry), Cached(entry, s)
  PROVE  TypedInv'
  <1>1. \A j \in Instance, r \in SkillId : (cache'[j][r] = entry /\ r = s) \/ cache'[j][r] = cache[j][r]
    BY DEF SkillsInv, SkillsTypes, SetsEntry
  <1>2. Stored'
    BY <1>1 DEF TypedInv, Stored, Cached, Existing
  <1> QED
    BY <1>2, OneTyped

LEMMA LookTyped == ASSUME SkillsInv, TypedInv, NEW t \in Thread, Look(t) PROVE TypedInv'
  <1>1. PICK q : /\ q = calls[t] /\ Whole(q) /\ Typed(q) /\ Stored
                 /\ q.at = "look" /\ q.inst \in Instance /\ q.id \in SkillId
    BY Typing DEF Look, Looking
  <1>2. PICK entry : entry = cache[q.inst][q.id]
    OBVIOUS
  <1>3. PICK c : /\ Goes(t, c)
                 /\ \/ Fresh(entry) /\ c = [q EXCEPT !.at = "got", !.got = entry.skill]
                    \/ c = [q EXCEPT !.at = "evict"]
                    \/ c = [q EXCEPT !.at = "read"]
    BY <1>1, <1>2 DEF Look, Move, Here
  <1>4. /\ Keeps(c, q, {"at", "got"}) /\ c.at \in {"got", "evict", "read"}
        /\ c.got = q.got \/ c.got \in Skill
    BY <1>1, <1>2, <1>3 DEF Keeps, Whole, Fields, Stored, Cached, Fresh
  <1>5. Typed(c)
    BY <1>1, <1>4 DEF Typed, Keeps, Fields, Elsewhere
  <1> QED
    BY <1>3, <1>5, QuietTyped DEF Look, OnlyCalls, catalogue, policy, local

LEMMA EvictTyped == ASSUME SkillsInv, TypedInv, NEW t \in Thread, Evict(t) PROVE TypedInv'
  <1>1. PICK q : q = calls[t] /\ Whole(q) /\ Typed(q) /\ drawn \in Nat
    BY Typing
  <1>2. PICK c : Goes(t, c) /\ (c = Raised(q) \/ c = [q EXCEPT !.at = "read"])
    BY <1>1 DEF Evict
  <1>3. Typed(c)
    <2>1. ASSUME c = [q EXCEPT !.at = "read"] PROVE Keeps(c, q, {"at"}) /\ c.at = "read"
      BY <1>1, <2>1 DEF Keeps, Whole, Fields
    <2>2. CASE c = [q EXCEPT !.at = "read"]
      BY <1>1, <2>1, <2>2 DEF Typed, Keeps, Fields, Elsewhere
    <2> QED
      BY <1>1, <1>2, <2>2, RaisedTyped
  <1>4. SetsEntry(q.inst, q.id, None)
    BY <1>1 DEF Evict, SetsEntry
  <1> QED
    BY <1>2, <1>3, <1>4, CacheTyped DEF Evict, Cached, catalogue, policy

LEMMA ReadTyped == ASSUME SkillsInv, TypedInv, NEW t \in Thread, Read(t) PROVE TypedInv'
  <1>1. PICK q : /\ q = calls[t] /\ Whole(q) /\ Typed(q) /\ Stored
                 /\ q.at = "read" /\ q.id \in SkillId
    BY Typing DEF Read, Looking
  <1>2. PICK place : place = IF skills[q.id] = None THEN "got" ELSE "fill"
    OBVIOUS
  <1>3. PICK c : Goes(t, c) /\ c = [q EXCEPT !.got = skills[q.id], !.at = place]
    BY <1>1, <1>2 DEF Read
  <1>4. Keeps(c, q, {"at", "got"}) /\ c.at = place /\ c.got = skills[q.id]
    BY <1>1, <1>3 DEF Keeps, Whole, Fields
  <1>5. c.got # None => c.got \in Skill
    BY <1>1, <1>4 DEF Stored, Existing
  <1>6. Typed(c)
    BY <1>1, <1>2, <1>4, <1>5 DEF Typed, Keeps, Fields, Elsewhere
  <1> QED
    BY <1>3, <1>6, QuietTyped DEF Read, OnlyCalls, catalogue, policy, local

\* What is cached of a skill that was read or made.
LEMMA FillsTyped ==
  ASSUME SkillsInv, TypedInv, NEW t \in Thread, NEW c, Goes(t, c), Typed(c),
         UNCHANGED <<skills, drawn, client, rules, tools>>, NEW q, Typed(q), q.got \in Skill, cache' = Filled(q)
  PROVE  TypedInv'
  <1>1. PICK entry : entry = [at |-> now, skill |-> q.got]
    OBVIOUS
  <1>2. SetsEntry(q.inst, q.id, entry)
    BY <1>1 DEF Filled, SetsEntry
  <1>3. Cached(entry, q.id)
    BY <1>1, Numbered DEF Typed, Cached
  <1> QED
    BY <1>2, <1>3, CacheTyped

LEMMA FillTyped == ASSUME SkillsInv, TypedInv, NEW t \in Thread, Fill(t) PROVE TypedInv'
  <1>1. PICK q : /\ q = calls[t] /\ Whole(q) /\ CallOK(q) /\ Typed(q) /\ drawn \in Nat
                 /\ q.at \in {"fill", "refill"}
    BY Typing DEF Fill
  <1>2. PICK c : Goes(t, c) /\ (c = Finished(q) \/ c = [q EXCEPT !.at = "got"])
    BY <1>1 DEF Fill, Move
  <1>3. Typed(c)
    <2>1. ASSUME c = [q EXCEPT !.at = "got"] PROVE Keeps(c, q, {"at"}) /\ c.at = "got"
      BY <1>1, <2>1 DEF Keeps, Whole, Fields
    <2>2. CASE c = [q EXCEPT !.at = "got"]
      BY <1>1, <2>1, <2>2 DEF Typed, Keeps, Fields, Elsewhere
    <2>3. Typed(Finished(q))
      BY <1>1, FinishedTyped DEF Looking, Writing
    <2> QED
      BY <1>2, <2>2, <2>3
  <1>4. q.got \in Skill
    BY <1>1 DEF Typed
  <1> QED
    BY <1>1, <1>2, <1>3, <1>4, FillsTyped DEF Fill, catalogue, policy

LEMMA FindTyped == ASSUME SkillsInv, TypedInv, NEW t \in Thread, FindBySlug(t) PROVE TypedInv'
  <1>1. PICK q : /\ q = calls[t] /\ Whole(q) /\ Typed(q) /\ drawn \in Nat /\ q.op = "find"
                 /\ \A s \in Existing : s \in 1 .. drawn /\ skills[s] \in Skill
    BY Typing DEF FindBySlug, At
  <1>2. PICK c : /\ Goes(t, c)
                 /\ \/ c = Answer(q, {})
                    \/ \E s \in Existing : c = [q EXCEPT !.at = "fill", !.id = s, !.got = skills[s]]
    BY <1>1 DEF FindBySlug, OwnedBy
  <1>3. Typed(c)
    <2>1. ASSUME NEW s \in Existing, c = [q EXCEPT !.at = "fill", !.id = s, !.got = skills[s]]
          PROVE  Keeps(c, q, {"at", "id", "got"}) /\ c.at = "fill" /\ c.id = s /\ c.got = skills[s]
      BY <1>1, <2>1 DEF Keeps, Whole, Fields
    <2>2. ASSUME NEW s \in Existing, c = [q EXCEPT !.at = "fill", !.id = s, !.got = skills[s]]
          PROVE  Typed(c)
      <3>0. s \in 1 .. drawn /\ skills[s] \in Skill
        BY ONLY <1>1, s \in Existing, Zenon
      <3>1. c.id \in 1 .. drawn /\ c.got \in Skill
        BY <2>1, <2>2, <3>0
      <3>2. c.op = "find" /\ c.at = "fill" /\ c.public = q.public
        BY <1>1, <2>1, <2>2 DEF Keeps, Fields
      <3> QED
        BY <1>1, <3>1, <3>2 DEF Typed, Elsewhere
    <2> QED
      BY <1>1, <1>2, <2>2, AnswerTyped
  <1> QED
    BY <1>2, <1>3, QuietTyped DEF FindBySlug, OnlyCalls, catalogue, policy, local

-----------------------------------------------------------------------------
LEMMA InvalidateTyped == ASSUME SkillsInv, TypedInv, NEW t \in Thread, Invalidate(t) PROVE TypedInv'
  <1>1. PICK q : q = calls[t] /\ Whole(q) /\ Typed(q) /\ drawn \in Nat /\ q.at = "invalidate"
    BY Typing DEF Invalidate
  <1>2. PICK c : Goes(t, c) /\ c = [q EXCEPT !.at = "public"]
    BY <1>1 DEF Invalidate, Move
  <1>3. Keeps(c, q, {"at"}) /\ c.at = "public"
    BY <1>1, <1>2 DEF Keeps, Whole, Fields
  <1>4. Typed(c)
    BY <1>1, <1>3 DEF Typed, Keeps, Fields, Elsewhere
  <1>5. CASE q.again
    <2>1. SetsEntry(q.inst, q.id, None)
      BY <1>1, <1>5 DEF Invalidate, SetsEntry
    <2> QED
      BY <1>2, <1>4, <2>1, CacheTyped DEF Invalidate, Cached, catalogue, policy
  <1>6. CASE ~q.again
    <2>1. q.got \in Skill /\ cache' = Filled(q)
      BY <1>1, <1>6 DEF Typed, Invalidate
    <2> QED
      BY <1>1, <1>2, <1>4, <2>1, FillsTyped DEF Invalidate, catalogue, policy
  <1> QED
    BY <1>5, <1>6

\* A field that no type speaks of.
LEMMA AsideTyped ==
  ASSUME NEW q, NEW c, Typed(q), Keeps(c, q, {"drop", "mixed", "rests", "claims", "lost"})
  PROVE  Typed(c)
  BY DEF Typed, Keeps, Fields

LEMMA QueryPublicTyped == ASSUME SkillsInv, TypedInv, NEW t \in Thread, QueryPublic(t) PROVE TypedInv'
  <1>1. PICK q : /\ q = calls[t] /\ Whole(q) /\ Typed(q) /\ drawn \in Nat /\ q.at = "public"
                 /\ \A s \in Existing : s \in 1 .. drawn
    BY Typing DEF QueryPublic
  <1>2. PICK mixed, drop, c : /\ c = [q EXCEPT !.at = "sync", !.public = Public, !.mixed = mixed, !.drop = drop]
                              /\ calls'[t] = c
    BY <1>1 DEF QueryPublic
  <1>3. Keeps(c, q, {"at", "public", "mixed", "drop"}) /\ c.at = "sync" /\ c.public = Public
    BY <1>1, <1>2 DEF Keeps, Whole, Fields
  <1>4. Typed(c)
    BY <1>1, <1>3 DEF Typed, Keeps, Fields, Elsewhere, Public
  <1>5. ASSUME NEW u \in Thread \ {t}
        PROVE  Typed(calls'[u])
    <2>1. PICK p : p = calls[u] /\ Whole(p) /\ Typed(p)
      BY Typing
    <2>2. PICK m, d : d = [p EXCEPT !.mixed = m] /\ calls'[u] = d
      BY <2>1 DEF QueryPublic
    <2>3. Keeps(d, p, {"drop", "mixed", "rests", "claims", "lost"})
      BY <2>1, <2>2 DEF Keeps, Whole, Fields
    <2> QED
      BY <2>1, <2>2, <2>3, AsideTyped
  <1>6. Stored' /\ UNCHANGED drawn
    BY StoredStays DEF QueryPublic, OnlyCalls, catalogue, policy, local
  <1>7. \A u \in Thread : Typed(calls[u])'
    <2> TAKE u \in Thread
    <2>1. PICK d : d = calls'[u] /\ Typed(d)
      BY <1>2, <1>4, <1>5
    <2> QED
      BY <1>6, <2>1 DEF Typed
  <1> QED
    BY <1>6, <1>7 DEF TypedInv

\* After a rebuild.
LEMMA RebuiltTyped ==
  ASSUME drawn \in Nat, NEW q, CallOK(q), Typed(q), q.at \in Listing
  PROVE  Typed(Rebuilt(q))
  <1>1. PICK done : done = [q EXCEPT !.public = {}, !.drop = {}, !.mixed = FALSE]
    OBVIOUS
  <1>2. Whole(q)
    BY DEF CallOK
  <1>3. Keeps(done, q, {"public", "drop", "mixed"}) /\ done.public = {}
    BY <1>1, <1>2 DEF Keeps, Whole, Fields
  <1>4. Whole(done) /\ Typed(done) /\ done.op = q.op /\ done.todo = q.todo /\ done.at = q.at /\ done.since = q.since
    BY <1>3 DEF Typed, Keeps, Fields
  <1>5. CASE q.again /\ q.op \in {"put", "templates"}
    <2>1. PICK c : c = [done EXCEPT !.at = "reread"]
      OBVIOUS
    <2>2. Keeps(c, done, {"at"}) /\ c.at = "reread"
      BY <1>4, <2>1 DEF Keeps, Whole, Fields
    <2>3. Typed(c)
      BY <1>4, <2>2 DEF Typed, Keeps, Fields, Elsewhere
    <2>4. Rebuilt(q) = c
      BY <1>1, <1>5, <2>1 DEF Rebuilt
    <2> QED
      BY <2>3, <2>4
  <1>6. CASE ~(q.again /\ q.op \in {"put", "templates"})
    <2>1. Rebuilt(q) = Finished(done)
      BY <1>1, <1>6 DEF Rebuilt
    <2>2. q.op \in Loops => done.todo # <<>>
      BY <1>4 DEF CallOK, Placed, Writing
    <2>3. Typed(Finished(done))
      BY <1>4, <2>2, ProceedsTyped, AnswerTyped DEF Finished, Loops
    <2> QED
      BY <2>1, <2>3
  <1> QED
    BY <1>5, <1>6

LEMMA SkipTyped == ASSUME SkillsInv, TypedInv, NEW t \in Thread, SkipRebuild(t) PROVE TypedInv'
  <1>1. PICK q : q = calls[t] /\ CallOK(q) /\ Typed(q) /\ drawn \in Nat /\ q.at = "public"
    BY Typing DEF SkipRebuild
  <1>2. Goes(t, Rebuilt(q)) /\ Typed(Rebuilt(q))
    BY <1>1, RebuiltTyped DEF SkipRebuild, Listing
  <1> QED
    BY <1>2, QuietTyped DEF SkipRebuild, catalogue, policy, local

\* The tools of one instance are others.
LEMMA ToolsTyped ==
  ASSUME SkillsInv, TypedInv, NEW t \in Thread, NEW c, Goes(t, c), Typed(c),
         UNCHANGED <<skills, drawn, client, rules, cache>>,
         NEW i, NEW listed \in SUBSET (1 .. drawn), tools' = [tools EXCEPT ![i] = listed]
  PROVE  TypedInv'
  <1>1. \A j \in Instance : tools'[j] = listed \/ tools'[j] = tools[j]
    BY DEF SkillsInv, SkillsTypes
  <1>2. Stored'
    BY <1>1 DEF TypedInv, Stored, Cached, Existing
  <1> QED
    BY <1>2, OneTyped

LEMMA DropTyped == ASSUME SkillsInv, TypedInv, NEW t \in Thread, DropTool(t) PROVE TypedInv'
  <1>1. PICK q : q = calls[t] /\ Whole(q) /\ Typed(q) /\ drawn \in Nat /\ Stored
                 /\ q.at = "sync" /\ q.inst \in Instance
    BY Typing DEF DropTool
  <1>2. PICK s \in q.drop :
           \/ /\ s \in tools[q.inst]
              /\ tools' = [tools EXCEPT ![q.inst] = tools[q.inst] \ {s}]
              /\ Goes(t, [q EXCEPT !.drop = q.drop \ {s}])
           \/ /\ Goes(t, Raised([q EXCEPT !.public = {}, !.drop = {}, !.mixed = FALSE]))
              /\ UNCHANGED tools
    <2>1. \A s : [tools EXCEPT ![q.inst] = @ \ {s}] = [tools EXCEPT ![q.inst] = tools[q.inst] \ {s}]
      BY <1>1 DEF SkillsInv, SkillsTypes
    <2> QED
      BY <1>1, <2>1 DEF DropTool
  <1>3. CASE /\ tools' = [tools EXCEPT ![q.inst] = tools[q.inst] \ {s}]
             /\ Goes(t, [q EXCEPT !.drop = q.drop \ {s}])
    <2>1. PICK c, listed : c = [q EXCEPT !.drop = q.drop \ {s}] /\ listed = tools[q.inst] \ {s}
      OBVIOUS
    <2>2. Keeps(c, q, {"drop", "mixed", "rests", "claims", "lost"})
      BY <1>1, <2>1 DEF Keeps, Whole, Fields
    <2>3. Typed(c)
      BY <1>1, <2>2, AsideTyped
    <2>4. listed \in SUBSET (1 .. drawn)
      BY <1>1, <2>1 DEF Stored
    <2> QED
      BY <1>3, <2>1, <2>3, <2>4, ToolsTyped DEF DropTool, catalogue, policy
  <1>4. CASE /\ Goes(t, Raised([q EXCEPT !.public = {}, !.drop = {}, !.mixed = FALSE]))
             /\ UNCHANGED tools
    <2>1. PICK done : done = [q EXCEPT !.public = {}, !.drop = {}, !.mixed = FALSE]
      OBVIOUS
    <2>2. Keeps(done, q, {"public", "drop", "mixed"}) /\ done.public = {}
      BY <1>1, <2>1 DEF Keeps, Whole, Fields
    <2>3. Whole(done) /\ Typed(done)
      BY <1>1, <2>2 DEF Typed, Keeps, Fields
    <2>4. Goes(t, Raised(done)) /\ Typed(Raised(done))
      BY <1>1, <1>4, <2>1, <2>3, RaisedTyped
    <2> QED
      BY <1>4, <2>4, QuietTyped DEF DropTool, catalogue, policy
  <1> QED
    BY <1>2, <1>3, <1>4

LEMMA AddTyped == ASSUME SkillsInv, TypedInv, NEW t \in Thread, AddTools(t) PROVE TypedInv'
  <1>1. PICK q : q = calls[t] /\ CallOK(q) /\ Typed(q) /\ drawn \in Nat /\ Stored
                 /\ q.at = "sync" /\ q.inst \in Instance
    BY Typing DEF AddTools
  <1>2. Goes(t, Rebuilt(q)) /\ Typed(Rebuilt(q))
    BY <1>1, RebuiltTyped DEF AddTools, Listing
  <1>3. PICK listed : listed = tools[q.inst] \union q.public
    OBVIOUS
  <1>4. listed \in SUBSET (1 .. drawn)
    BY <1>1, <1>3 DEF Stored, Typed
  <1>5. tools' = [tools EXCEPT ![q.inst] = listed]
    BY <1>1, <1>3 DEF AddTools
  <1> QED
    BY <1>2, <1>4, <1>5, ToolsTyped DEF AddTools, catalogue, policy

LEMMA RereadTyped == ASSUME SkillsInv, TypedInv, NEW t \in Thread, Reread(t) PROVE TypedInv'
  <1>1. PICK q : /\ q = calls[t] /\ CallOK(q) /\ Whole(q) /\ Typed(q) /\ drawn \in Nat /\ Stored
                 /\ q.at = "reread" /\ q.id \in SkillId
    BY Typing DEF Reread, Writing
  <1>2. PICK c : /\ Goes(t, c)
                 /\ \/ c = Finished(q)
                    \/ skills[q.id] # None /\ c = [q EXCEPT !.at = "refill", !.got = skills[q.id]]
    BY <1>1 DEF Reread
  <1>3. ASSUME skills[q.id] # None, c = [q EXCEPT !.at = "refill", !.got = skills[q.id]] PROVE Typed(c)
    <2>1. Keeps(c, q, {"at", "got"}) /\ c.at = "refill" /\ c.got \in Skill
      BY <1>1, <1>3 DEF Keeps, Whole, Fields, Stored, Existing
    <2> QED
      BY <1>1, <2>1 DEF Typed, Keeps, Fields, Elsewhere
  <1>4. Typed(Finished(q))
    BY <1>1, FinishedTyped DEF Writing
  <1> QED
    BY <1>2, <1>3, <1>4, QuietTyped DEF Reread, OnlyCalls, catalogue, policy, local

-----------------------------------------------------------------------------
\* The reads that answer, or go on elsewhere.
LEMMA ElsewhereTyped ==
  ASSUME drawn \in Nat, NEW q, Typed(q), NEW c, Keeps(c, q, {"at", "rests", "arg"}),
         c.at \in Elsewhere, q.op \notin {"put", "templates"}
  PROVE  Typed(c)
  BY DEF Typed, Keeps, Fields, Elsewhere

LEMMA ReadsTyped ==
  ASSUME SkillsInv, TypedInv, NEW t \in Thread,
         Serve(t) \/ Query(t) \/ Default(t) \/ Hit(t) \/ Build(t) \/ Keep(t) \/ Permit(t) \/ ReadRule(t) \/ Decide(t)
  PROVE  TypedInv'
  <1>1. PICK q : q = calls[t] /\ Whole(q) /\ Typed(q) /\ drawn \in Nat
    BY Typing
  <1>2. q.at \in Elsewhere \/ Serve(t)
    BY <1>1 DEF Query, Default, Hit, Build, Keep, Permit, ReadRule, Decide, At, Elsewhere
  <1>3. UNCHANGED <<skills, drawn, client, rules, tools, cache>>
    BY DEF Serve, Query, Default, Hit, Build, Keep, Permit, ReadRule, Decide, OnlyCalls, catalogue, policy, local
  <1>4. PICK c : /\ Goes(t, c)
                 /\ \/ \E rests : c = Answer(q, rests)
                    \/ q.at \in Elsewhere /\
                       \/ \E place \in Elsewhere : \E rests : c = [q EXCEPT !.at = place, !.rests = rests]
                       \/ \E place \in Elsewhere : \E arg : c = [q EXCEPT !.at = place, !.arg = arg]
                       \/ \E arg, rests : c = [q EXCEPT !.rests = rests, !.arg = arg]
    <2>1. CASE Serve(t)
      BY <1>1, <2>1 DEF Serve
    <2>2. CASE Query(t)
      BY <1>1, <1>2, <2>2 DEF Query, Elsewhere
    <2>3. CASE Default(t)
      BY <1>1, <1>2, <2>3 DEF Default
    <2>4. CASE Hit(t)
      BY <1>1, <2>4 DEF Hit, Elsewhere
    <2>5. CASE Build(t)
      BY <1>1, <2>5 DEF Build, Elsewhere
    <2>6. CASE Keep(t) \/ Decide(t)
      BY <1>1, <2>6 DEF Keep, Decide
    <2>7. CASE Permit(t)
      BY <1>1, <2>7 DEF Permit, Elsewhere
    <2>8. CASE ReadRule(t)
      <3>1. PICK level, rests : /\ level = q.arg
                                /\ rests = q.rests \union {<<<<"rule", level>>, rules[level]>>}
        OBVIOUS
      <3>2. PICK read : read = [q EXCEPT !.rests = rests] /\ q.at = "rule"
                        /\ (Goes(t, [read EXCEPT !.arg = @ + 1]) \/ Goes(t, [read EXCEPT !.at = "decide"]))
        BY <1>1, <2>8, <3>1 DEF ReadRule
      <3>3. Whole(read) /\ read.arg = q.arg
        BY <1>1, <3>2 DEF Whole, Fields
      <3>4. /\ [read EXCEPT !.arg = @ + 1] = [q EXCEPT !.rests = rests, !.arg = q.arg + 1]
            /\ [read EXCEPT !.at = "decide"] = [q EXCEPT !.at = "decide", !.rests = rests]
        BY <1>1, <3>2
      <3> QED
        BY <1>1, <3>2, <3>4 DEF Elsewhere
    <2> QED
      BY <2>1, <2>2, <2>3, <2>4, <2>5, <2>6, <2>7, <2>8
  <1>5. Typed(c)
    <2>1. ASSUME q.at \in Elsewhere,
                 \/ \E place \in Elsewhere : \E rests : c = [q EXCEPT !.at = place, !.rests = rests]
                 \/ \E place \in Elsewhere : \E arg : c = [q EXCEPT !.at = place, !.arg = arg]
                 \/ \E arg, rests : c = [q EXCEPT !.rests = rests, !.arg = arg]
          PROVE  Typed(c)
      <3>1. Keeps(c, q, {"at", "rests", "arg"}) /\ c.at \in Elsewhere
        <4>1. ASSUME NEW place \in Elsewhere, NEW rests, c = [q EXCEPT !.at = place, !.rests = rests]
              PROVE  Keeps(c, q, {"at", "rests", "arg"}) /\ c.at \in Elsewhere
          BY <1>1, <4>1 DEF Keeps, Whole, Fields
        <4>2. ASSUME NEW place \in Elsewhere, NEW arg, c = [q EXCEPT !.at = place, !.arg = arg]
              PROVE  Keeps(c, q, {"at", "rests", "arg"}) /\ c.at \in Elsewhere
          BY <1>1, <4>2 DEF Keeps, Whole, Fields
        <4>3. ASSUME NEW arg, NEW rests, c = [q EXCEPT !.rests = rests, !.arg = arg]
              PROVE  Keeps(c, q, {"at", "rests", "arg"}) /\ c.at \in Elsewhere
          BY <1>1, <2>1, <4>3 DEF Keeps, Whole, Fields
        <4> QED
          BY <2>1, <4>1, <4>2, <4>3
      <3>2. q.op \notin {"put", "templates"}
        BY <1>1, <2>1 DEF Typed
      <3> QED
        BY <1>1, <3>1, <3>2, ElsewhereTyped
    <2> QED
      BY <1>1, <1>4, <2>1, AnswerTyped
  <1> QED
    BY <1>3, <1>4, <1>5, QuietTyped

LEMMA WiderSeq == ASSUME NEW S, NEW T, S \subseteq T, NEW s \in Seq(S) PROVE s \in Seq(T)
  OBVIOUS

\* The last sessions' skills, and what is left of a list of them.
LEMMA NarrowTyped == ASSUME SkillsInv, TypedInv, NEW t \in Thread, Narrow(t) PROVE TypedInv'
  <1>1. PICK q : q = calls[t] /\ Whole(q) /\ Typed(q) /\ drawn \in Nat /\ q.at = "narrow" /\ Len(InitialSkills) <= drawn
    BY Typing DEF Narrow, Stored
  <1>2. PICK enabled : enabled = IF client = None THEN None ELSE client.enabled
    OBVIOUS
  <1>3. PICK c : /\ Goes(t, c)
                 /\ \/ c = Answer(q, q.rests \union TheClient)
                    \/ q.op = "me" /\ c = [q EXCEPT !.at = "default", !.rests = TheClient]
                    \/ q.op = "recent" /\ c = [q EXCEPT !.at = "resume", !.todo = Resumable, !.rests = TheClient,
                                                        !.arg = enabled]
    BY <1>1, <1>2 DEF Narrow
  <1>4. ASSUME q.op = "me", c = [q EXCEPT !.at = "default", !.rests = TheClient] PROVE Typed(c)
    <2>1. Keeps(c, q, {"at", "rests", "arg"}) /\ c.at = "default"
      BY <1>1, <1>4 DEF Keeps, Whole, Fields
    <2> QED
      BY <1>1, <1>4, <2>1, ElsewhereTyped DEF Elsewhere
  <1>5. ASSUME q.op = "recent",
               c = [q EXCEPT !.at = "resume", !.todo = Resumable, !.rests = TheClient, !.arg = enabled]
        PROVE  Typed(c)
    <2>1. PICK half : half = [q EXCEPT !.at = "resume", !.todo = Resumable]
      OBVIOUS
    <2>2. Whole(half) /\ half.at = "resume" /\ half.todo = Resumable /\ \A f \in Fields \ {"at", "todo"} : half[f] = q[f]
      BY <1>1, <2>1 DEF Whole, Fields
    <2>3. c = [half EXCEPT !.rests = TheClient, !.arg = enabled]
      BY <1>5, <2>1
    <2>4. Keeps(c, q, {"at", "todo", "rests", "arg"}) /\ c.at = "resume" /\ c.todo = Resumable
      BY <2>2, <2>3 DEF Keeps, Whole, Fields
    <2>5. Resumable \in Seq(1 .. drawn)
      <3>1. 1 .. Len(InitialSkills) \subseteq 1 .. drawn
        BY <1>1, CatalogueAssumption
      <3> QED
        BY ONLY <3>1, LastSessions, WiderSeq
    <2>6. c.op = "recent" /\ c.id = q.id /\ c.public = q.public /\ c.got = q.got
      BY <1>5, <2>4 DEF Keeps, Fields
    <2> QED
      BY <1>1, <2>4, <2>5, <2>6 DEF Typed, Elsewhere
  <1> QED
    BY <1>1, <1>3, <1>4, <1>5, AnswerTyped, QuietTyped DEF Narrow, OnlyCalls, catalogue, policy, local

LEMMA ResumeTyped == ASSUME SkillsInv, TypedInv, NEW t \in Thread, Resume(t) PROVE TypedInv'
  <1>1. PICK q : q = calls[t] /\ Whole(q) /\ Placed(q) /\ Typed(q) /\ drawn \in Nat /\ q.op = "recent"
    BY Typing DEF Resume
  <1>2. PICK S, todo : S = 1 .. drawn /\ todo = q.todo
    OBVIOUS
  <1>3. todo \in Seq(S)
    BY <1>1, <1>2 DEF Typed
  <1>4. PICK c : /\ Goes(t, c)
                 /\ \/ \E rests : c = Answer(q, rests)
                    \/ q.at = "resume" /\ todo # <<>> /\ c = [q EXCEPT !.at = "look", !.id = Head(todo)]
                    \/ q.at = "got" /\ c = [q EXCEPT !.at = "resume", !.todo = Tail(todo), !.got = None, !.id = 0]
    BY <1>1, <1>2 DEF Resume, Looks
  <1>5. ASSUME todo # <<>>, c = [q EXCEPT !.at = "look", !.id = Head(todo)] PROVE Typed(c)
    <2>1. Keeps(c, q, {"at", "id"}) /\ c.at = "look" /\ c.id = Head(todo)
      BY <1>1, <1>5 DEF Keeps, Whole, Fields
    <2>2. Head(todo) \in S
      BY ONLY <1>3, <1>5, TailOf
    <2>3. c.id \in 1 .. drawn
      BY <1>2, <2>1, <2>2
    <2> QED
      BY <1>1, <2>1, <2>3 DEF Typed, Keeps, Fields, Elsewhere
  <1>6. ASSUME q.at = "got", c = [q EXCEPT !.at = "resume", !.todo = Tail(todo), !.got = None, !.id = 0] PROVE Typed(c)
    <2>1. Keeps(c, q, {"at", "todo", "got", "id"}) /\ c.at = "resume" /\ c.todo = Tail(todo) /\ c.got = None /\ c.id = 0
      BY <1>1, <1>6 DEF Keeps, Whole, Fields
    <2>2. c.op = "recent" /\ c.public = q.public
      BY <1>1, <2>1 DEF Keeps, Fields
    <2>3. todo # <<>>
      BY <1>1, <1>2, <1>6 DEF Placed, Looking, Writing, Loops
    <2>4. c.todo \in Seq(S)
      BY <1>3, <2>1, <2>3, TailOf
    <2>5. c.todo \in Seq(1 .. drawn)
      BY <1>2, <2>4
    <2> QED
      BY <1>1, <2>1, <2>2, <2>5 DEF Typed, Elsewhere
  <1> QED
    BY <1>1, <1>4, <1>5, <1>6, AnswerTyped, QuietTyped DEF Resume, OnlyCalls, catalogue, policy, local

-----------------------------------------------------------------------------
LEMMA FindSlugTyped == ASSUME SkillsInv, TypedInv, NEW t \in Thread, FindSlug(t) PROVE TypedInv'
  <1>1. PICK q : q = calls[t] /\ Whole(q) /\ Typed(q) /\ drawn \in Nat /\ q.at = "slug"
    BY Typing DEF FindSlug
  <1>2. PICK arg : arg = q.arg /\ arg \in Skill /\ arg.slug \in Slugs
    BY <1>1 DEF Typed
  <1>3. PICK b, n : b \in Bases /\ n \in Nat \ {0} /\ arg.slug = <<b, n>>
    BY <1>2 DEF Slugs
  <1>4. PICK c : /\ Goes(t, c)
                 /\ \/ c = [q EXCEPT !.arg.slug[2] = @ + 1]
                    \/ \E claim : c = [q EXCEPT !.at = "create", !.claims = @ \union {claim}, !.lost = @ \ {claim}]
    BY <1>1 DEF FindSlug
  <1>5. ASSUME c = [q EXCEPT !.arg.slug[2] = @ + 1] PROVE Typed(c)
    <2>1. PICK slug : slug = [<<b, n>> EXCEPT ![2] = n + 1]
      OBVIOUS
    <2>2. slug \in Slugs
      BY <1>3, <2>1 DEF Slugs
    <2>3. PICK new : new = [arg EXCEPT !.slug = slug]
      OBVIOUS
    <2>4. c = [q EXCEPT !.arg = new]
      BY <1>2, <1>3, <1>5, <2>1, <2>3
    <2>5. new \in Skill /\ new.slug = slug
      BY <1>2, <2>2, <2>3 DEF Skill
    <2>6. /\ Keeps(c, q, {"arg"}) /\ c.arg = new
      BY <1>1, <2>4 DEF Keeps, Whole, Fields
    <2> QED
      BY <1>1, <2>2, <2>5, <2>6 DEF Typed, Keeps, Fields, Elsewhere
  <1>6. ASSUME NEW claim, c = [q EXCEPT !.at = "create", !.claims = @ \union {claim}, !.lost = @ \ {claim}]
        PROVE  Typed(c)
    <2>1. Keeps(c, q, {"at", "claims", "lost"}) /\ c.at = "create"
      BY <1>1, <1>6 DEF Keeps, Whole, Fields
    <2> QED
      BY <1>1, <2>1 DEF Typed, Keeps, Fields, Elsewhere
  <1> QED
    BY <1>4, <1>5, <1>6, QuietTyped DEF FindSlug, OnlyCalls, catalogue, policy, local

\* A skill is written, and what another claims may be lost by it.
LEMMA SkillWritten ==
  ASSUME SkillsInv, TypedInv, drawn' \in Nat, drawn <= drawn', NEW s, NEW v, v = None \/ v \in Skill,
         skills' = [skills EXCEPT ![s] = v], UNCHANGED <<client, rules, tools, cache>>
  PROVE  Stored'
  <1>1. drawn \in Nat /\ \A r \in SkillId : skills'[r] = v \/ skills'[r] = skills[r]
    BY Numbered DEF SkillsInv, SkillsTypes
  <1>2. 1 .. drawn \subseteq 1 .. drawn' /\ Len(InitialSkills) <= drawn'
    <2>1. Len(InitialSkills) \in Nat
      BY CatalogueAssumption
    <2> QED
      BY <1>1, <2>1 DEF TypedInv, Stored
  <1>3. \A r \in Existing' : skills'[r] \in Skill
    BY <1>1 DEF TypedInv, Stored, Existing
  <1>4. \A i \in Instance, r \in SkillId : Cached(cache[i][r], r)'
    <2>1. \A r \in SkillId : r <= drawn => r <= drawn'
      BY <1>1 DEF SkillId
    <2> QED
      BY <2>1 DEF TypedInv, Stored, Cached
  <1> QED
    BY <1>2, <1>3, <1>4 DEF TypedInv, Stored

LEMMA TakesTyped ==
  ASSUME SkillsInv, TypedInv, drawn' \in Nat, drawn <= drawn', Stored',
         NEW t \in Thread, NEW c, NEW W, Takes(t, c, W), Typed(c)'
  PROVE  TypedInv'
  <1>1. ASSUME NEW u \in Thread PROVE Typed(calls[u])'
    <2>1. PICK p : p = calls[u] /\ Whole(p) /\ Typed(p) /\ drawn \in Nat
      BY Typing
    <2>2. PICK d : d = calls'[u] /\ (d = c \/ \E lost : d = [p EXCEPT !.lost = lost])
      BY <2>1 DEF Takes
    <2>3. ASSUME NEW lost, d = [p EXCEPT !.lost = lost] PROVE Typed(d)
      <3>1. Keeps(d, p, {"drop", "mixed", "rests", "claims", "lost"})
        BY <2>1, <2>3 DEF Keeps, Whole, Fields
      <3> QED
        BY <2>1, <3>1, AsideTyped
    <2>4. Typed(d)'
      BY <2>1, <2>2, <2>3, TypedLater
    <2> QED
      BY <2>2, <2>4 DEF Typed
  <1> QED
    BY <1>1 DEF TypedInv

LEMMA CreateTyped == ASSUME SkillsInv, TypedInv, NEW t \in Thread, Create(t) PROVE TypedInv'
  <1>1. PICK q : q = calls[t] /\ Whole(q) /\ Typed(q) /\ drawn \in Nat /\ q.at = "create"
    BY Typing DEF Create
  <1>2. PICK s, arg : s = drawn + 1 /\ arg = q.arg
    OBVIOUS
  <1>3. PICK c : c = [q EXCEPT !.at = "invalidate", !.id = s, !.got = arg]
    OBVIOUS
  <1>4. PICK W : Takes(t, c, W)
    BY <1>1, <1>2, <1>3 DEF Create
  <1>5. skills' = [skills EXCEPT ![s] = arg] /\ drawn' = s /\ UNCHANGED <<client, rules, tools, cache>>
    BY <1>1, <1>2 DEF Create, policy, local
  <1>6. arg \in Skill /\ ~q.again
    BY <1>1, <1>2 DEF Typed
  <1>7. drawn' \in Nat /\ drawn <= drawn'
    BY <1>1, <1>2, <1>5
  <1>8. Stored'
    BY <1>5, <1>6, <1>7, SkillWritten
  <1>9. Typed(c)'
    <2>1. Typed(q)'
      BY <1>1, <1>7, TypedLater
    <2>2. Keeps(c, q, {"at", "id", "got"}) /\ c.at = "invalidate" /\ c.id = s /\ c.got = arg
      BY <1>1, <1>3 DEF Keeps, Whole, Fields
    <2>3. c.id \in 0 .. drawn'
      BY <1>1, <1>2, <1>5, <2>2
    <2> QED
      BY <1>6, <2>1, <2>2, <2>3 DEF Typed, Keeps, Fields, Elsewhere
  <1> QED
    BY <1>4, <1>7, <1>8, <1>9, TakesTyped

LEMMA GateTyped == ASSUME SkillsInv, TypedInv, NEW t \in Thread, Gate(t) PROVE TypedInv'
  <1>1. PICK q : q = calls[t] /\ Whole(q) /\ Typed(q) /\ drawn \in Nat /\ q.at = "got" /\ ~q.again
                 /\ q.op \in {"put", "delete", "fork"}
    BY Typing DEF Gate
  <1>2. PICK copy : copy = [owner |-> q.ctx.uid, name |-> ForkName, slug |-> None, access |-> Private]
    OBVIOUS
  <1>3. PICK c : /\ Goes(t, c)
                 /\ \/ q.op = "fork" /\ c = [q EXCEPT !.at = "create", !.arg = copy]
                    \/ c = [q EXCEPT !.at = "check"]
                    \/ c = [q EXCEPT !.at = "look", !.id = q.id, !.again = TRUE]
                    \/ c = Answer(q, {})
    BY <1>1, <1>2 DEF Gate, Move, LooksAgain, Visible
  <1>4. ASSUME q.op = "fork", c = [q EXCEPT !.at = "create", !.arg = copy] PROVE Typed(c)
    <2>1. Keeps(c, q, {"at", "arg"}) /\ c.at = "create" /\ c.arg = copy
      BY <1>1, <1>4 DEF Keeps, Whole, Fields
    <2>2. copy \in Skill
      <3>1. q.ctx.uid \in Owners /\ Private \in Accesses
        BY <1>1, <1>4, ContentsAssumption DEF Typed
      <3> QED
        BY <1>2, <3>1 DEF Skill
    <2> QED
      BY <1>1, <1>4, <2>1, <2>2 DEF Typed, Keeps, Fields, Elsewhere
  <1>5. ASSUME c = [q EXCEPT !.at = "check"] PROVE Typed(c)
    <2>1. Keeps(c, q, {"at"}) /\ c.at = "check"
      BY <1>1, <1>5 DEF Keeps, Whole, Fields
    <2> QED
      BY <1>1, <2>1 DEF Typed, Keeps, Fields, Elsewhere
  <1>6. ASSUME c = [q EXCEPT !.at = "look", !.id = q.id, !.again = TRUE] PROVE Typed(c)
    <2>1. Keeps(c, q, {"at", "again"}) /\ c.at = "look"
      BY <1>1, <1>6 DEF Keeps, Whole, Fields
    <2> QED
      BY <1>1, <2>1 DEF Typed, Keeps, Fields, Elsewhere
  <1> QED
    BY <1>1, <1>3, <1>4, <1>5, <1>6, AnswerTyped, QuietTyped DEF Gate, OnlyCalls, catalogue, policy, local

LEMMA CheckTyped == ASSUME SkillsInv, TypedInv, NEW t \in Thread, CheckSlug(t) PROVE TypedInv'
  <1>1. PICK q : q = calls[t] /\ Whole(q) /\ Placed(q) /\ Typed(q) /\ drawn \in Nat /\ q.at = "check" /\ q.op = "put"
    BY Typing DEF CheckSlug, Placed
  <1>2. PICK again : again = [q EXCEPT !.at = "look", !.id = q.id, !.again = TRUE]
    OBVIOUS
  <1>3. PICK c : Goes(t, c) /\ (c = Answer(q, {}) \/ \E claims : c = [again EXCEPT !.claims = claims])
    BY <1>1, <1>2 DEF CheckSlug, LooksAgain
  <1>4. ASSUME NEW claims, c = [again EXCEPT !.claims = claims] PROVE Typed(c)
    <2>1. Keeps(again, q, {"at", "again"}) /\ again.at = "look"
      BY <1>1, <1>2 DEF Keeps, Whole, Fields
    <2>2. Keeps(c, q, {"at", "again", "claims"}) /\ c.at = "look"
      BY <1>4, <2>1 DEF Keeps, Whole, Fields
    <2> QED
      BY <1>1, <2>2 DEF Typed, Keeps, Fields, Elsewhere
  <1> QED
    BY <1>1, <1>3, <1>4, AnswerTyped, QuietTyped DEF CheckSlug, OnlyCalls, catalogue, policy, local

LEMMA UpdateTyped == ASSUME SkillsInv, TypedInv, NEW t \in Thread, Update(t) PROVE TypedInv'
  <1>1. PICK q : /\ q = calls[t] /\ CallOK(q) /\ Whole(q) /\ Typed(q) /\ drawn \in Nat /\ Stored /\ q.at = "got"
                 /\ q.again /\ q.op \in {"put", "templates"} /\ q.id \in SkillId
    BY Typing DEF Update, Looking
  <1>2. UNCHANGED <<drawn, client, rules, tools, cache>>
    BY DEF Update, policy, local
  <1>3. CASE (Goes(t, Finished(q)) \/ Goes(t, Raised(q))) /\ UNCHANGED skills
    <2>1. Typed(Finished(q)) /\ Typed(Raised(q))
      BY <1>1, FinishedTyped, RaisedTyped DEF Looking
    <2> QED
      BY <1>2, <1>3, <2>1, QuietTyped
  <1>4. CASE /\ skills[q.id] # None /\ skills' = [skills EXCEPT ![q.id] = Edited(@, q.arg)]
             /\ \E W : Takes(t, [q EXCEPT !.at = "invalidate"], W)
    <2>1. PICK old, new, c : old = skills[q.id] /\ new = Edited(old, q.arg) /\ c = [q EXCEPT !.at = "invalidate"]
      OBVIOUS
    <2>2. PICK W : Takes(t, c, W)
      BY <1>4, <2>1
    <2>3. skills' = [skills EXCEPT ![q.id] = new]
      BY <1>4, <2>1
    <2>4. new \in Skill
      <3>1. old \in Skill
        BY <1>1, <1>4, <2>1 DEF Stored, Existing
      <3>2. q.arg \in Edit
        BY <1>1 DEF Typed
      <3>3. PICK slug, access : /\ slug = IF q.arg.slug = None THEN old.slug ELSE q.arg.slug
                                /\ access = IF q.arg.access = None THEN old.access ELSE q.arg.access
        OBVIOUS
      <3>4. slug \in Slugs \union {None} /\ access \in Accesses
        BY <3>1, <3>2, <3>3 DEF Skill, Edit
      <3>5. new = [old EXCEPT !.slug = slug, !.access = access]
        BY <2>1, <3>1, <3>3 DEF Edited, Skill
      <3> QED
        BY <3>1, <3>4, <3>5 DEF Skill
    <2>5. drawn' \in Nat /\ drawn <= drawn'
      BY <1>1, <1>2
    <2>6. Stored'
      BY <1>2, <2>3, <2>4, <2>5, SkillWritten
    <2>7. Typed(c)'
      <3>1. Keeps(c, q, {"at"}) /\ c.at = "invalidate"
        BY <1>1, <2>1 DEF Keeps, Whole, Fields
      <3>2. Typed(c)
        BY <1>1, <3>1 DEF Typed, Keeps, Fields, Elsewhere
      <3> QED
        BY <1>1, <2>5, <3>2, TypedLater
    <2> QED
      BY <2>2, <2>5, <2>6, <2>7, TakesTyped
  <1> QED
    BY <1>1, <1>3, <1>4 DEF Update

LEMMA EraseTyped == ASSUME SkillsInv, TypedInv, NEW t \in Thread, Erase(t) PROVE TypedInv'
  <1>1. PICK q : /\ q = calls[t] /\ CallOK(q) /\ Whole(q) /\ Typed(q) /\ drawn \in Nat /\ q.at = "got" /\ q.again
    BY Typing DEF Erase
  <1>2. UNCHANGED <<drawn, client, rules, tools, cache>>
    BY DEF Erase, policy, local
  <1>3. CASE Goes(t, Finished(q)) /\ UNCHANGED skills
    <2>1. Typed(Finished(q))
      BY <1>1, FinishedTyped DEF Looking
    <2> QED
      BY <1>2, <1>3, <2>1, QuietTyped
  <1>4. CASE skills' = [skills EXCEPT ![q.id] = None] /\ Goes(t, [q EXCEPT !.at = "invalidate"])
    <2>1. drawn' \in Nat /\ drawn <= drawn' /\ UNCHANGED <<client, rules, tools, cache>>
      BY <1>1, <1>2
    <2>0. Stored'
      <3>1. skills' = [skills EXCEPT ![q.id] = None]
        BY <1>4
      <3> QED
        BY <2>1, <3>1, SkillWritten
    <2>2. PICK c : c = [q EXCEPT !.at = "invalidate"]
      OBVIOUS
    <2>3. Keeps(c, q, {"at"}) /\ c.at = "invalidate"
      BY <1>1, <2>2 DEF Keeps, Whole, Fields
    <2>4. Typed(c)
      BY <1>1, <2>3 DEF Typed, Keeps, Fields, Elsewhere
    <2> QED
      BY <1>2, <1>4, <2>0, <2>2, <2>4, OneTyped
  <1> QED
    BY <1>1, <1>3, <1>4 DEF Erase

-----------------------------------------------------------------------------
\* The seed: the lists it goes through are of skills there are and of templates.
LEMMA WildcardTyped == ASSUME SkillsInv, TypedInv, NEW t \in Thread, GrantWildcard(t) PROVE TypedInv'
  <1>1. PICK q : q = calls[t] /\ Whole(q) /\ Typed(q) /\ Stored /\ SkillsTypes /\ q.op = "seed"
                 /\ q.at \in {"grant", "allow"}
    BY Typing DEF GrantWildcard
  <1>2. PICK place \in {"allow", "previous"} : Goes(t, [q EXCEPT !.at = place])
    BY <1>1 DEF GrantWildcard, Move
  <1>3. PICK c : c = [q EXCEPT !.at = place]
    OBVIOUS
  <1>4. Keeps(c, q, {"at"}) /\ c.at = place
    BY <1>1, <1>3 DEF Keeps, Whole, Fields
  <1>5. Typed(c)
    BY <1>1, <1>4 DEF Typed, Keeps, Fields, Elsewhere
  <1>6. UNCHANGED <<skills, drawn, client, tools, cache>>
    BY DEF GrantWildcard, catalogue, local
  <1>7. \A l \in Levels : rules'[l] \in {"allow", rules[l]}
    BY <1>1 DEF GrantWildcard, SkillsTypes
  <1>8. Stored'
    BY <1>1, <1>6, <1>7 DEF Stored, Cached, Existing
  <1> QED
    BY <1>2, <1>3, <1>5, <1>6, <1>8, OneTyped

LEMMA PreviousTyped == ASSUME SkillsInv, TypedInv, NEW t \in Thread, ListPrevious(t) PROVE TypedInv'
  <1>1. PICK q : /\ q = calls[t] /\ Whole(q) /\ Placed(q) /\ Typed(q) /\ drawn \in Nat
                 /\ q.op = "seed" /\ q.at = "previous" /\ \A s \in Existing : s \in 1 .. drawn
    BY Typing DEF ListPrevious, At
  <1>2. PICK owned, todo : owned = OwnedBy(PreviousOwner) /\ todo = SetToSeq(owned)
    OBVIOUS
  <1>3. PICK c : Goes(t, c) /\ c = [q EXCEPT !.at = "next", !.todo = todo]
    BY <1>1, <1>2 DEF ListPrevious
  <1>4. todo \in Seq(1 .. drawn)
    <2>1. owned \in SUBSET SkillId /\ owned \subseteq 1 .. drawn
      BY <1>1, <1>2 DEF OwnedBy, Existing
    <2>2. todo \in Seq(owned)
      BY <1>2, <2>1, ListsSkills
    <2> QED
      BY ONLY <2>1, <2>2, WiderSeq
  <1>5. Keeps(c, q, {"at", "todo"}) /\ c.at = "next" /\ c.todo = todo
    BY <1>1, <1>3 DEF Keeps, Whole, Fields
  <1>6. ~q.again
    BY <1>1 DEF Typed
  <1>7. Typed(c)
    BY <1>1, <1>4, <1>5, <1>6 DEF Typed, Keeps, Fields, Elsewhere
  <1> QED
    BY <1>3, <1>7, QuietTyped DEF ListPrevious, OnlyCalls, catalogue, policy, local

LEMMA ExistingTyped == ASSUME SkillsInv, TypedInv, NEW t \in Thread, ListExisting(t) PROVE TypedInv'
  <1>1. PICK q : /\ q = calls[t] /\ Whole(q) /\ Placed(q) /\ Typed(q) /\ drawn \in Nat
                 /\ q.op = "seed" /\ q.at = "existing" /\ \A s \in Existing : s \in 1 .. drawn
    BY Typing DEF ListExisting, At
  <1>2. PICK names, claims : Goes(t, [q EXCEPT !.op = "templates", !.at = "next", !.todo = Templates,
                                         !.found = names, !.claims = claims])
                             /\ \A n \in DOMAIN names : names[n] \in OwnedBy(Platform)
    BY <1>1 DEF ListExisting
  <1>3. PICK half : half = [q EXCEPT !.op = "templates", !.at = "next", !.todo = Templates]
    OBVIOUS
  <1>4. PICK c : c = [half EXCEPT !.found = names, !.claims = claims]
    OBVIOUS
  <1>5. Keeps(half, q, {"op", "at", "todo"}) /\ half.op = "templates" /\ half.at = "next"
    BY <1>1, <1>3 DEF Keeps, Whole, Fields
  <1>6. /\ Keeps(c, q, {"op", "at", "todo", "found", "claims"}) /\ c.op = "templates" /\ c.at = "next"
        /\ c.found = names
    BY <1>4, <1>5 DEF Keeps, Whole, Fields
  <1>7. \A n \in DOMAIN names : names[n] \in 1 .. drawn
    BY <1>1, <1>2 DEF OwnedBy
  <1>8. ~q.again /\ q.got = None
    BY <1>1 DEF Typed, Placed, Blank
  <1>9. Typed(c)
    BY <1>1, <1>6, <1>7, <1>8 DEF Typed, Keeps, Fields, Elsewhere
  <1> QED
    BY <1>2, <1>3, <1>4, <1>9, QuietTyped DEF ListExisting, OnlyCalls, catalogue, policy, local

LEMMA PurgeTyped == ASSUME SkillsInv, TypedInv, NEW t \in Thread, NextPurge(t) PROVE TypedInv'
  <1>1. PICK q : q = calls[t] /\ Whole(q) /\ Placed(q) /\ Typed(q) /\ drawn \in Nat /\ q.op = "seed" /\ q.at = "next"
    BY Typing DEF NextPurge, At
  <1>2. PICK S, todo : S = 1 .. drawn /\ todo = q.todo
    OBVIOUS
  <1>3. todo \in Seq(S) /\ ~q.again
    BY <1>1, <1>2 DEF Typed
  <1>4. PICK c : /\ Goes(t, c)
                 /\ \/ c = [q EXCEPT !.at = "existing"]
                    \/ todo # <<>> /\ c = [q EXCEPT !.at = "look", !.id = Head(todo), !.again = TRUE]
    BY <1>1, <1>2 DEF NextPurge, Move, LooksAgain
  <1>5. ASSUME c = [q EXCEPT !.at = "existing"] PROVE Typed(c)
    <2>1. Keeps(c, q, {"at"}) /\ c.at = "existing"
      BY <1>1, <1>5 DEF Keeps, Whole, Fields
    <2> QED
      BY <1>1, <1>3, <2>1 DEF Typed, Keeps, Fields, Elsewhere
  <1>6. ASSUME todo # <<>>, c = [q EXCEPT !.at = "look", !.id = Head(todo), !.again = TRUE] PROVE Typed(c)
    <2>1. Keeps(c, q, {"at", "id", "again"}) /\ c.at = "look" /\ c.id = Head(todo)
      BY <1>1, <1>6 DEF Keeps, Whole, Fields
    <2>2. Head(todo) \in S
      BY ONLY <1>3, <1>6, TailOf
    <2>3. c.id \in 0 .. drawn
      BY <1>1, <1>2, <2>1, <2>2
    <2> QED
      BY <1>1, <2>1, <2>3 DEF Typed, Keeps, Fields, Elsewhere
  <1> QED
    BY <1>4, <1>5, <1>6, QuietTyped DEF NextPurge, OnlyCalls, catalogue, policy, local

LEMMA TemplateTyped == ASSUME SkillsInv, TypedInv, NEW t \in Thread, NextTemplate(t) PROVE TypedInv'
  <1>1. PICK q : q = calls[t] /\ Whole(q) /\ Placed(q) /\ Typed(q) /\ drawn \in Nat
                 /\ q.op = "templates" /\ q.at = "next"
    BY Typing DEF NextTemplate, At
  <1>2. PICK template, name, access : template = Head(q.todo) /\ name = template.name /\ access = template.access
    OBVIOUS
  <1>3. PICK new, edit : /\ new = [owner |-> Platform, name |-> name, slug |-> <<name, 1>>,
                                   access |-> IF access = None THEN OpenToAll ELSE access]
                         /\ edit = [slug |-> None, access |-> access]
    OBVIOUS
  <1>4. PICK again : again = [q EXCEPT !.at = "look", !.id = q.found[name], !.again = TRUE]
    OBVIOUS
  <1>5. PICK c : /\ Goes(t, c)
                 /\ \/ c = Answer(q, {})
                    \/ q.todo # <<>> /\ name \in DOMAIN q.found /\ c = [again EXCEPT !.arg = edit]
                    \/ q.todo # <<>> /\ name \notin DOMAIN q.found /\ c = [q EXCEPT !.at = "slug", !.arg = new]
    BY <1>1, <1>2, <1>3, <1>4 DEF NextTemplate, LooksAgain
  <1>6. ASSUME q.todo # <<>> PROVE name \in Bases /\ access \in Accesses \union {None}
    <2>1. PICK S, todo : S = Template /\ todo = q.todo
      OBVIOUS
    <2>2. todo \in Seq(S) /\ todo # <<>>
      BY <1>1, <1>6, <2>1 DEF Placed
    <2>3. Head(todo) \in S
      BY ONLY <2>2, TailOf
    <2>4. template \in Template
      BY <1>2, <2>1, <2>3
    <2> QED
      BY <1>2, <2>4 DEF Template
  <1>7. ASSUME q.todo # <<>>, name \in DOMAIN q.found, c = [again EXCEPT !.arg = edit] PROVE Typed(c)
    <2>1. Keeps(again, q, {"at", "id", "again"}) /\ again.at = "look" /\ again.id = q.found[name] /\ again.again = TRUE
      BY <1>1, <1>4 DEF Keeps, Whole, Fields
    <2>2. /\ Keeps(c, q, {"at", "id", "again", "arg"}) /\ c.at = "look" /\ c.id = q.found[name] /\ c.arg = edit
      BY <1>7, <2>1 DEF Keeps, Whole, Fields
    <2>3. edit \in Edit
      BY <1>3, <1>6, <1>7 DEF Edit
    <2>4. c.id \in 0 .. drawn
      BY <1>1, <1>7, <2>2 DEF Typed
    <2> QED
      BY <1>1, <2>2, <2>3, <2>4 DEF Typed, Keeps, Fields, Elsewhere
  <1>8. ASSUME q.todo # <<>>, c = [q EXCEPT !.at = "slug", !.arg = new] PROVE Typed(c)
    <2>1. Keeps(c, q, {"at", "arg"}) /\ c.at = "slug" /\ c.arg = new
      BY <1>1, <1>8 DEF Keeps, Whole, Fields
    <2>2. <<name, 1>> \in Slugs /\ Platform \in Owners
      BY <1>6, <1>8 DEF Slugs, Owners
    <2>3. new \in Skill /\ new.slug \in Slugs
      BY <1>3, <1>6, <1>8, <2>2, ContentsAssumption DEF Skill
    <2>4. ~q.again
      BY <1>1 DEF Typed
    <2> QED
      BY <1>1, <2>1, <2>3, <2>4 DEF Typed, Keeps, Fields, Elsewhere
  <1> QED
    BY <1>1, <1>5, <1>7, <1>8, AnswerTyped, QuietTyped DEF NextTemplate, OnlyCalls, catalogue, policy, local

LEMMA FailTyped == ASSUME SkillsInv, TypedInv, NEW t \in Thread, Fails(t) PROVE TypedInv'
  <1>1. PICK q : q = calls[t] /\ Whole(q) /\ Typed(q) /\ drawn \in Nat
    BY Typing
  <1>2. Goes(t, Raised(q)) /\ Typed(Raised(q))
    BY <1>1, RaisedTyped DEF Fails
  <1> QED
    BY <1>2, QuietTyped DEF Fails, OnlyCalls, catalogue, policy, local

-----------------------------------------------------------------------------
\* A request asks for a skill that has been there, and brings what it is to write.
LEMMA RequestTyped == ASSUME SkillsInv, ToolsKnown, TypedInv, NEW t \in Thread, Receive(t) PROVE TypedInv'
  <1>1. PICK c : Receives(t, c) /\ Routed(c)
    BY RequestRouted
  <1>2. drawn \in Nat /\ Stored
    BY Numbered DEF TypedInv
  <1>3. c.id \in 0 .. drawn
    <2>1. CASE c.at = "look"
      BY <1>1, <1>2, <2>1 DEF Routed, Stored, SkillId
    <2>2. CASE c.at # "look"
      BY <1>1, <1>2, <2>2 DEF Routed
    <2> QED
      BY <2>1, <2>2
  <1>4. c.op = "fork" => c.ctx.uid \in Owners
    BY <1>1 DEF Routed, Owners
  <1>5. c.todo \in Seq(1 .. drawn)
    BY <1>1 DEF Routed, Asks
  <1>6. Typed(c)
    BY <1>1, <1>2, <1>3, <1>4, <1>5 DEF Typed, Routed, Asks, Loops, Elsewhere
  <1> QED
    BY <1>1, <1>6, QuietTyped DEF Receives, catalogue, policy, local

LEMMA StepTyped == ASSUME SkillsInv, TypedInv, NEW t \in Thread, Step(t) PROVE TypedInv'
  <1>1. CASE \/ Look(t) \/ Evict(t) \/ Read(t) \/ Fill(t) \/ FindBySlug(t)
             \/ Invalidate(t) \/ QueryPublic(t) \/ SkipRebuild(t) \/ DropTool(t) \/ AddTools(t) \/ Reread(t)
    BY <1>1, LookTyped, EvictTyped, ReadTyped, FillTyped, FindTyped, InvalidateTyped, QueryPublicTyped, SkipTyped,
       DropTyped, AddTyped, RereadTyped
  <1>2. CASE \/ Serve(t) \/ Query(t) \/ Narrow(t) \/ Default(t) \/ Resume(t) \/ Hit(t) \/ Build(t) \/ Keep(t)
             \/ Permit(t) \/ ReadRule(t) \/ Decide(t)
    BY <1>2, ReadsTyped, NarrowTyped, ResumeTyped
  <1>3. CASE \/ FindSlug(t) \/ Create(t) \/ Gate(t) \/ CheckSlug(t) \/ Update(t) \/ Erase(t)
             \/ GrantWildcard(t) \/ ListPrevious(t) \/ ListExisting(t) \/ NextPurge(t) \/ NextTemplate(t)
             \/ Fails(t)
    BY <1>3, FindSlugTyped, CreateTyped, GateTyped, CheckTyped, UpdateTyped, EraseTyped, WildcardTyped,
       PreviousTyped, ExistingTyped, PurgeTyped, TemplateTyped, FailTyped
  <1> QED
    BY <1>1, <1>2, <1>3 DEF Step

LEMMA CallsTyped ==
  ASSUME TypedInv, UNCHANGED drawn, Stored', \A t \in Thread : calls'[t] = calls[t] \/ (calls'[t] = Idle /\ drawn \in Nat)
  PROVE  TypedInv'
  <1>1. ASSUME NEW t \in Thread PROVE Typed(calls[t])'
    <2>1. PICK c : c = calls'[t] /\ Typed(c)
      BY IdleTyped DEF TypedInv
    <2> QED
      BY <2>1 DEF Typed
  <1> QED
    BY <1>1 DEF TypedInv

LEMMA RestartTyped == ASSUME SkillsInv, TypedInv, NEW i \in Instance, Restart(i) PROVE TypedInv'
  <1>1. SkillsTypes /\ drawn \in Nat /\ Stored /\ \A s \in Existing : s \in 1 .. drawn
    BY Numbered DEF TypedInv, SkillsInv
  <1>2. UNCHANGED <<skills, drawn, client, rules>> /\ \A t \in Thread : calls'[t] \in {Idle, calls[t]}
    BY DEF Restart, catalogue, policy
  <1>3. \A j \in Instance, s \in SkillId : cache'[j][s] # None => cache'[j][s] = cache[j][s]
    BY <1>1, CacheGone DEF Restart
  <1>4. PICK listed \in {Public, {}} : tools' = [tools EXCEPT ![i] = listed]
    BY DEF Restart
  <1>5. \A j \in Instance : tools'[j] \subseteq 1 .. drawn
    <2>1. listed \subseteq 1 .. drawn
      BY <1>1 DEF Public
    <2>2. \A j \in Instance : tools'[j] = listed \/ tools'[j] = tools[j]
      BY <1>1, <1>4 DEF SkillsTypes
    <2> QED
      BY <1>1, <2>1, <2>2 DEF Stored
  <1>6. Stored'
    BY <1>1, <1>2, <1>3, <1>5 DEF Stored, Cached, Existing
  <1> QED
    BY <1>1, <1>2, <1>6, CallsTyped

LEMMA OtherTyped == ASSUME SkillsInv, TypedInv, EditClient \/ EditRule \/ Tick PROVE TypedInv'
  <1>1. UNCHANGED <<skills, drawn, tools, cache, calls>>
    BY DEF EditClient, EditRule, Tick, catalogue, local
  <1>2. client' \in Clients \union {None} /\ \A l \in Levels : rules'[l] \in {"allow", "deny", None}
    BY DEF EditClient, EditRule, Tick, policy, TypedInv, Stored, SkillsInv, SkillsTypes
  <1>3. Stored'
    BY <1>1, <1>2 DEF TypedInv, Stored, Cached, Existing
  <1> QED
    BY <1>1, <1>3, CallsTyped

LEMMA TypedInitially == SkillsInit => TypedInv
  <1> SUFFICES ASSUME SkillsInit PROVE TypedInv
    OBVIOUS
  <1>1. SkillsInv
    BY SkillsInitially
  <1>2. /\ drawn = Len(InitialSkills) /\ client = None /\ rules = [level \in Levels |-> None]
        /\ skills = [s \in SkillId |-> IF s \in DOMAIN InitialSkills THEN InitialSkills[s] ELSE None]
        /\ cache = [i \in Instance |-> [s \in SkillId |-> None]]
        /\ tools = [i \in Instance |-> Public] /\ calls = [t \in Thread |-> Idle]
    BY DEF SkillsInit
  <1>3. drawn \in Nat /\ \A s \in Existing : s \in 1 .. drawn
    BY <1>1, Numbered
  <1>4. \A s \in Existing : skills[s] \in Skill
    BY <1>2, CatalogueAssumption DEF Existing
  <1>5. Stored
    BY <1>2, <1>3, <1>4 DEF Stored, Cached, Public
  <1>6. Typed(Idle)
    BY <1>3, IdleTyped
  <1> QED
    BY <1>2, <1>5, <1>6 DEF TypedInv

LEMMA TypedStep ==
  ASSUME SkillsInv, ToolsKnown, TypedInv, SkillsNext \/ UNCHANGED skillsVars
  PROVE  TypedInv'
  <1>1. CASE UNCHANGED skillsVars
    <2>1. UNCHANGED <<skills, drawn, client, rules, tools, cache, calls>>
      BY <1>1 DEF skillsVars, catalogue, policy, local
    <2> QED
      BY <2>1, StoredStays, CallsTyped
  <1> QED
    BY <1>1, RequestTyped, StepTyped, RestartTyped, OtherTyped DEF SkillsNext

LEMMA TypedAlways == Spec => []TypedInv
  <1>1. Init => TypedInv
    BY TypedInitially DEF Init
  <1>2. (SkillsInv /\ ToolsKnown) /\ TypedInv /\ [Next]_vars => TypedInv'
    <2> SUFFICES ASSUME SkillsInv, ToolsKnown, TypedInv, [Next]_vars PROVE TypedInv'
      OBVIOUS
    <2>1. SkillsNext \/ UNCHANGED skillsVars
      BY DEF Next, vars
    <2> QED
      BY <2>1, TypedStep
  <1> QED
    BY <1>1, <1>2, SkillsAlways, PTL DEF Spec

LEMMA SkillsTyped == ASSUME SkillsInv, TypedInv PROVE SkillsTypeOK
  <1>1. SkillsTypes /\ CacheRecent /\ Stored /\ now \in Nat /\ drawn \in Nat
    BY TheTime DEF SkillsInv, TypedInv
  <1>2. skills \in [SkillId -> Skill \union {None}] /\ drawn \in 0 .. MaxSkills
    BY <1>1 DEF SkillsTypes, Stored, Existing
  <1>3. client \in Clients \union {None} /\ rules \in [Levels -> {"allow", "deny", None}]
    BY <1>1 DEF SkillsTypes, Stored
  <1>4. tools \in [Instance -> SUBSET (1 .. drawn)]
    BY <1>1 DEF SkillsTypes, Stored
  <1>5. ASSUME NEW i \in Instance, NEW s \in SkillId, cache[i][s] # None
        PROVE  s <= drawn /\ cache[i][s].at \in 0 .. now /\ cache[i][s].skill \in Skill
    <2>1. PICK entry : entry = cache[i][s]
      OBVIOUS
    <2>2. entry.at \in Nat /\ entry.at <= now
      BY <1>1, <1>5, <2>1 DEF CacheRecent
    <2>3. s <= drawn /\ entry.skill \in Skill
      BY <1>1, <1>5, <2>1 DEF Stored, Cached
    <2> QED
      BY <1>1, <2>1, <2>2, <2>3
  <1>6. \A t \in Thread : /\ calls[t].id \in 0 .. drawn /\ calls[t].since \in 0 .. now
                          /\ Busy(t) => now - calls[t].since <= Patience
    <2> TAKE t \in Thread
    <2>1. PICK c : c = calls[t] /\ Placed(c) /\ Typed(c)
      BY Typing
    <2>2. Busy(t) => now <= c.since + Patience
      BY <2>1 DEF Busy, Placed
    <2>3. c.since \in Nat /\ c.since <= now /\ Patience \in Nat
      BY <2>1, SkillBounds DEF Placed
    <2>4. c.id \in 0 .. drawn
      BY <2>1 DEF Typed
    <2> QED
      BY <1>1, <2>1, <2>2, <2>3, <2>4
  <1> QED
    BY <1>2, <1>3, <1>4, <1>5, <1>6 DEF SkillsTypeOK

LEMMA SharingTyped == ASSUME SharingInv PROVE SharingTypeOK
  <1>1. FolderTypes /\ Drawn /\ MadeTypes
    BY DEF SharingInv, FolderInv, MadeInv
  <1>2. \A u \in Uids : homes[u] \in Nat /\ profile[u] \in 0 .. corpora[u] /\ holding[u] \subseteq 1 .. corpora[u]
    <2> TAKE u \in Uids
    <2>1. homes[u] \in Nat /\ profile[u] \in Nat /\ corpora[u] \in Nat /\ holding[u] \subseteq Nat
      BY <1>1 DEF MadeTypes
    <2> QED
      BY <1>1, <2>1 DEF MadeTypes
  <1>3. \A t \in Thread : jobs[t].bucket \in BucketId \union {0} /\ jobs[t].folder \in 0 .. ids.folder
    <2> TAKE t \in Thread
    <2>1. PICK job : job = jobs[t] /\ job \in Job /\ job.folder <= ids.folder
      BY <1>1 DEF FolderTypes, Drawn
    <2>2. ids.folder \in Nat
      BY <1>1, FolderBounds DEF FolderTypes
    <2> QED
      BY <2>1, <2>2, FolderBounds DEF Job, FolderId
  <1> QED
    BY <1>1, <1>2, <1>3 DEF SharingTypeOK, FolderTypes

LEMMA PagesTyped == ASSUME PagesInv PROVE PagesTypeOK
  BY DEF PagesInv, PagesTypes, PagesTypeOK, Pager

\* Every variable keeps its type: skills, rules and caches hold what a skill, a rule or an
\* entry is, an identifier in use was drawn, no time is of the future, and no request is
\* older than the patience of its caller.
THEOREM TypeCorrect == Spec => []TypeOK
  <1>1. SkillsInv /\ TypedInv => SkillsTypeOK
    BY SkillsTyped
  <1>2. SharingInv => SharingTypeOK
    BY SharingTyped
  <1>3. PagesInv => PagesTypeOK
    BY PagesTyped
  <1> QED
    BY <1>1, <1>2, <1>3, SkillsAlways, TypedAlways, SharingAlways, PagesAlways, PTL DEF TypeOK
=============
