--------------------------- MODULE FileLifecycle ---------------------------
(***************************************************************************)
(* The public files of the media bucket: their rows in the database, their *)
(* objects in S3, the articles that use them, and the cleanup that collects *)
(* what no article has used for a while.                                    *)
(*                                                                         *)
(* A request is a transaction at READ COMMITTED.  Each of its statements   *)
(* sees what is committed at that moment; a statement that locks waits for *)
(* the row and then looks at its current version.  Its writes take effect  *)
(* at its commit; what it does to S3 takes effect at once.  It judges time *)
(* by the clock it read when it started.                                   *)
(***************************************************************************)
EXTENDS Naturals, FiniteSets, FiniteSetsExt

CONSTANTS
    Worker,    \* requests and cleanup tasks that can be in progress at a time
    Article,   \* slugs
    Content,   \* what a file holds: its purpose and its original SHA-256
    None,      \* no article, no content, and the orphaned_at of a file in use
    Grace,     \* orphan_retention_seconds, in ticks
    Batch,     \* orphan_cleanup_batch_size
    MaxFile,   \* bound on the files ever created
    MaxTime,   \* bound on the clock
    MaxFaults  \* bound on the removals from S3, and the requests after one, that fail

ASSUME FileAssumption ==
    /\ None \notin Article \cup Content \cup Nat
    /\ \A S \in SUBSET (1..MaxFile) : S # None
    /\ {Grace, Batch} \subseteq Nat \ {0}
    /\ {MaxFile, MaxTime, MaxFaults} \subseteq Nat

VARIABLES
    now,       \* the clock
    files,     \* identifiers with a row
    content,   \* what the file holds: original_sha256 and purpose
    orphaned,  \* orphaned_at of each row
    uses,      \* the files each article uses, None if there is no such article
    objects,   \* identifiers with an object in S3
    issued,    \* identifiers ever given to a file
    req,       \* requests in progress
    faults,    \* removals, and requests after one, that have failed
    dangling   \* rows whose object was removed by a request that then did not commit

rows == <<files, content, orphaned, uses>>
vars == <<now, rows, objects, issued, req, faults, dangling>>

FileId == 1..MaxFile
Time   == 0..MaxTime
Op     == {"upload", "create", "update", "deletearticle", "delete", "prune"}
At     == {"idle", "find", "put", "refresh", "store", "open", "check", "lock", "save",
           "wait", "remove", "drop", "list", "collect"}

\* since is the request's current_datetime; about the article or the content it is for;
\* want the files its article is to use and have those it used; rows what its current
\* statement found; locks the rows it holds; gone those whose object it has removed.
Request   == [at : At, op : Op \cup {None}, since : Time,
              about : Article \cup Content \cup {None},
              want : SUBSET FileId, have : SUBSET FileId, rows : SUBSET FileId,
              locks : SUBSET FileId, gone : SUBSET FileId]
NoRequest == [at |-> "idle", op |-> None, since |-> 0, about |-> None, want |-> {},
              have |-> {}, rows |-> {}, locks |-> {}, gone |-> {}]

Articles == {a \in Article : uses[a] # None}
Used     == UNION {uses[a] : a \in Articles}

\* The row is not locked by another request.
RowFree(w, f) == \A v \in Worker \ {w} : f \notin req[v].locks

\* The request has the row of the article it is about.
HoldsArticle(r) ==
    r.op \in {"update", "deletearticle"} /\ r.at \in {"check", "lock", "save"}

ArticleFree(w, a) == \A v \in Worker \ {w} : ~(HoldsArticle(req[v]) /\ req[v].about = a)

-----------------------------------------------------------------------------
(* Requests.                                                                *)

Begin(w, r) ==
    /\ req[w] = NoRequest
    /\ req' = [req EXCEPT ![w] = r]
    /\ UNCHANGED <<now, rows, objects, issued, faults, dangling>>

Becomes(w, r) ==
    /\ req' = [req EXCEPT ![w] = r]
    /\ UNCHANGED <<now, rows, objects, issued, faults, dangling>>

\* The request is over: it has committed, or found that it has nothing to do.
End(w) == req' = [req EXCEPT ![w] = NoRequest]

Refuse(w) == End(w) /\ UNCHANGED <<now, rows, objects, issued, faults, dangling>>

\* A call to S3 or a statement fails, the process stops or the commit does: the
\* transaction is rolled back, S3 stays as it is.
Break(w) ==
    /\ req[w].at # "idle"
    /\ req[w].gone # {} => faults < MaxFaults
    /\ faults' = IF req[w].gone # {} THEN faults + 1 ELSE faults
    /\ dangling' = dangling \cup req[w].gone
    /\ End(w)
    /\ UNCHANGED <<now, rows, objects, issued>>

-----------------------------------------------------------------------------
(* upload_file                                                              *)

Same(c) == {f \in files : content[f] = c}

\* The statement that looks for a duplicate: its rows are those it sees, it then waits
\* for the first of them that still exists.
StartUpload(w, c) ==
    Begin(w, [NoRequest EXCEPT !.at = "find", !.op = "upload", !.since = now, !.about = c,
                               !.rows = Same(c)])

\* Mutant: the row is read without a lock.
ReadDuplicate(w) ==
    /\ req[w].at = "find"
    /\ \E f \in req[w].rows \cap files :
          Becomes(w, [req[w] EXCEPT !.at = "refresh", !.rows = {f}])

LockDuplicate(w) ==
    /\ req[w].at = "find"
    /\ \E f \in req[w].rows \cap files :
          /\ RowFree(w, f)
          /\ Becomes(w, [req[w] EXCEPT !.at = "refresh", !.rows = {f}, !.locks = {f}])

\* Mutant: the grace period starts whether or not an article uses the file.
MarkDuplicate(w) ==
    /\ req[w].at = "refresh"
    /\ orphaned' = [f \in FileId |-> IF f \in req[w].rows THEN req[w].since ELSE orphaned[f]]
    /\ End(w)
    /\ UNCHANGED <<now, files, content, uses, objects, issued, faults, dangling>>

\* The duplicate is returned; if nothing uses it its grace period starts again.
CommitDuplicate(w) ==
    /\ req[w].at = "refresh"
    /\ orphaned' = [f \in FileId |-> IF f \in req[w].rows /\ orphaned[f] # None
                                       THEN req[w].since ELSE orphaned[f]]
    /\ End(w)
    /\ UNCHANGED <<now, files, content, uses, objects, issued, faults, dangling>>

CreateRow(w) ==
    /\ req[w].at = "find" /\ req[w].rows \cap files = {}
    /\ \E f \in FileId \ issued :
          /\ issued' = issued \cup {f}
          /\ req' = [req EXCEPT ![w].at = "put", ![w].rows = {f}]
    /\ UNCHANGED <<now, rows, objects, faults, dangling>>

\* The processor cannot read the image.
ContentRejected(w) ==
    /\ req[w].at = "find" /\ req[w].rows \cap files = {}
    /\ Refuse(w)

PutObject(w) ==
    /\ req[w].at = "put"
    /\ objects' = objects \cup req[w].rows
    /\ req' = [req EXCEPT ![w].at = "store"]
    /\ UNCHANGED <<now, rows, issued, faults, dangling>>

CommitUpload(w) ==
    /\ req[w].at = "store"
    /\ files' = files \cup req[w].rows
    /\ content' = [f \in FileId |-> IF f \in req[w].rows THEN req[w].about ELSE content[f]]
    /\ orphaned' = [f \in FileId |-> IF f \in req[w].rows THEN req[w].since ELSE orphaned[f]]
    /\ End(w)
    /\ UNCHANGED <<now, uses, objects, issued, faults, dangling>>

-----------------------------------------------------------------------------
(* create_article, update_article, delete_article                           *)

\* The author sees the articles and the files when the request is sent; all of them are
\* looked at again when it is served.
StartCreate(w, a, want) ==
    /\ a \notin Articles /\ want \subseteq files
    /\ Begin(w, [NoRequest EXCEPT !.at = "check", !.op = "create", !.about = a,
                                  !.want = want])

StartUpdate(w, a, want) ==
    /\ a \in Articles /\ want \subseteq files
    /\ Begin(w, [NoRequest EXCEPT !.at = "open", !.op = "update", !.since = now,
                                  !.about = a, !.want = want])

StartDeleteArticle(w, a) ==
    /\ a \in Articles
    /\ Begin(w, [NoRequest EXCEPT !.at = "open", !.op = "deletearticle", !.since = now,
                                  !.about = a])

\* The article's row is locked and read again.
OpenArticle(w) ==
    /\ req[w].at = "open" /\ req[w].about \in Articles
    /\ ArticleFree(w, req[w].about)
    /\ Becomes(w, [req[w] EXCEPT !.at = "check", !.have = uses[req[w].about]])

ArticleNotFound(w) ==
    /\ req[w].at = "open" /\ req[w].about \notin Articles
    /\ Refuse(w)

\* The rows still to lock are in rows.
Proceed(r) == [r EXCEPT !.at = IF r.rows = {} THEN "save" ELSE "lock"]

\* ensure_files_allowed, without a lock; then the statement that locks the rows of all
\* files involved, in the order of their identifiers.
CheckFiles(w) ==
    /\ req[w].at = "check" /\ req[w].want \subseteq files
    /\ Becomes(w, Proceed([req[w] EXCEPT !.rows = req[w].have \cup req[w].want]))

FilesNotFound(w) ==
    /\ req[w].at = "check" /\ ~ (req[w].want \subseteq files)
    /\ Refuse(w)

\* Mutant: an update locks the rows in another order than a creation.
NextByOperation(w) ==
    IF req[w].op = "create" THEN Min(req[w].rows) ELSE Max(req[w].rows)

NextRow(w) == Min(req[w].rows)

LockNext(w) ==
    /\ req[w].at = "lock" /\ RowFree(w, NextRow(w))
    /\ Becomes(w, Proceed([req[w] EXCEPT !.rows = @ \ {NextRow(w)},
                                         !.locks = @ \cup ({NextRow(w)} \cap files)]))

\* The insert is refused by the unique slug, or by a foreign key: a file is gone.
SaveRefused(w) ==
    /\ req[w].at = "save"
    /\ \/ req[w].op = "create" /\ req[w].about \in Articles
       \/ ~ (req[w].want \subseteq files)
    /\ Refuse(w)

\* The files an article uses lose their marker, those it used and no article uses any more
\* get one.
Marked(r, used) ==
    [f \in FileId |-> IF f \in r.want THEN None
                      ELSE IF f \in r.have \ (r.want \cup used) THEN r.since
                      ELSE orphaned[f]]

\* The article is written and its files follow.
CommitArticle(w) ==
    /\ req[w].at = "save"
    /\ req[w].op = "create" => req[w].about \notin Articles
    /\ req[w].want \subseteq files
    /\ uses' = [uses EXCEPT ![req[w].about] =
                   IF req[w].op = "deletearticle" THEN None ELSE req[w].want]
    /\ orphaned' = Marked(req[w], Used')
    /\ End(w)
    /\ UNCHANGED <<now, files, content, objects, issued, faults, dangling>>

-----------------------------------------------------------------------------
(* delete_file                                                              *)

StartDelete(w, f) ==
    /\ f \in files
    /\ Begin(w, [NoRequest EXCEPT !.at = "wait", !.op = "delete", !.rows = {f}])

\* Mutant: the usages are looked for without the lock.
CheckDelete(w) ==
    /\ req[w].at = "wait" /\ req[w].rows \subseteq files \ Used
    /\ Becomes(w, [req[w] EXCEPT !.at = "remove"])

\* The row is locked, then its usages are looked for.
LockDelete(w) ==
    /\ req[w].at = "wait" /\ req[w].rows \subseteq files \ Used
    /\ \A f \in req[w].rows : RowFree(w, f)
    /\ Becomes(w, [req[w] EXCEPT !.at = "remove", !.locks = req[w].rows])

DeleteRefused(w) ==
    /\ req[w].at = "wait" /\ ~ (req[w].rows \subseteq files \ Used)
    /\ \A f \in req[w].rows : RowFree(w, f)
    /\ Refuse(w)

RemoveObject(w) ==
    /\ req[w].at = "remove"
    /\ objects' = objects \ req[w].rows
    /\ req' = [req EXCEPT ![w].at = "drop", ![w].gone = req[w].rows]
    /\ UNCHANGED <<now, rows, issued, faults, dangling>>

\* Mutant: the rows stay behind, without what they held.
KeepRows(w) ==
    /\ orphaned' = [f \in FileId |-> IF f \in req[w].gone THEN None ELSE orphaned[f]]
    /\ content' = [f \in FileId |-> IF f \in req[w].gone THEN None ELSE content[f]]
    /\ dangling' = dangling \ req[w].gone
    /\ End(w)
    /\ UNCHANGED <<now, files, uses, objects, issued, faults>>

\* The rows whose objects are gone go too.  RESTRICT: unless an article uses one.  Those
\* the cleanup found in use lose their marker.
DropRows(w) ==
    /\ req[w].gone \cap Used = {}
    /\ files' = files \ req[w].gone
    /\ orphaned' = [f \in FileId |-> IF f \in req[w].gone \cup req[w].have THEN None
                                       ELSE orphaned[f]]
    /\ content' = [f \in FileId |-> IF f \in req[w].gone THEN None ELSE content[f]]
    /\ dangling' = dangling \ req[w].gone
    /\ End(w)
    /\ UNCHANGED <<now, uses, objects, issued, faults>>

CommitDelete(w) == req[w].at = "drop" /\ DropRows(w)

-----------------------------------------------------------------------------
(* prune_file_orphans                                                       *)

Stale(f, t) == orphaned[f] # None /\ orphaned[f] + Grace < t

Candidates(t) == {f \in files \ Used : Stale(f, t)}

StartPrune(w) ==
    /\ Candidates(now) # {}
    /\ Begin(w, [NoRequest EXCEPT !.at = "list", !.op = "prune", !.since = now,
                                  !.rows = Candidates(now)])

\* Mutant: a row that is still marked is taken, whenever it was marked.
LockableMarked(w) ==
    {f \in req[w].rows \cap files : RowFree(w, f) /\ orphaned[f] # None}

\* FOR UPDATE SKIP LOCKED: a row that changed since is looked at again.
Lockable(w) ==
    {f \in req[w].rows \cap files : RowFree(w, f) /\ Stale(f, req[w].since)}

\* The oldest of them, as many as a run takes.
Oldest(S) ==
    {f \in S : Cardinality({g \in S : \/ orphaned[g] < orphaned[f]
                                      \/ orphaned[g] = orphaned[f] /\ g < f}) < Batch}

LockOrphans(w) ==
    /\ req[w].at = "list"
    /\ LET batch == Oldest(Lockable(w))
       IN  Becomes(w, [req[w] EXCEPT !.at = "collect", !.rows = batch, !.locks = batch])

\* One file after the other: a file in use loses its marker and stays.
Collect(w, f) ==
    /\ req[w].at = "collect" /\ f \in req[w].rows
    /\ IF f \in Used
       THEN /\ req' = [req EXCEPT ![w].rows = @ \ {f}, ![w].have = @ \cup {f}]
            /\ UNCHANGED objects
       ELSE /\ req' = [req EXCEPT ![w].rows = @ \ {f}, ![w].gone = @ \cup {f}]
            /\ objects' = objects \ {f}
    /\ UNCHANGED <<now, rows, issued, faults, dangling>>

\* The object cannot be removed: the row is left to a later run.
KeepOrphan(w, f) ==
    /\ req[w].at = "collect" /\ f \in req[w].rows \ Used
    /\ faults < MaxFaults
    /\ faults' = faults + 1
    /\ req' = [req EXCEPT ![w].rows = @ \ {f}]
    /\ UNCHANGED <<now, rows, objects, issued, dangling>>

CommitPrune(w) ==
    /\ req[w].at = "collect" /\ req[w].rows = {}
    /\ DropRows(w)

-----------------------------------------------------------------------------
Tick ==
    /\ now < MaxTime
    /\ now' = now + 1
    /\ UNCHANGED <<rows, objects, issued, req, faults, dangling>>

Init ==
    /\ now = 0
    /\ files = {}
    /\ content = [f \in FileId |-> None]
    /\ orphaned = [f \in FileId |-> None]
    /\ uses = [a \in Article |-> None]
    /\ objects = {} /\ issued = {} /\ dangling = {}
    /\ req = [w \in Worker |-> NoRequest]
    /\ faults = 0

Start(w) ==
    \/ \E c \in Content : StartUpload(w, c)
    \/ \E a \in Article, want \in SUBSET FileId :
          StartCreate(w, a, want) \/ StartUpdate(w, a, want)
    \/ \E a \in Article : StartDeleteArticle(w, a)
    \/ \E f \in FileId : StartDelete(w, f)
    \/ StartPrune(w)

\* The statements that wait for a row.
Waiting(w) == LockDuplicate(w) \/ OpenArticle(w) \/ LockNext(w) \/ LockDelete(w)

\* The other ones.
Going(w) ==
    \/ CommitDuplicate(w) \/ CreateRow(w) \/ ContentRejected(w) \/ PutObject(w) \/ CommitUpload(w)
    \/ ArticleNotFound(w) \/ CheckFiles(w) \/ FilesNotFound(w)
    \/ SaveRefused(w) \/ CommitArticle(w)
    \/ DeleteRefused(w) \/ RemoveObject(w) \/ CommitDelete(w)
    \/ LockOrphans(w) \/ CommitPrune(w)
    \/ \E f \in FileId : Collect(w, f) \/ KeepOrphan(w, f)

Next ==
    \/ \E w \in Worker : Start(w) \/ Waiting(w) \/ Going(w) \/ Break(w)
    \/ Tick

Spec == Init /\ [][Next]_vars

-----------------------------------------------------------------------------
(* Properties.                                                              *)

TypeOK ==
    /\ now \in Time /\ faults \in 0..MaxFaults
    /\ req \in [Worker -> Request]
    /\ uses \in [Article -> (SUBSET FileId) \cup {None}]
    /\ content \in [FileId -> Content \cup {None}]
    /\ orphaned \in [FileId -> Time \cup {None}]
    /\ objects \cup files \cup dangling \subseteq issued /\ issued \subseteq FileId
    /\ \A f \in FileId : f \in files <=> content[f] # None

\* The row of a file stands for an object that can be served.  The exception is a file
\* nobody can use at the moment, whose object a request that holds the row has just
\* removed; or one such a request left behind because it then failed, which
\* docs/security-threat-model.md:224 accepts.  A file an article uses is in the table.
ObjectsBehindRows ==
    /\ Used \subseteq files
    /\ \A f \in files \ (objects \cup dangling) :
          f \notin Used /\ \E w \in Worker : f \in req[w].gone \cap req[w].locks

\* The marker that exposes a file to the cleanup is on exactly the files no article uses,
\* whatever uploads, saves and deletions overlap: none is collected that is in use, none
\* is kept for ever that is not.  (So the cleanup never meets a marked file in use.)
MarkedIffUnused == \A f \in files : orphaned[f] = None <=> f \in Used

\* An upload that answers with a file stored earlier answers with one that is still there
\* when its answer is out: no deletion or cleanup comes between.
UploadAnswersStoredFile ==
    \A w \in Worker : req[w].at = "refresh" => req[w].rows \subseteq files

Waits(w, v) ==
    /\ w # v
    /\ \/ req[w].at = "lock" /\ NextRow(w) \in req[v].locks
       \/ req[w].at = "wait" /\ req[w].rows \cap req[v].locks # {}
       \/ req[w].at = "open" /\ HoldsArticle(req[v]) /\ req[v].about = req[w].about

\* No order in which requests lock articles and files makes them wait for each other.
NoLockCycle ==
    \A S \in (SUBSET Worker) \ {{}} : \E w \in S : \A v \in S : ~Waits(w, v)

\* The cleanup removes an object only if its file is unused and was marked more than the
\* retention time ago at that moment, not only when the cleanup looked for candidates: a
\* file attached, or answered to an upload, in between stays.
OnlyStaleOrphansCollected ==
    [][\A w \in Worker, f \in FileId :
          f \in objects \ objects' /\ req[w].at = "collect" /\ f \in req'[w].gone
             => f \in files \ Used /\ Stale(f, now)]_vars
=============================================================================
