------------------------ MODULE FileLifecycle_proofs ------------------------
(***************************************************************************)
(* Proofs about FileLifecycle, for any number of requests, articles, files *)
(* and faults, and for any retention time and clock.                        *)
(***************************************************************************)
EXTENDS FileLifecycle, Numbers_proofs

-----------------------------------------------------------------------------
(* The inductive invariant.                                                 *)

Holding == {"refresh", "lock", "save", "remove", "drop", "collect"}
Saving  == {"check", "lock", "save"}
Storing == {"put", "store"}

\* What a request knows of the files depends on where it is, because nobody else can
\* touch the rows it holds.
Knows(r) ==
    /\ r.since <= now /\ r.want \subseteq issued
    /\ r.locks # {} => r.at \in Holding
    /\ r.gone # {} => r.at \in {"drop", "collect"}
    /\ r.at \in {"find", "put", "store"} => r.about \in Content
    /\ r.at = "refresh" => r.rows = r.locks
    /\ r.at \in Saving \cup {"open"} =>
          /\ r.about \in Article
          /\ r.op \in {"create", "update", "deletearticle"}
          /\ r.op = "create" => r.have = {} /\ r.at # "open"
          /\ r.op = "deletearticle" => r.want = {}
    /\ r.at \in {"open", "check"} => r.rows = {}
    /\ r.at = "lock" => \A f \in r.locks, g \in r.rows : f < g
    /\ r.at = "lock" => r.rows # {}
    /\ r.at = "save" => r.rows = {}
    /\ r.at \in {"lock", "save"} => (r.have \cup r.want) \cap files \subseteq r.locks \cup r.rows
    /\ r.at = "remove" => r.rows \subseteq r.locks \ Used
    /\ r.at \in {"wait", "list", "remove", "drop", "collect"} => r.have = {}
    /\ r.at \in {"drop", "collect"} => r.gone \subseteq r.locks \ Used
    /\ r.at = "collect" => r.rows \subseteq r.locks /\ \A f \in r.rows : Stale(f, r.since)
RequestsKnow == \A w \in Worker : Knows(req[w])

\* A row is held by one request, and a row that is held does not go away.
RowsHeld ==
    /\ \A w \in Worker : req[w].locks \subseteq files
    /\ \A w, v \in Worker : w # v => req[w].locks \cap req[v].locks = {}

\* An article is changed by one request at a time, which knows the files it uses.
ArticlesHeld ==
    /\ \A w \in Worker : HoldsArticle(req[w]) =>
          uses[req[w].about] # None /\ req[w].have = uses[req[w].about]
    /\ \A w, v \in Worker : w # v /\ HoldsArticle(req[w]) /\ HoldsArticle(req[v])
          => req[w].about # req[v].about

\* A file that is being uploaded is nobody else's.
UploadsFresh ==
    /\ \A w \in Worker : req[w].at \in Storing => req[w].rows \subseteq issued \ files
    /\ \A w \in Worker : req[w].at = "store" => req[w].rows \subseteq objects
    /\ \A w, v \in Worker : w # v /\ req[w].at \in Storing =>
          /\ req[w].rows \cap req[v].want = {}
          /\ req[v].at \in Storing => req[w].rows \cap req[v].rows = {}

\* Every row has its object, unless the request that holds it is removing it.
RowsBacked ==
    /\ Used \subseteq files
    /\ \A f \in files \ (objects \cup dangling) : \E w \in Worker : f \in req[w].gone

IInv ==
    /\ TypeOK /\ RequestsKnow /\ RowsHeld /\ ArticlesHeld /\ UploadsFresh /\ RowsBacked
    /\ MarkedIffUnused

-----------------------------------------------------------------------------
(* Facts about the invariant.                                               *)

\* What a request may become while the files and the articles stay as they are.
Fits(w, r) ==
    /\ r \in Request /\ Knows(r)
    /\ r.locks \subseteq files
    /\ \A v \in Worker \ {w} : r.locks \cap req[v].locks = {}
    /\ HoldsArticle(r) =>
          /\ uses[r.about] # None /\ r.have = uses[r.about]
          /\ \A v \in Worker \ {w} : HoldsArticle(req[v]) => req[v].about # r.about
    /\ r.at \in Storing => r.rows \subseteq issued \ files
    /\ r.at = "store" => r.rows \subseteq objects
    /\ \A v \in Worker \ {w} :
          /\ r.at \in Storing => r.rows \cap req[v].want = {}
          /\ req[v].at \in Storing => req[v].rows \cap r.want = {}
          /\ r.at \in Storing /\ req[v].at \in Storing => r.rows \cap req[v].rows = {}

\* A request that is over fits.
LEMMA NoRequestFits ==
    ASSUME IInv, NEW w \in Worker
    PROVE  Fits(w, NoRequest)
<1>1. NoRequest \in Request
  BY FileAssumption DEF NoRequest, Request, At, Time, Op, IInv, TypeOK
<1>2. Knows(NoRequest)
  BY DEF NoRequest, Knows, Holding, Storing, Saving, IInv, TypeOK, Time
<1> QED BY <1>1, <1>2 DEF Fits, NoRequest, HoldsArticle, Saving, Storing

\* A step that changes one request into one that fits, and nothing else but the count of
\* faults, keeps the invariant.
LEMMA RequestStep ==
    ASSUME IInv, NEW w \in Worker, NEW r, Fits(w, r),
           req' = [req EXCEPT ![w] = r],
           UNCHANGED <<now, rows, objects, issued, dangling>>, faults' \in 0..MaxFaults,
           req[w].gone \subseteq r.gone
    PROVE  IInv'
<1> USE DEF Fits
<1>0. req \in [Worker -> Request] /\ req'[w] = r /\ \A v \in Worker \ {w} : req'[v] = req[v]
  BY DEF IInv, TypeOK
<1>1. Used' = Used
  BY DEF rows, Used, Articles
<1>2. TypeOK'
  BY DEF IInv, TypeOK, rows
<1>3. RequestsKnow'
  <2>1. \A v \in Worker : Knows(req[v])' <=> Knows(req'[v])
    BY <1>1 DEF Knows, rows, Stale
  <2> QED BY <1>0, <2>1 DEF IInv, RequestsKnow
<1>4. RowsHeld'
  BY <1>0 DEF IInv, RowsHeld, rows
<1>5. ArticlesHeld'
  BY <1>0 DEF IInv, ArticlesHeld, rows, HoldsArticle
<1>6. UploadsFresh'
  BY <1>0 DEF IInv, UploadsFresh, rows
<1>7. RowsBacked'
  BY <1>0, <1>1 DEF IInv, RowsBacked, rows
<1>8. MarkedIffUnused'
  BY <1>1 DEF IInv, MarkedIffUnused, rows
<1> QED BY <1>2, <1>3, <1>4, <1>5, <1>6, <1>7, <1>8 DEF IInv

\* So does a request that begins, ends or goes on without touching the files.
LEMMA BeginStep ==
    ASSUME IInv, NEW w \in Worker, NEW r, Fits(w, r), Begin(w, r)
    PROVE  IInv'
<1>1. req[w].gone = {}
  BY DEF Begin, NoRequest
<1> QED BY <1>1, RequestStep DEF Begin, IInv, TypeOK

\* A request that goes on without touching the files, with what it has removed.
LEMMA BecomesStep ==
    ASSUME IInv, NEW w \in Worker, NEW r, Fits(w, r), Becomes(w, r),
           req[w].gone \subseteq r.gone
    PROVE  IInv'
BY RequestStep DEF Becomes, IInv, TypeOK

\* A request that ends without touching the files, having removed nothing.
LEMMA RefuseStep ==
    ASSUME IInv, NEW w \in Worker, Refuse(w), req[w].gone = {}
    PROVE  IInv'
BY RequestStep, NoRequestFits DEF Refuse, End, IInv, TypeOK

-----------------------------------------------------------------------------
(* Requests that begin.                                                     *)

\* What a request that has only begun is like.
Begun(r) ==
    /\ r.at \in {"find", "check", "open", "wait", "list"}
    /\ r.since <= now /\ r.want \subseteq files
    /\ r.have = {} /\ r.locks = {} /\ r.gone = {}
    /\ r.at = "find" => r.about \in Content
    /\ r.at \in {"check", "open"} =>
          /\ r.about \in Article
          /\ r.op \in {"create", "update", "deletearticle"}
          /\ r.op = "create" <=> r.at = "check"
          /\ r.op = "deletearticle" => r.want = {}
    /\ r.at \in {"open", "check"} => r.rows = {}

\* Such a request fits.
LEMMA BegunFits ==
    ASSUME IInv, NEW w \in Worker, NEW r \in Request, Begun(r)
    PROVE  Fits(w, r)
<1> USE DEF Begun
<1>1. Knows(r)
  BY DEF Knows, Holding, Storing, Saving, IInv, TypeOK
<1>2. ~HoldsArticle(r) /\ r.at \notin Storing
  BY DEF HoldsArticle, Saving, Storing
<1>3. \A v \in Worker : req[v].at \in Storing => req[v].rows \cap r.want = {}
  BY DEF IInv, UploadsFresh
<1> QED BY <1>1, <1>2, <1>3 DEF Fits, Storing

\* Every request begins like that: the upload, the three article commands, the deletion
\* and the cleanup.
LEMMA StartInv ==
    ASSUME IInv, NEW w \in Worker, Start(w)
    PROVE  IInv'
<1>0. /\ files \subseteq FileId /\ now \in Time /\ 0 \in Time /\ now \in Nat
      /\ NoRequest \in Request
  BY FileAssumption, NoRequestFits DEF IInv, TypeOK, Time, Fits
<1>1. ASSUME NEW c \in Content, StartUpload(w, c)
      PROVE  IInv'
  <2> DEFINE r == [NoRequest EXCEPT !.at = "find", !.op = "upload", !.since = now,
                                    !.about = c, !.rows = Same(c)]
  <2>0. /\ r.at = "find" /\ r.op = "upload" /\ r.since = now /\ r.about = c
        /\ r.want = {} /\ r.have = {} /\ r.rows = Same(c) /\ r.locks = {}
        /\ r.gone = {}
    BY DEF NoRequest
  <2>1. r \in Request
    BY <1>0 DEF Request, At, Op, Same
  <2> HIDE DEF r
  <2>2. Begun(r)
    BY <1>0, <2>0 DEF Begun
  <2>3. Fits(w, r)
    BY <2>1, <2>2, BegunFits
  <2> QED BY <1>1, <2>3, BeginStep DEF StartUpload, r
<1>2. ASSUME NEW a \in Article, NEW want \in SUBSET FileId, StartCreate(w, a, want)
      PROVE  IInv'
  <2> DEFINE r == [NoRequest EXCEPT !.at = "check", !.op = "create", !.about = a,
                                    !.want = want]
  <2>0. /\ r.at = "check" /\ r.op = "create" /\ r.since = 0 /\ r.about = a
        /\ r.want = want /\ r.have = {} /\ r.rows = {} /\ r.locks = {}
        /\ r.gone = {}
    BY DEF NoRequest
  <2>1. r \in Request
    BY <1>0 DEF Request, At, Op
  <2> HIDE DEF r
  <2>2. Begun(r)
    BY <1>0, <1>2, <2>0 DEF Begun, StartCreate
  <2>3. Fits(w, r)
    BY <2>1, <2>2, BegunFits
  <2> QED BY <1>2, <2>3, BeginStep DEF StartCreate, r
<1>3. ASSUME NEW a \in Article, NEW want \in SUBSET FileId, StartUpdate(w, a, want)
      PROVE  IInv'
  <2> DEFINE r == [NoRequest EXCEPT !.at = "open", !.op = "update", !.since = now,
                                    !.about = a, !.want = want]
  <2>0. /\ r.at = "open" /\ r.op = "update" /\ r.since = now /\ r.about = a
        /\ r.want = want /\ r.have = {} /\ r.rows = {} /\ r.locks = {}
        /\ r.gone = {}
    BY DEF NoRequest
  <2>1. r \in Request
    BY <1>0 DEF Request, At, Op
  <2> HIDE DEF r
  <2>2. Begun(r)
    BY <1>0, <1>3, <2>0 DEF Begun, StartUpdate
  <2>3. Fits(w, r)
    BY <2>1, <2>2, BegunFits
  <2> QED BY <1>3, <2>3, BeginStep DEF StartUpdate, r
<1>4. ASSUME NEW a \in Article, StartDeleteArticle(w, a)
      PROVE  IInv'
  <2> DEFINE r == [NoRequest EXCEPT !.at = "open", !.op = "deletearticle", !.since = now,
                                    !.about = a]
  <2>0. /\ r.at = "open" /\ r.op = "deletearticle" /\ r.since = now /\ r.about = a
        /\ r.want = {} /\ r.have = {} /\ r.rows = {} /\ r.locks = {}
        /\ r.gone = {}
    BY DEF NoRequest
  <2>1. r \in Request
    BY <1>0 DEF Request, At, Op
  <2> HIDE DEF r
  <2>2. Begun(r)
    BY <1>0, <2>0 DEF Begun
  <2>3. Fits(w, r)
    BY <2>1, <2>2, BegunFits
  <2> QED BY <1>4, <2>3, BeginStep DEF StartDeleteArticle, r
<1>5. ASSUME NEW f \in FileId, StartDelete(w, f)
      PROVE  IInv'
  <2> DEFINE r == [NoRequest EXCEPT !.at = "wait", !.op = "delete", !.rows = {f}]
  <2>0. /\ r.at = "wait" /\ r.op = "delete" /\ r.since = 0 /\ r.want = {}
        /\ r.have = {} /\ r.rows = {f} /\ r.locks = {} /\ r.gone = {}
    BY DEF NoRequest
  <2>1. r \in Request
    BY <1>0 DEF Request, At, Op
  <2> HIDE DEF r
  <2>2. Begun(r)
    BY <1>0, <2>0 DEF Begun
  <2>3. Fits(w, r)
    BY <2>1, <2>2, BegunFits
  <2> QED BY <1>5, <2>3, BeginStep DEF StartDelete, r
<1>6. ASSUME StartPrune(w)
      PROVE  IInv'
  <2> DEFINE r == [NoRequest EXCEPT !.at = "list", !.op = "prune", !.since = now,
                                    !.rows = Candidates(now)]
  <2>0. /\ r.at = "list" /\ r.op = "prune" /\ r.since = now /\ r.want = {}
        /\ r.have = {} /\ r.rows = Candidates(now) /\ r.locks = {} /\ r.gone = {}
    BY DEF NoRequest
  <2>1. r \in Request
    BY <1>0 DEF Request, At, Op, Candidates
  <2> HIDE DEF r
  <2>2. Begun(r)
    BY <1>0, <2>0 DEF Begun
  <2>3. Fits(w, r)
    BY <2>1, <2>2, BegunFits
  <2> QED BY <1>6, <2>3, BeginStep DEF StartPrune, r
<1> QED BY <1>1, <1>2, <1>3, <1>4, <1>5, <1>6 DEF Start

-----------------------------------------------------------------------------
(* Requests that go on without touching the files.                          *)

\* LockNext takes the least of the rows, as ORDER BY id does.
LEMMA NextRowIsLeast ==
    ASSUME NEW w, req[w].rows \in SUBSET FileId, req[w].rows # {}
    PROVE  NextRow(w) \in req[w].rows /\ \A f \in req[w].rows : NextRow(w) <= f
<1>1. req[w].rows \in SUBSET Nat
  BY DEF FileId
<1> QED BY <1>1, LeastNumber DEF NextRow, Min

\* A refused request holds nothing it has removed.
LEMMA RefusedInv ==
    ASSUME IInv, NEW w \in Worker,
           ContentRejected(w) \/ ArticleNotFound(w) \/ FilesNotFound(w) \/ SaveRefused(w)
              \/ DeleteRefused(w)
    PROVE  IInv'
<1>1. Refuse(w) /\ req[w].at \notin {"drop", "collect"}
  BY DEF ContentRejected, ArticleNotFound, FilesNotFound, SaveRefused, DeleteRefused
<1>2. req[w].gone = {}
  BY <1>1 DEF IInv, RequestsKnow, Knows
<1> QED BY <1>1, <1>2, RefuseStep

\* An upload that finds its content stored holds the row it answers with.
LEMMA LockDuplicateInv ==
    ASSUME IInv, NEW w \in Worker, LockDuplicate(w)
    PROVE  IInv'
<1>1. PICK f \in req[w].rows \cap files :
         /\ RowFree(w, f)
         /\ Becomes(w, [req[w] EXCEPT !.at = "refresh", !.rows = {f}, !.locks = {f}])
  BY DEF LockDuplicate
<1> DEFINE r == [req[w] EXCEPT !.at = "refresh", !.rows = {f}, !.locks = {f}]
<1>2. req[w] \in Request /\ req[w].at = "find" /\ f \in FileId /\ Knows(req[w])
  BY DEF LockDuplicate, IInv, TypeOK, RequestsKnow
<1>3. /\ r.at = "refresh" /\ r.rows = {f} /\ r.locks = {f} /\ r.want = req[w].want
      /\ r.gone = req[w].gone /\ r.since = req[w].since
  BY <1>2 DEF Request
<1>4. r \in Request
  BY <1>2 DEF Request, At
<1> HIDE DEF r
<1>5. Knows(r)
  BY <1>2, <1>3 DEF Knows, Holding, Storing, Saving
<1>6. Fits(w, r)
  BY <1>1, <1>2, <1>3, <1>4, <1>5
  DEF Fits, RowFree, HoldsArticle, Saving, Storing, IInv, UploadsFresh
<1> QED BY <1>1, <1>3, <1>6, BecomesStep DEF r

\* A request that has its article's row knows the files the article uses.
LEMMA OpenArticleInv ==
    ASSUME IInv, NEW w \in Worker, OpenArticle(w)
    PROVE  IInv'
<1> DEFINE r == [req[w] EXCEPT !.at = "check", !.have = uses[req[w].about]]
<1>1. /\ req[w] \in Request /\ req[w].at = "open" /\ Knows(req[w])
      /\ req[w].about \in Articles /\ ArticleFree(w, req[w].about)
  BY DEF OpenArticle, IInv, TypeOK, RequestsKnow
<1>2. /\ r.at = "check" /\ r.have = uses[req[w].about] /\ r.rows = req[w].rows
      /\ r.locks = req[w].locks /\ r.want = req[w].want /\ r.gone = req[w].gone
      /\ r.since = req[w].since /\ r.about = req[w].about /\ r.op = req[w].op
  BY <1>1 DEF Request
<1>3. r \in Request
  <2>1. uses[req[w].about] \in SUBSET FileId
    BY <1>1 DEF Articles, IInv, TypeOK
  <2> QED BY <1>1, <2>1 DEF Request, At
<1> HIDE DEF r
<1>4. Knows(r)
  BY <1>1, <1>2 DEF Knows, Holding, Storing, Saving
<1>5. HoldsArticle(r) => /\ uses[r.about] # None /\ r.have = uses[r.about]
                         /\ \A v \in Worker \ {w} :
                               HoldsArticle(req[v]) => req[v].about # r.about
  BY <1>1, <1>2 DEF HoldsArticle, Articles, ArticleFree, Saving
<1>6. Fits(w, r)
  BY <1>1, <1>2, <1>3, <1>4, <1>5 DEF Fits, Storing, IInv, UploadsFresh, RowsHeld
<1> QED BY <1>2, <1>6, BecomesStep DEF OpenArticle, r

\* From there on the rows to lock are those of all files involved.
LEMMA CheckFilesInv ==
    ASSUME IInv, NEW w \in Worker, CheckFiles(w)
    PROVE  IInv'
<1> DEFINE all == req[w].have \cup req[w].want
           r   == Proceed([req[w] EXCEPT !.rows = all])
<1>1. /\ req[w] \in Request /\ req[w].at = "check" /\ Knows(req[w])
      /\ req[w].want \subseteq files
  BY DEF CheckFiles, IInv, TypeOK, RequestsKnow
<1>2. /\ r.at = IF all = {} THEN "save" ELSE "lock"
      /\ r.rows = all /\ r.have = req[w].have
      /\ r.locks = req[w].locks /\ r.want = req[w].want /\ r.gone = req[w].gone
      /\ r.since = req[w].since /\ r.about = req[w].about /\ r.op = req[w].op
  BY <1>1 DEF Request, Proceed
<1>3. r \in Request
  BY <1>1 DEF Request, At, Proceed
<1> HIDE DEF r
<1>4. Knows(r)
  BY <1>1, <1>2 DEF Knows, Holding, Storing, Saving
<1>5. HoldsArticle(r) => HoldsArticle(req[w])
  BY <1>1, <1>2 DEF HoldsArticle, Saving
<1>6. Fits(w, r)
  BY <1>1, <1>2, <1>3, <1>4, <1>5
  DEF Fits, Storing, IInv, UploadsFresh, RowsHeld, ArticlesHeld
<1> QED BY <1>1, <1>2, <1>6, BecomesStep DEF CheckFiles, r

\* Rows are locked upwards, and only rows that exist.
LEMMA LockNextInv ==
    ASSUME IInv, NEW w \in Worker, LockNext(w)
    PROVE  IInv'
<1> DEFINE next == NextRow(w)
           rest == req[w].rows \ {next}
           held == req[w].locks \cup ({next} \cap files)
           r    == Proceed([req[w] EXCEPT !.rows = @ \ {next},
                                          !.locks = @ \cup ({next} \cap files)])
<1>1. /\ req[w] \in Request /\ req[w].at = "lock" /\ Knows(req[w])
      /\ RowFree(w, next)
  BY DEF LockNext, IInv, TypeOK, RequestsKnow
<1>2. next \in req[w].rows /\ \A f \in req[w].rows : next <= f
  BY <1>1, NextRowIsLeast DEF Knows, Request
<1> HIDE DEF next
<1>3. /\ r.at = IF rest = {} THEN "save" ELSE "lock"
      /\ r.rows = rest /\ r.locks = held
      /\ r.have = req[w].have /\ r.want = req[w].want /\ r.gone = req[w].gone
      /\ r.since = req[w].since /\ r.about = req[w].about /\ r.op = req[w].op
  BY <1>1 DEF Request, Proceed
<1>4. r \in Request
  BY <1>1, <1>2 DEF Request, At, Proceed
<1> HIDE DEF r
<1>5. Knows(r)
  <2>1. \A f \in held, g \in rest : f < g
    <3>1. \A f \in req[w].rows : f \in Nat
      BY <1>1 DEF Request, FileId
    <3> QED BY <1>1, <1>2, <3>1 DEF Knows
  <2> QED BY <1>1, <1>3, <2>1 DEF Knows, Holding, Storing, Saving
<1>6. HoldsArticle(r) => HoldsArticle(req[w])
  BY <1>1, <1>3 DEF HoldsArticle, Saving
<1>7. held \subseteq files /\ \A v \in Worker \ {w} : held \cap req[v].locks = {}
  BY <1>1 DEF RowFree, IInv, RowsHeld
<1>8. Fits(w, r)
  BY <1>1, <1>3, <1>4, <1>5, <1>6, <1>7
  DEF Fits, Storing, IInv, UploadsFresh, ArticlesHeld
<1> QED BY <1>1, <1>3, <1>8, BecomesStep DEF LockNext, r, next

\* A deletion holds the row before it looks for usages.
LEMMA LockDeleteInv ==
    ASSUME IInv, NEW w \in Worker, LockDelete(w)
    PROVE  IInv'
<1> DEFINE r == [req[w] EXCEPT !.at = "remove", !.locks = req[w].rows]
<1>1. /\ req[w] \in Request /\ req[w].at = "wait" /\ Knows(req[w])
      /\ req[w].rows \subseteq files \ Used
      /\ \A f \in req[w].rows : RowFree(w, f)
  BY DEF LockDelete, IInv, TypeOK, RequestsKnow
<1>2. /\ r.at = "remove" /\ r.have = req[w].have /\ r.rows = req[w].rows
      /\ r.locks = req[w].rows /\ r.want = req[w].want /\ r.gone = req[w].gone
      /\ r.since = req[w].since
  BY <1>1 DEF Request
<1>3. r \in Request
  BY <1>1 DEF Request, At
<1> HIDE DEF r
<1>4. Knows(r)
  BY <1>1, <1>2 DEF Knows, Holding, Storing, Saving
<1>5. r.locks \subseteq files /\ \A v \in Worker \ {w} : r.locks \cap req[v].locks = {}
  BY <1>1, <1>2 DEF RowFree
<1>6. Fits(w, r)
  BY <1>1, <1>2, <1>3, <1>4, <1>5
  DEF Fits, Storing, IInv, UploadsFresh, HoldsArticle, Saving
<1> QED BY <1>1, <1>2, <1>6, BecomesStep DEF LockDelete, r

\* The cleanup holds what it has found stale under the lock.
LEMMA LockOrphansInv ==
    ASSUME IInv, NEW w \in Worker, LockOrphans(w)
    PROVE  IInv'
<1> DEFINE batch == Oldest(Lockable(w))
           r == [req[w] EXCEPT !.at = "collect", !.rows = batch, !.locks = batch]
<1>1. req[w] \in Request /\ req[w].at = "list" /\ Knows(req[w]) /\ Becomes(w, r)
  BY DEF LockOrphans, IInv, TypeOK, RequestsKnow
<1>2. /\ batch \subseteq req[w].rows \cap files
      /\ \A f \in batch : RowFree(w, f) /\ Stale(f, req[w].since)
  BY DEF Oldest, Lockable
<1> HIDE DEF batch
<1>3. /\ r.at = "collect" /\ r.have = req[w].have /\ r.rows = batch
      /\ r.locks = batch /\ r.want = req[w].want /\ r.gone = req[w].gone
      /\ r.since = req[w].since
  BY <1>1 DEF Request
<1>4. r \in Request
  BY <1>1, <1>2 DEF Request, At
<1> HIDE DEF r
<1>5. Knows(r)
  BY <1>1, <1>2, <1>3 DEF Knows, Holding, Storing, Saving
<1>6. r.locks \subseteq files /\ \A v \in Worker \ {w} : r.locks \cap req[v].locks = {}
  BY <1>2, <1>3 DEF RowFree
<1>7. Fits(w, r)
  BY <1>1, <1>3, <1>4, <1>5, <1>6
  DEF Fits, Storing, IInv, UploadsFresh, HoldsArticle, Saving
<1> QED BY <1>1, <1>3, <1>7, BecomesStep

\* A file the cleanup cannot remove is passed over.
LEMMA KeepOrphanInv ==
    ASSUME IInv, NEW w \in Worker, NEW f \in FileId, KeepOrphan(w, f)
    PROVE  IInv'
<1> DEFINE r == [req[w] EXCEPT !.rows = @ \ {f}]
<1>1. req[w] \in Request /\ req[w].at = "collect" /\ Knows(req[w])
  BY DEF KeepOrphan, IInv, TypeOK, RequestsKnow
<1>2. /\ r.at = "collect" /\ r.have = req[w].have /\ r.rows = req[w].rows \ {f}
      /\ r.locks = req[w].locks /\ r.want = req[w].want /\ r.gone = req[w].gone
      /\ r.since = req[w].since
  BY <1>1 DEF Request
<1>3. r \in Request
  BY <1>1 DEF Request
<1>4. req' = [req EXCEPT ![w] = r]
  BY DEF KeepOrphan
<1> HIDE DEF r
<1>5. Knows(r)
  BY <1>1, <1>2 DEF Knows, Holding, Storing, Saving
<1>6. Fits(w, r)
  BY <1>1, <1>2, <1>3, <1>5
  DEF Fits, Storing, IInv, UploadsFresh, RowsHeld, HoldsArticle, Saving
<1>7. faults' \in 0..MaxFaults
  BY FileAssumption DEF KeepOrphan, IInv, TypeOK
<1> QED BY <1>2, <1>4, <1>6, <1>7, RequestStep DEF KeepOrphan

-----------------------------------------------------------------------------
(* Steps that change the files, their objects or the articles.              *)

\* What a step of a request leaves to the others: the rows they hold, the articles they
\* hold and the objects they have stored.
Spares(w) ==
    \A v \in Worker \ {w} :
       /\ \A f \in req[v].locks : /\ f \in files'
                                  /\ orphaned'[f] = orphaned[f]
                                  /\ f \in Used' => f \in Used
       /\ HoldsArticle(req[v]) => uses'[req[v].about] = uses[req[v].about]
       /\ req[v].at \in Storing => req[v].rows \cap files' = {}
       /\ req[v].at = "store" => req[v].rows \subseteq objects'
       /\ (files' \ files) \cap req[v].want = {}
       /\ req[v].at \in {"lock", "save"} => (files' \ files) \cap req[v].have = {}

\* A request over fits in the new state too.
LEMMA EndFits ==
    ASSUME TypeOK', NEW w \in Worker
    PROVE  Fits(w, NoRequest)'
<1>1. NoRequest \in Request
  BY FileAssumption DEF NoRequest, Request, At, Time, Op
<1>2. Knows(NoRequest)'
  BY DEF NoRequest, Knows, Holding, Storing, Saving, TypeOK, Time
<1> QED BY <1>1, <1>2 DEF Fits, NoRequest, HoldsArticle, Saving, Storing

\* A step that spares the others keeps the invariant if it does so for its own request
\* and for the files as a whole.
LEMMA SharedStep ==
    ASSUME IInv, NEW w \in Worker, NEW r, req' = [req EXCEPT ![w] = r],
           now' = now, issued \subseteq issued', Spares(w), Fits(w, r)',
           TypeOK', RowsBacked', MarkedIffUnused'
    PROVE  IInv'
<1>0. req \in [Worker -> Request] /\ req'[w] = r /\ \A v \in Worker \ {w} : req'[v] = req[v]
  BY DEF IInv, TypeOK
<1>1. RequestsKnow'
  <2>1. ASSUME NEW v \in Worker \ {w}, NEW q, q = req[v]
        PROVE  Knows(q)'
    <3>1. q \in Request /\ Knows(q)
      BY <1>0, <2>1 DEF IInv, RequestsKnow
    <3>2. /\ \A f \in q.locks : /\ f \in files' /\ orphaned'[f] = orphaned[f]
                                /\ f \in Used' => f \in Used
          /\ (files' \ files) \cap q.want = {}
          /\ q.at \in {"lock", "save"} => (files' \ files) \cap q.have = {}
      BY <2>1 DEF Spares
    <3> QED BY <3>1, <3>2 DEF Knows, Stale
  <2>2. Knows(r)'
    BY DEF Fits
  <2>3. \A v \in Worker : Knows(req[v])'
    BY <1>0, <2>1, <2>2
  <2> QED BY <2>3 DEF RequestsKnow
<1>2. RowsHeld'
  BY <1>0 DEF IInv, RowsHeld, Spares, Fits
<1>3. ArticlesHeld'
  BY <1>0 DEF IInv, ArticlesHeld, Spares, Fits, HoldsArticle
<1>4. UploadsFresh'
  BY <1>0 DEF IInv, UploadsFresh, Spares, Fits
<1> QED BY <1>1, <1>2, <1>3, <1>4 DEF IInv

\* An upload takes an identifier nobody has, nor has asked for.
LEMMA CreateRowInv ==
    ASSUME IInv, NEW w \in Worker, CreateRow(w)
    PROVE  IInv'
<1>1. PICK f \in FileId \ issued :
         /\ issued' = issued \cup {f}
         /\ req' = [req EXCEPT ![w].at = "put", ![w].rows = {f}]
  BY DEF CreateRow
<1>2. /\ req[w] \in Request /\ req[w].at = "find" /\ Knows(req[w])
      /\ UNCHANGED <<now, rows, objects, faults, dangling>> /\ Used' = Used
  BY <1>1 DEF CreateRow, IInv, TypeOK, RequestsKnow, rows, Used, Articles
<1> PICK r : r = [req[w] EXCEPT !.at = "put", !.rows = {f}]
  OBVIOUS
<1>0. req' = [req EXCEPT ![w] = r]
  BY <1>1 DEF IInv, TypeOK
<1>3. /\ r.at = "put" /\ r.rows = {f} /\ r.locks = req[w].locks /\ r.want = req[w].want
      /\ r.gone = req[w].gone /\ r.since = req[w].since /\ r.about = req[w].about
      /\ r.have = req[w].have
  BY <1>2 DEF Request
<1>4. r \in Request
  BY <1>2 DEF Request, At
<1>5. Spares(w)
  BY <1>2 DEF Spares, rows, IInv, RowsHeld, UploadsFresh
<1>6. TypeOK'
  BY <1>0, <1>1, <1>2, <1>4 DEF rows, IInv, TypeOK
<1>7. Fits(w, r)'
  <2>1. Knows(r)'
    BY <1>0, <1>1, <1>2, <1>3 DEF Knows, Holding, Storing, Saving
  <2>2. \A v \in Worker \ {w} : req'[v] = req[v] /\ req[v].want \subseteq issued
    BY <1>0, <1>2 DEF IInv, TypeOK, RequestsKnow, Knows
  <2>3. \A v \in Worker \ {w} : req[v].at \in Storing =>
           req[v].rows \subseteq issued /\ req[v].rows \cap req[w].want = {}
    BY DEF IInv, UploadsFresh
  <2>4. r.locks = {} /\ f \notin files
    BY <1>2, <1>3 DEF Knows, Holding, IInv, TypeOK
  <2>5. ~HoldsArticle(r)
    BY <1>3 DEF HoldsArticle, Saving
  <2> QED BY <1>0, <1>1, <1>2, <1>3, <1>4, <2>1, <2>2, <2>3, <2>4, <2>5
          DEF Fits, rows
<1>8. RowsBacked'
  BY <1>0, <1>1, <1>2, <1>3 DEF rows, IInv, RowsBacked, TypeOK
<1>9. MarkedIffUnused'
  BY <1>2 DEF rows, IInv, MarkedIffUnused
<1> QED BY <1>0, <1>1, <1>2, <1>5, <1>6, <1>7, <1>8, <1>9, SharedStep

\* Its object is there before its row is.
LEMMA PutObjectInv ==
    ASSUME IInv, NEW w \in Worker, PutObject(w)
    PROVE  IInv'
<1>1. /\ req[w] \in Request /\ req[w].at = "put" /\ Knows(req[w])
      /\ UNCHANGED <<now, rows, issued, faults, dangling>> /\ Used' = Used
      /\ objects' = objects \cup req[w].rows
  BY DEF PutObject, IInv, TypeOK, RequestsKnow, rows, Used, Articles
<1> PICK r : r = [req[w] EXCEPT !.at = "store"]
  OBVIOUS
<1>0. req' = [req EXCEPT ![w] = r]
  BY DEF PutObject, IInv, TypeOK
<1>2. /\ r.at = "store" /\ r.rows = req[w].rows /\ r.locks = req[w].locks
      /\ r.want = req[w].want /\ r.have = req[w].have
      /\ r.gone = req[w].gone /\ r.since = req[w].since /\ r.about = req[w].about
  BY <1>1 DEF Request
<1>3. r \in Request
  BY <1>1 DEF Request, At
<1>4. Spares(w)
  BY <1>1 DEF Spares, rows, IInv, RowsHeld, UploadsFresh
<1>5. TypeOK'
  BY <1>0, <1>1, <1>3 DEF rows, IInv, TypeOK, UploadsFresh, Storing
<1>6. Fits(w, r)'
  <2>1. Knows(r)'
    BY <1>1, <1>2 DEF Knows, Holding, Storing, Saving
  <2>2. \A v \in Worker \ {w} : req'[v] = req[v]
    BY <1>0, <1>1 DEF IInv, TypeOK
  <2>3. r.locks = {} /\ ~HoldsArticle(r) /\ req[w].at \in Storing
    BY <1>1, <1>2 DEF Knows, Holding, HoldsArticle, Saving, Storing
  <2> QED BY <1>0, <1>1, <1>2, <1>3, <2>1, <2>2, <2>3 DEF Fits, rows, IInv, UploadsFresh
<1>7. RowsBacked'
  BY <1>0, <1>1, <1>2 DEF rows, IInv, RowsBacked, TypeOK
<1>8. MarkedIffUnused'
  BY <1>1 DEF rows, IInv, MarkedIffUnused
<1> QED BY <1>0, <1>1, <1>4, <1>5, <1>6, <1>7, <1>8, SharedStep

\* Its row appears, marked, unused and not asked for by anyone.
LEMMA CommitUploadInv ==
    ASSUME IInv, NEW w \in Worker, CommitUpload(w)
    PROVE  IInv'
<1>1. /\ req[w] \in Request /\ req[w].at = "store" /\ Knows(req[w])
      /\ UNCHANGED <<now, uses, objects, issued, faults, dangling>> /\ Used' = Used
      /\ files' = files \cup req[w].rows
      /\ content' = [f \in FileId |-> IF f \in req[w].rows THEN req[w].about ELSE content[f]]
      /\ orphaned' = [f \in FileId |-> IF f \in req[w].rows THEN req[w].since ELSE orphaned[f]]
      /\ req' = [req EXCEPT ![w] = NoRequest]
  BY DEF CommitUpload, End, IInv, TypeOK, RequestsKnow, Used, Articles
<1>2. req[w].rows \subseteq (issued \ files) \cap objects /\ req[w].about \in Content
      /\ req[w].gone = {}
  BY <1>1 DEF IInv, UploadsFresh, Storing, Knows
<1>3. Used \subseteq files /\ files \subseteq FileId /\ issued \subseteq FileId
  BY DEF IInv, RowsBacked, TypeOK
<1>4. Spares(w)
  <2>1. \A v \in Worker : req[v].locks \subseteq files
    BY DEF IInv, RowsHeld
  <2>2. \A v \in Worker \ {w} : /\ req[w].rows \cap req[v].want = {}
                                /\ req[v].at \in Storing => req[v].rows \cap req[w].rows = {}
    BY <1>1 DEF IInv, UploadsFresh, Storing
  <2>3. ASSUME NEW v \in Worker, req[v].at \in {"lock", "save"}
        PROVE  req[v].have \subseteq files
    <3>1. Knows(req[v])
      BY DEF IInv, RequestsKnow
    <3>2. CASE req[v].op = "create"
      BY <2>3, <3>1, <3>2 DEF Knows, Saving
    <3>3. CASE HoldsArticle(req[v])
      <4>1. req[v].about \in Articles /\ req[v].have = uses[req[v].about]
        BY <2>3, <3>1, <3>3 DEF IInv, ArticlesHeld, Articles, Knows, Saving
      <4> QED BY <1>3, <4>1 DEF Used
    <3> QED BY <2>3, <3>1, <3>2, <3>3 DEF Knows, Saving, HoldsArticle
  <2> QED BY <1>1, <1>2, <1>3, <2>1, <2>2, <2>3 DEF Spares, IInv, UploadsFresh
<1>5. TypeOK'
  BY <1>1, <1>2, <1>3, FileAssumption, NoRequestFits DEF IInv, TypeOK, Request, Fits
<1>6. Fits(w, NoRequest)'
  BY <1>5, EndFits
<1>7. RowsBacked'
  BY <1>1, <1>2, <1>3 DEF IInv, RowsBacked, TypeOK
<1>8. MarkedIffUnused'
  BY <1>1, <1>2, <1>3, FileAssumption DEF IInv, MarkedIffUnused, TypeOK, Request, Time
<1> QED BY <1>1, <1>4, <1>5, <1>6, <1>7, <1>8, SharedStep

\* The answer with a stored file marks it anew only if nothing uses it.
LEMMA CommitDuplicateInv ==
    ASSUME IInv, NEW w \in Worker, CommitDuplicate(w)
    PROVE  IInv'
<1>1. /\ req[w] \in Request /\ req[w].at = "refresh" /\ Knows(req[w])
      /\ UNCHANGED <<now, files, content, uses, objects, issued, faults, dangling>>
      /\ Used' = Used
      /\ orphaned' = [f \in FileId |-> IF f \in req[w].rows /\ orphaned[f] # None
                                         THEN req[w].since ELSE orphaned[f]]
      /\ req' = [req EXCEPT ![w] = NoRequest]
  BY DEF CommitDuplicate, End, IInv, TypeOK, RequestsKnow, Used, Articles
<1>2. req[w].rows = req[w].locks /\ req[w].gone = {} /\ req[w].since \in Time
  BY <1>1 DEF Knows, Request
<1>3. Spares(w)
  BY <1>1, <1>2 DEF Spares, IInv, RowsHeld, TypeOK, UploadsFresh
<1>4. TypeOK'
  BY <1>1, <1>2, NoRequestFits DEF IInv, TypeOK, Fits
<1>5. Fits(w, NoRequest)'
  BY <1>4, EndFits
<1>6. RowsBacked'
  BY <1>1, <1>2 DEF IInv, RowsBacked, TypeOK
<1>7. MarkedIffUnused'
  BY <1>1, <1>2, FileAssumption DEF IInv, MarkedIffUnused, TypeOK, Time
<1> QED BY <1>1, <1>3, <1>4, <1>5, <1>6, <1>7, SharedStep

\* The request that saves an article holds every row its commit marks or unmarks.
LEMMA SaveHoldsRows ==
    ASSUME IInv, NEW w \in Worker, CommitArticle(w)
    PROVE  /\ req[w].have \cup req[w].want \subseteq req[w].locks
           /\ req[w].want \subseteq files
           /\ \A a \in Articles : a = req[w].about => uses[a] = req[w].have
           /\ req[w].about \notin Articles => req[w].have = {}
<1>1. Knows(req[w]) /\ req[w].at = "save" /\ req[w].want \subseteq files
  BY DEF CommitArticle, IInv, RequestsKnow
<1>2. CASE req[w].op = "create"
  BY <1>1, <1>2 DEF Knows, Saving, CommitArticle
<1>3. CASE req[w].op # "create"
  <2>1. HoldsArticle(req[w])
    BY <1>1, <1>3 DEF Knows, HoldsArticle, Saving
  <2>2. req[w].about \in Articles /\ uses[req[w].about] = req[w].have
    BY <1>1, <2>1 DEF IInv, ArticlesHeld, Articles, Knows, Saving
  <2>3. req[w].have \subseteq files
    BY <2>2 DEF IInv, RowsBacked, Used
  <2> QED BY <1>1, <2>2, <2>3 DEF Knows
<1> QED BY <1>2, <1>3

\* What articles use after the commit: what the others use, and what this one is to use.
LEMMA UsedAfterSave ==
    ASSUME IInv, NEW w \in Worker, CommitArticle(w)
    PROVE  /\ Used' \subseteq Used \cup req[w].want
           /\ Used \subseteq Used' \cup req[w].have
           /\ req[w].want \subseteq Used'
<1> DEFINE a == req[w].about
<1>1. /\ Knows(req[w]) /\ req[w].at = "save" /\ req[w] \in Request
      /\ uses' = [uses EXCEPT ![a] = IF req[w].op = "deletearticle" THEN None ELSE req[w].want]
  BY DEF CommitArticle, IInv, RequestsKnow, TypeOK
<1>2. a \in Article /\ (req[w].op = "deletearticle" => req[w].want = {})
  BY <1>1 DEF Knows, Saving
<1>3. req[w].want # None
  BY <1>1, FileAssumption DEF Request, FileId
<1>4. \A b \in Article \ {a} : uses'[b] = uses[b]
  BY <1>1 DEF IInv, TypeOK
<1>5. uses'[a] = IF req[w].op = "deletearticle" THEN None ELSE req[w].want
  BY <1>1, <1>2 DEF IInv, TypeOK
<1> HIDE DEF a
<1>6. Articles' \ {a} = Articles \ {a} /\ (a \in Articles' <=> req[w].op # "deletearticle")
  BY <1>2, <1>3, <1>4, <1>5 DEF Articles
<1>7. a \in Articles => uses[a] = req[w].have
  BY SaveHoldsRows DEF a
<1>8. Used' \subseteq Used \cup req[w].want
  BY <1>4, <1>5, <1>6 DEF Used, Articles
<1>9. Used \subseteq Used' \cup req[w].have
  BY <1>4, <1>6, <1>7 DEF Used, Articles
<1>10. req[w].want \subseteq Used'
  BY <1>2, <1>5, <1>6 DEF Used
<1> QED BY <1>8, <1>9, <1>10

\* A saved article leaves the markers right, and the rows of others alone.
LEMMA CommitArticleInv ==
    ASSUME IInv, NEW w \in Worker, CommitArticle(w)
    PROVE  IInv'
<1>1. /\ req[w] \in Request /\ req[w].at = "save" /\ Knows(req[w])
      /\ UNCHANGED <<now, files, content, objects, issued, faults, dangling>>
      /\ uses' = [uses EXCEPT ![req[w].about] =
                     IF req[w].op = "deletearticle" THEN None ELSE req[w].want]
      /\ orphaned' = Marked(req[w], Used')
      /\ req' = [req EXCEPT ![w] = NoRequest]
  BY DEF CommitArticle, End, IInv, TypeOK, RequestsKnow
<1>2. /\ req[w].have \cup req[w].want \subseteq req[w].locks
      /\ req[w].want \subseteq files
  BY SaveHoldsRows
<1>3. /\ Used' \subseteq Used \cup req[w].want /\ Used \subseteq Used' \cup req[w].have
      /\ req[w].want \subseteq Used'
  BY UsedAfterSave
<1>4. \A f \in FileId : orphaned'[f] =
         IF f \in req[w].want THEN None
         ELSE IF f \in req[w].have \ (req[w].want \cup Used') THEN req[w].since
         ELSE orphaned[f]
  BY <1>1 DEF Marked
<1>5. Spares(w)
  <2>1. ASSUME NEW v \in Worker \ {w}, NEW f \in req[v].locks
        PROVE  f \in files' /\ orphaned'[f] = orphaned[f] /\ (f \in Used' => f \in Used)
    <3>1. f \in files /\ f \in FileId /\ f \notin req[w].locks
      BY DEF IInv, RowsHeld, TypeOK
    <3> QED BY <1>1, <1>2, <1>3, <1>4, <3>1
  <2>2. ASSUME NEW v \in Worker \ {w}, HoldsArticle(req[v])
        PROVE  uses'[req[v].about] = uses[req[v].about]
    <3>1. req[v].about \in Article /\ uses[req[v].about] # None
      BY <2>2 DEF IInv, ArticlesHeld, RequestsKnow, Knows, HoldsArticle, Saving
    <3>2. req[v].about # req[w].about
      <4>1. CASE HoldsArticle(req[w])
        BY <2>2, <4>1 DEF IInv, ArticlesHeld
      <4>2. CASE req[w].op = "create"
        <5>1. req[w].about \notin Articles
          BY <4>2 DEF CommitArticle
        <5> QED BY <3>1, <5>1 DEF Articles
      <4> QED BY <1>1, <4>1, <4>2 DEF Knows, HoldsArticle, Saving
    <3> QED BY <1>1, <3>1, <3>2 DEF IInv, TypeOK
  <2> QED BY <1>1, <2>1, <2>2 DEF Spares, IInv, UploadsFresh
<1>6. TypeOK'
  <2>1. uses' \in [Article -> (SUBSET FileId) \cup {None}]
    BY <1>1 DEF IInv, TypeOK, Request
  <2>2. orphaned' \in [FileId -> Time \cup {None}]
    BY <1>1 DEF Marked, IInv, TypeOK, Request
  <2>3. req' \in [Worker -> Request]
    BY <1>1, NoRequestFits DEF IInv, TypeOK, Fits
  <2> QED BY <1>1, <2>1, <2>2, <2>3 DEF IInv, TypeOK
<1>7. Fits(w, NoRequest)'
  BY <1>6, EndFits
<1>8. RowsBacked'
  <2>1. req[w].gone = {}
    BY <1>1 DEF Knows
  <2>2. Used' \subseteq files
    BY <1>2, <1>3 DEF IInv, RowsBacked
  <2> QED BY <1>1, <2>1, <2>2 DEF IInv, RowsBacked, TypeOK
<1>9. MarkedIffUnused'
  <2>1. None \notin Time /\ files \subseteq FileId /\ req[w].since \in Time
    BY <1>1, FileAssumption DEF Time, IInv, TypeOK, Request
  <2> QED BY <1>1, <1>3, <1>4, <2>1 DEF IInv, MarkedIffUnused
<1> QED BY <1>1, <1>5, <1>6, <1>7, <1>8, <1>9, SharedStep

\* A deletion removes the object of a row it holds and nobody uses.
LEMMA RemoveObjectInv ==
    ASSUME IInv, NEW w \in Worker, RemoveObject(w)
    PROVE  IInv'
<1>1. /\ req[w] \in Request /\ req[w].at = "remove" /\ Knows(req[w])
      /\ UNCHANGED <<now, rows, issued, faults, dangling>> /\ Used' = Used
      /\ objects' = objects \ req[w].rows
  BY DEF RemoveObject, IInv, TypeOK, RequestsKnow, rows, Used, Articles
<1> PICK r : r = [req[w] EXCEPT !.at = "drop", !.gone = req[w].rows]
  OBVIOUS
<1>2. req' = [req EXCEPT ![w] = r]
  BY DEF RemoveObject, IInv, TypeOK
<1>3. /\ r.at = "drop" /\ r.gone = req[w].rows /\ r.locks = req[w].locks
      /\ r.want = req[w].want /\ r.have = req[w].have /\ r.since = req[w].since
  BY <1>1 DEF Request
<1>4. r \in Request
  BY <1>1 DEF Request, At
<1>5. req[w].rows \subseteq req[w].locks \ Used /\ req[w].locks \subseteq files
  BY <1>1 DEF Knows, IInv, RowsHeld
<1>6. Spares(w)
  BY <1>1, <1>5 DEF Spares, rows, IInv, RowsHeld, UploadsFresh, Storing
<1>7. TypeOK'
  BY <1>1, <1>2, <1>4 DEF rows, IInv, TypeOK
<1>8. Fits(w, r)'
  <2>1. Knows(r)'
    BY <1>1, <1>3, <1>5 DEF Knows, Holding, Storing, Saving
  <2>2. \A v \in Worker \ {w} : req'[v] = req[v]
    BY <1>2 DEF IInv, TypeOK
  <2>3. ~HoldsArticle(r) /\ r.at \notin Storing
    BY <1>3 DEF HoldsArticle, Saving, Storing
  <2> QED BY <1>1, <1>3, <1>4, <2>1, <2>2, <2>3 DEF Fits, rows, IInv, RowsHeld, UploadsFresh
<1>9. RowsBacked'
  <2>1. req[w].gone = {} /\ req'[w] = r /\ \A v \in Worker \ {w} : req'[v] = req[v]
    BY <1>1, <1>2 DEF Knows, IInv, TypeOK
  <2> QED BY <1>1, <1>3, <2>1 DEF rows, IInv, RowsBacked
<1>10. MarkedIffUnused'
  BY <1>1 DEF rows, IInv, MarkedIffUnused
<1> QED BY <1>1, <1>2, <1>6, <1>7, <1>8, <1>9, <1>10, SharedStep

\* What the cleanup finds under its locks is still unused when it comes to it.
LEMMA CollectsUnused ==
    ASSUME IInv, NEW w \in Worker, req[w].at = "collect"
    PROVE  /\ req[w].rows \subseteq files \ Used
           /\ \A f \in req[w].rows : Stale(f, now)
<1>1. Knows(req[w]) /\ req[w].locks \subseteq files /\ files \subseteq FileId
      /\ req[w] \in Request /\ now \in Nat
  BY DEF IInv, RequestsKnow, RowsHeld, TypeOK, Time
<1>2. ASSUME NEW f \in req[w].rows
      PROVE  f \in files \ Used /\ Stale(f, now)
  <2>1. f \in files /\ Stale(f, req[w].since) /\ req[w].since <= now
    BY <1>1 DEF Knows
  <2>2. orphaned[f] # None /\ orphaned[f] \in Nat /\ req[w].since \in Nat /\ Grace \in Nat
    BY <1>1, <2>1, FileAssumption DEF Stale, IInv, TypeOK, Time, Request
  <2>3. f \notin Used
    BY <2>1, <2>2 DEF IInv, MarkedIffUnused
  <2> QED BY <1>1, <2>1, <2>2, <2>3 DEF Stale
<1> QED BY <1>2

\* So does the cleanup, one file at a time.
LEMMA CollectInv ==
    ASSUME IInv, NEW w \in Worker, NEW f \in FileId, Collect(w, f)
    PROVE  IInv'
<1>1. /\ req[w] \in Request /\ req[w].at = "collect" /\ Knows(req[w])
      /\ UNCHANGED <<now, rows, issued, faults, dangling>> /\ Used' = Used
      /\ f \in req[w].rows /\ req[w].rows \subseteq req[w].locks
  BY DEF Collect, IInv, TypeOK, RequestsKnow, rows, Used, Articles, Knows
<1>2. f \notin Used /\ f \in files
  BY <1>1, CollectsUnused
<1> PICK r : r = [req[w] EXCEPT !.rows = @ \ {f}, !.gone = @ \cup {f}]
  OBVIOUS
<1>3. req' = [req EXCEPT ![w] = r] /\ objects' = objects \ {f}
  BY <1>1, <1>2 DEF Collect, IInv, TypeOK
<1>4. /\ r.at = "collect" /\ r.rows = req[w].rows \ {f} /\ r.gone = req[w].gone \cup {f}
      /\ r.locks = req[w].locks /\ r.want = req[w].want /\ r.have = req[w].have
      /\ r.since = req[w].since
  BY <1>1 DEF Request
<1>5. r \in Request
  BY <1>1 DEF Request, At
<1>6. Spares(w)
  BY <1>1, <1>2, <1>3 DEF Spares, rows, IInv, RowsHeld, UploadsFresh, Storing
<1>7. TypeOK'
  BY <1>1, <1>3, <1>5 DEF rows, IInv, TypeOK
<1>8. Fits(w, r)'
  <2>1. Knows(r)'
    BY <1>1, <1>2, <1>4 DEF Knows, Holding, Storing, Saving, rows, Stale
  <2>2. \A v \in Worker \ {w} : req'[v] = req[v]
    BY <1>3 DEF IInv, TypeOK
  <2>3. ~HoldsArticle(r) /\ r.at \notin Storing
    BY <1>4 DEF HoldsArticle, Saving, Storing
  <2> QED BY <1>1, <1>4, <1>5, <2>1, <2>2, <2>3 DEF Fits, rows, IInv, RowsHeld, UploadsFresh
<1>9. RowsBacked'
  <2>1. req'[w] = r /\ \A v \in Worker \ {w} : req'[v] = req[v]
    BY <1>3 DEF IInv, TypeOK
  <2> QED BY <1>1, <1>3, <1>4, <2>1 DEF rows, IInv, RowsBacked
<1>10. MarkedIffUnused'
  BY <1>1 DEF rows, IInv, MarkedIffUnused
<1> QED BY <1>1, <1>3, <1>6, <1>7, <1>8, <1>9, <1>10, SharedStep

\* The rows go with their markers, and only rows whose objects are gone.
LEMMA DropRowsInv ==
    ASSUME IInv, NEW w \in Worker, CommitDelete(w) \/ CommitPrune(w)
    PROVE  IInv'
<1>1. /\ req[w] \in Request /\ req[w].at \in {"drop", "collect"} /\ Knows(req[w])
      /\ UNCHANGED <<now, uses, objects, issued, faults>> /\ Used' = Used
      /\ files' = files \ req[w].gone
      /\ orphaned' = [f \in FileId |-> IF f \in req[w].gone \cup req[w].have THEN None
                                         ELSE orphaned[f]]
      /\ content' = [f \in FileId |-> IF f \in req[w].gone THEN None ELSE content[f]]
      /\ dangling' = dangling \ req[w].gone
      /\ req' = [req EXCEPT ![w] = NoRequest]
  BY DEF CommitDelete, CommitPrune, DropRows, End, IInv, TypeOK, RequestsKnow, Used, Articles
<1>2. req[w].have = {} /\ req[w].gone \subseteq req[w].locks \ Used
  BY <1>1 DEF Knows
<1>3. Spares(w)
  BY <1>1, <1>2 DEF Spares, IInv, RowsHeld, TypeOK, UploadsFresh
<1>4. TypeOK'
  <2>1. req' \in [Worker -> Request]
    BY <1>1, NoRequestFits DEF IInv, TypeOK, Fits
  <2>2. /\ content' \in [FileId -> Content \cup {None}]
        /\ orphaned' \in [FileId -> Time \cup {None}]
    BY <1>1 DEF IInv, TypeOK
  <2>3. \A f \in FileId : f \in files' <=> content'[f] # None
    BY <1>1 DEF IInv, TypeOK
  <2> QED BY <1>1, <2>1, <2>2, <2>3 DEF IInv, TypeOK
<1>5. Fits(w, NoRequest)'
  BY <1>4, EndFits
<1>6. RowsBacked'
  <2>1. \A v \in Worker \ {w} : req'[v] = req[v]
    BY <1>1 DEF IInv, TypeOK
  <2> QED BY <1>1, <1>2, <2>1 DEF IInv, RowsBacked
<1>7. MarkedIffUnused'
  BY <1>1, <1>2 DEF IInv, MarkedIffUnused, TypeOK
<1> QED BY <1>1, <1>3, <1>4, <1>5, <1>6, <1>7, SharedStep

\* A request that breaks off leaves rows without objects to its account (dangling).
LEMMA BreakInv ==
    ASSUME IInv, NEW w \in Worker, Break(w)
    PROVE  IInv'
<1>1. /\ req[w] \in Request /\ Knows(req[w])
      /\ UNCHANGED <<now, rows, objects, issued>> /\ Used' = Used
      /\ dangling' = dangling \cup req[w].gone
      /\ req' = [req EXCEPT ![w] = NoRequest]
  BY DEF Break, End, IInv, TypeOK, RequestsKnow, rows, Used, Articles
<1>2. req[w].gone \subseteq files
  BY <1>1 DEF Knows, IInv, RowsHeld
<1>3. Spares(w)
  BY <1>1 DEF Spares, rows, IInv, RowsHeld, UploadsFresh
<1>4. TypeOK'
  <2>1. req' \in [Worker -> Request]
    BY <1>1, NoRequestFits DEF IInv, TypeOK, Fits
  <2>2. faults' \in 0..MaxFaults
    BY FileAssumption DEF Break, IInv, TypeOK
  <2> QED BY <1>1, <1>2, <2>1, <2>2 DEF rows, IInv, TypeOK
<1>5. Fits(w, NoRequest)'
  BY <1>4, EndFits
<1>6. RowsBacked'
  <2>1. \A v \in Worker \ {w} : req'[v] = req[v]
    BY <1>1 DEF IInv, TypeOK
  <2> QED BY <1>1, <2>1 DEF rows, IInv, RowsBacked
<1>7. MarkedIffUnused'
  BY <1>1 DEF rows, IInv, MarkedIffUnused
<1> QED BY <1>1, <1>3, <1>4, <1>5, <1>6, <1>7, SharedStep

\* The clock only makes what is stale more so.
LEMMA TickInv ==
    ASSUME IInv, Tick
    PROVE  IInv'
<1>1. /\ UNCHANGED <<rows, objects, issued, req, faults, dangling>> /\ Used' = Used
      /\ now \in Nat /\ now' = now + 1 /\ now' \in Time
  BY FileAssumption DEF Tick, IInv, TypeOK, Time, rows, Used, Articles
<1>2. RequestsKnow'
  <2>1. ASSUME NEW w \in Worker
        PROVE  Knows(req[w])'
    <3>1. Knows(req[w]) /\ req[w].since \in Nat
      BY DEF IInv, RequestsKnow, TypeOK, Request, Time
    <3> QED BY <1>1, <3>1 DEF Knows, rows, Stale
  <2> QED BY <2>1 DEF RequestsKnow
<1>3. TypeOK'
  BY <1>1 DEF rows, IInv, TypeOK
<1>4. RowsHeld' /\ ArticlesHeld' /\ UploadsFresh' /\ RowsBacked' /\ MarkedIffUnused'
  BY <1>1 DEF rows, IInv, RowsHeld, ArticlesHeld, UploadsFresh, RowsBacked, MarkedIffUnused
<1> QED BY <1>2, <1>3, <1>4 DEF IInv

-----------------------------------------------------------------------------
(* The invariant holds throughout, and what follows from it.                *)

\* It holds of an empty bucket.
LEMMA InitInv == Init => IInv
<1> SUFFICES ASSUME Init PROVE IInv
  OBVIOUS
<1>1. Used = {} /\ \A w \in Worker : req[w] = NoRequest
  BY DEF Init, Used, Articles
<1>2. NoRequest \in Request
  BY FileAssumption DEF NoRequest, Request, At, Op, Time
<1>3. TypeOK
  BY <1>2, FileAssumption DEF Init, TypeOK, Time
<1>4. RequestsKnow
  BY <1>1 DEF Init, RequestsKnow, Knows, NoRequest, Holding, Saving
<1>5. RowsHeld /\ ArticlesHeld /\ UploadsFresh
  BY <1>1 DEF RowsHeld, ArticlesHeld, UploadsFresh, NoRequest, HoldsArticle, Saving, Storing
<1>6. RowsBacked /\ MarkedIffUnused
  BY <1>1 DEF Init, RowsBacked, MarkedIffUnused
<1> QED BY <1>3, <1>4, <1>5, <1>6 DEF IInv

\* Every step keeps it.
LEMMA NextInv == IInv /\ [Next]_vars => IInv'
<1> SUFFICES ASSUME IInv, [Next]_vars PROVE IInv'
  OBVIOUS
<1>1. ASSUME NEW w \in Worker, Start(w) PROVE IInv'
  BY <1>1, StartInv
<1>2. ASSUME NEW w \in Worker, Waiting(w) PROVE IInv'
  BY <1>2, LockDuplicateInv, OpenArticleInv, LockNextInv, LockDeleteInv DEF Waiting
<1>3. ASSUME NEW w \in Worker, Going(w) PROVE IInv'
  <2>1. ASSUME NEW f \in FileId, Collect(w, f) \/ KeepOrphan(w, f) PROVE IInv'
    BY <2>1, CollectInv, KeepOrphanInv
  <2>2. CASE \/ ContentRejected(w) \/ ArticleNotFound(w) \/ FilesNotFound(w)
             \/ SaveRefused(w) \/ DeleteRefused(w)
    BY <2>2, RefusedInv
  <2>3. CASE CommitDuplicate(w) \/ CreateRow(w) \/ PutObject(w) \/ CommitUpload(w)
    BY <2>3, CommitDuplicateInv, CreateRowInv, PutObjectInv, CommitUploadInv
  <2>4. CASE CheckFiles(w) \/ CommitArticle(w) \/ RemoveObject(w) \/ LockOrphans(w)
    BY <2>4, CheckFilesInv, CommitArticleInv, RemoveObjectInv, LockOrphansInv
  <2>5. CASE CommitDelete(w) \/ CommitPrune(w)
    BY <2>5, DropRowsInv
  <2> QED BY <1>3, <2>1, <2>2, <2>3, <2>4, <2>5 DEF Going
<1>4. ASSUME NEW w \in Worker, Break(w) PROVE IInv'
  BY <1>4, BreakInv
<1>5. CASE Tick
  BY <1>5, TickInv
<1>6. CASE UNCHANGED vars
  <2>1. UNCHANGED <<now, files, content, orphaned, uses, objects, issued, req, faults, dangling>>
    BY <1>6 DEF vars, rows
  <2>2. Used' = Used
    BY <2>1 DEF Used, Articles
  <2>3. TypeOK' /\ RowsHeld' /\ ArticlesHeld' /\ UploadsFresh' /\ RowsBacked' /\ MarkedIffUnused'
    BY <2>1, <2>2 DEF IInv, TypeOK, RowsHeld, ArticlesHeld, UploadsFresh, RowsBacked,
                      MarkedIffUnused, HoldsArticle
  <2>4. RequestsKnow'
    BY <2>1, <2>2 DEF IInv, RequestsKnow, Knows, Stale
  <2> QED BY <2>3, <2>4 DEF IInv
<1> QED BY <1>1, <1>2, <1>3, <1>4, <1>5, <1>6 DEF Next

\* The invariant: who holds which row and article, what a request therefore knows, which
\* rows have objects and which carry the marker.
THEOREM FileInvariant == Spec => []IInv
BY InitInv, NextInv, PTL DEF Spec

\* Every variable has its type.
THEOREM TypeInvariant == Spec => []TypeOK
<1>1. IInv => TypeOK
  BY DEF IInv
<1> QED BY <1>1, FileInvariant, PTL

\* The marker that exposes a file to the cleanup is on exactly the files no article uses.
THEOREM MarkersFollowUse == Spec => []MarkedIffUnused
<1>1. IInv => MarkedIffUnused
  BY DEF IInv
<1> QED BY <1>1, FileInvariant, PTL

\* An upload that answers with a file stored earlier answers with one that is still there.
THEOREM AnswersHold == Spec => []UploadAnswersStoredFile
<1>1. IInv => UploadAnswersStoredFile
  BY DEF IInv, UploadAnswersStoredFile, RowsHeld, RequestsKnow, Knows
<1> QED BY <1>1, FileInvariant, PTL

\* A file that can be used has its row and its object; a row without one is in the hands
\* of the request that is removing it, or was left behind by one that failed.
THEOREM RowsHaveObjects == Spec => []ObjectsBehindRows
<1>1. ASSUME IInv, NEW f \in files \ (objects \cup dangling)
      PROVE  f \notin Used /\ \E w \in Worker : f \in req[w].gone \cap req[w].locks
  <2>1. PICK w \in Worker : f \in req[w].gone
    BY <1>1 DEF IInv, RowsBacked
  <2>2. f \in req[w].locks \ Used
    BY <1>1, <2>1 DEF IInv, RequestsKnow, Knows
  <2> QED BY <2>1, <2>2
<1>2. IInv => ObjectsBehindRows
  BY <1>1 DEF IInv, RowsBacked, ObjectsBehindRows
<1> QED BY <1>2, FileInvariant, PTL

\* Only deletions and the cleanup remove objects.
LEMMA ObjectsRemoved ==
    ASSUME [Next]_vars, objects \ objects' # {}
    PROVE  \E w \in Worker : RemoveObject(w) \/ \E f \in FileId : Collect(w, f)
<1>1. ASSUME NEW w \in Worker, Start(w) PROVE FALSE
  BY <1>1 DEF Start, StartUpload, StartCreate, StartUpdate, StartDeleteArticle, StartDelete,
              StartPrune, Begin
<1>2. ASSUME NEW w \in Worker, Waiting(w) \/ Break(w) PROVE FALSE
  BY <1>2 DEF Waiting, LockDuplicate, OpenArticle, LockNext, LockDelete, Becomes, Break
<1>3. ASSUME NEW w \in Worker, Going(w)
      PROVE  RemoveObject(w) \/ \E f \in FileId : Collect(w, f)
  BY <1>3 DEF Going, CommitDuplicate, CreateRow, ContentRejected, PutObject, CommitUpload,
              ArticleNotFound, CheckFiles, FilesNotFound, SaveRefused, CommitArticle,
              DeleteRefused, CommitDelete, LockOrphans, CommitPrune, KeepOrphan,
              DropRows, Refuse, Becomes
<1>4. CASE Tick \/ UNCHANGED vars
  BY <1>4 DEF Tick, vars
<1> QED BY <1>1, <1>2, <1>3, <1>4 DEF Next

\* The cleanup removes only what is unused and was marked longer than the retention time
\* ago at that moment.
THEOREM CleanupTakesStale == Spec => OnlyStaleOrphansCollected
<1> DEFINE A == \A w \in Worker, f \in FileId :
                   f \in objects \ objects' /\ req[w].at = "collect" /\ f \in req'[w].gone
                      => f \in files \ Used /\ Stale(f, now)
<1>1. ASSUME IInv, [Next]_vars, NEW w \in Worker, NEW f \in FileId,
             f \in objects \ objects', req[w].at = "collect", f \in req'[w].gone
      PROVE  f \in files \ Used /\ Stale(f, now)
  <2>1. PICK v \in Worker : RemoveObject(v) \/ \E g \in FileId : Collect(v, g)
    BY <1>1, ObjectsRemoved
  <2>2. CASE RemoveObject(v)
    <3>1. f \in req[v].locks /\ v # w /\ req'[w] = req[w]
      BY <1>1, <2>2 DEF RemoveObject, IInv, RequestsKnow, Knows, TypeOK
    <3>2. f \in req[w].locks
      BY <1>1, <3>1 DEF IInv, RequestsKnow, Knows
    <3> QED BY <1>1, <3>1, <3>2 DEF IInv, RowsHeld
  <2>3. ASSUME NEW g \in FileId, Collect(v, g)
        PROVE  f \in req[v].rows /\ req[v].at = "collect"
    BY <1>1, <2>3 DEF Collect
  <2>4. CASE \E g \in FileId : Collect(v, g)
    BY <1>1, <2>3, <2>4, CollectsUnused
  <2> QED BY <2>1, <2>2, <2>4
<1>2. IInv /\ [Next]_vars => A
  BY <1>1
<1>3. Spec => [][A]_vars
  BY <1>2, FileInvariant, PTL DEF Spec
<1> QED BY <1>3 DEF OnlyStaleOrphansCollected

-----------------------------------------------------------------------------
(* Locks.                                                                   *)

\* A request that is waited for and waits itself is locking rows, and waits for a greater
\* one than it is waited for.
LEMMA WaitsUpwards ==
    ASSUME IInv, NEW w \in Worker, NEW v \in Worker, NEW u \in Worker,
           Waits(w, v), Waits(v, u)
    PROVE  /\ req[v].at = "lock" /\ NextRow(v) \in FileId
           /\ req[w].at = "lock" => NextRow(w) < NextRow(v)
<1>1. /\ Knows(req[w]) /\ req[w] \in Request
      /\ Knows(req[v]) /\ req[v] \in Request
  BY DEF IInv, RequestsKnow, TypeOK
<1>2. req[v].at \in {"lock", "wait", "open"}
  BY DEF Waits
<1>3. req[v].at = "lock"
  BY <1>1, <1>2 DEF Waits, Knows, Holding, HoldsArticle
<1>4. NextRow(v) \in req[v].rows /\ req[v].rows \subseteq FileId
  BY <1>1, <1>3, NextRowIsLeast DEF Knows, Request
<1>5. ASSUME req[w].at = "lock" PROVE NextRow(w) < NextRow(v)
  BY <1>1, <1>3, <1>4, <1>5 DEF Waits, Knows
<1> QED BY <1>3, <1>4, <1>5

\* No order in which requests lock articles and files makes them wait for each other: of
\* the waiting requests that are waited for, one waits for the greatest row.
THEOREM NoDeadlock == Spec => []NoLockCycle
<1>1. ASSUME IInv, NEW S \in SUBSET Worker, S # {}, \A w \in S : \E v \in S : Waits(w, v)
      PROVE  FALSE
  <2> DEFINE awaited == {v \in S : \E w \in S : Waits(w, v)}
             nexts   == {NextRow(v) : v \in awaited}
  <2>1. ASSUME NEW w \in S, NEW v \in S, Waits(w, v)
        PROVE  /\ req[v].at = "lock" /\ NextRow(v) \in FileId
               /\ req[w].at = "lock" => NextRow(w) < NextRow(v)
    <3>1. PICK u \in S : Waits(v, u)
      BY <1>1
    <3> QED BY <1>1, <2>1, <3>1, WaitsUpwards
  <2>2. nexts \in SUBSET (0..MaxFile) /\ nexts # {}
    <3>1. \A v \in awaited : NextRow(v) \in 0..MaxFile
      BY <2>1, FileAssumption DEF FileId
    <3>2. awaited # {}
      BY <1>1
    <3> QED BY <3>1, <3>2
  <2>3. PICK v \in awaited : \A u \in awaited : NextRow(v) >= NextRow(u)
    <3> HIDE DEF nexts
    <3>1. PICK m \in nexts : \A n \in nexts : m >= n
      BY <2>2, FileAssumption, GreatestNumber
    <3> QED BY <3>1 DEF nexts
  <2>4. PICK u \in S : Waits(v, u)
    BY <1>1
  <2>5. u \in awaited /\ NextRow(u) >= NextRow(v) + 1
    BY <2>1, <2>4 DEF FileId
  <2> QED BY <2>1, <2>3, <2>5 DEF FileId
<1>2. IInv => NoLockCycle
  BY <1>1 DEF NoLockCycle
<1> QED BY <1>2, FileInvariant, PTL
=============================================================================
