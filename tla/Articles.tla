------------------------------- MODULE Articles -------------------------------
(***************************************************************************)
(* The wiki: articles in prioritised folders, with tags and the reactions   *)
(* of anonymous readers, under concurrent requests.                         *)
(*                                                                         *)
(* An administrator's operation that one locked or single statement decides *)
(* is one action, at its commit.  One that reads a row or a list without a  *)
(* lock and writes it in a later statement is two: the ORM then writes the  *)
(* columns that differ from what it read.  A committed change waits, at     *)
(* "committed", for the action that follows its commit.                     *)
(***************************************************************************)
EXTENDS SequencesExt

CONSTANTS
    Article, Slug, Tag, TagSlug, Voter, None,
    Folder,    \* identifiers: numbers, which order folders of equal priority
    MaxCalls,  \* bound on the requests of a behaviour
    Kept       \* what the tables hold at the start

VARIABLES
    articles,  \* the rows, None where there is none
    folders,   \* the priorities
    tags,      \* the slugs
    votes,     \* the stored reaction of a voter to an article
    said,      \* the reaction the voter last set with success
    areq,      \* the requests
    calls      \* the number of the last request, of the clock too

articlesVars == <<articles, folders, tags, votes, said, areq, calls>>

Status   == {"Draft", "Published"}
Reaction == {"heart", "fire"}
Request  == 1..MaxCalls

Idle == [at |-> "idle", on |-> None, to |-> None, seen |-> None]

Stored  == {a \in Article : articles[a] # None}
Present(table) == {x \in DOMAIN table : table[x] # None}

-----------------------------------------------------------------------------
(* What the public addresses of the domain show.                            *)

IsAvailable(a) == articles[a] # None /\ articles[a].status = "Published"
Public == {a \in Article : IsAvailable(a)}

TagSlugs(a) == {tags[t] : t \in articles[a].tags}
\* The slug stands for every field of the article that is shown.
Shown(a) == [slug |-> articles[a].slug, folder |-> articles[a].folder,
             tags |-> TagSlugs(a), date |-> articles[a].date]

Precedes(f, g) == folders[f] < folders[g] \/ (folders[f] = folders[g] /\ f < g)

\* Folders without a published article are left out.
Tree ==
    LET inFolder(f) == {a \in Public : articles[a].folder = f}
        listed == SetToSortSeq({f \in Present(folders) : inFolder(f) # {}}, Precedes)
    IN  [n \in DOMAIN listed |-> [folder |-> listed[n], articles |-> {Shown(a) : a \in inFolder(listed[n])}]]

Detail(slug) ==
    LET named == {a \in Public : articles[a].slug = slug}
    IN  IF named = {} THEN None ELSE {Shown(a) : a \in named}

TaggedWith(slug) == {Shown(a) : a \in {b \in Public : slug \in TagSlugs(b)}}

TagsInUse == UNION {TagSlugs(a) : a \in Public}

\* What the handler of an address answers; None is 404.
View(address) ==
    CASE address.kind = "article" -> Detail(address.arg)
      [] address.kind = "list"    -> {Shown(a) : a \in Public}
      [] address.kind = "tagged"  -> TaggedWith(address.arg)
      [] address.kind = "tags"    -> TagsInUse
      [] address.kind = "tree"    -> Tree

-----------------------------------------------------------------------------
(* Requests.                                                                *)

Begin(r) == r = calls + 1 /\ areq[r] = Idle /\ calls' = r
Holds(r, at, on, to, seen) ==
    areq' = [areq EXCEPT ![r] = [at |-> at, on |-> on, to |-> to, seen |-> seen]]
Commit(r) == areq' = [areq EXCEPT ![r] = [Idle EXCEPT !.at = "committed"]]

\* A request that starts and commits in one step.
Once(r) == Begin(r) /\ Commit(r)
Step(r, at) == areq[r].at = at /\ UNCHANGED calls

\* A refusal, an error of the database, or a lost connection.
Abort(r) ==
    /\ areq[r].at \notin {"idle", "committed"}
    /\ areq' = [areq EXCEPT ![r] = Idle]
    /\ UNCHANGED <<articles, folders, tags, votes, said, calls>>

\* An identifier is not used a second time while a request still knows the first use.
Unknown(x) == \A r \in Request :
    areq[r].on # x /\ (areq[r].at = "edited" => x \notin areq[r].to.tags)

SlugFree(a, slug) == \A b \in Stored \ {a} : articles[b].slug # slug

-----------------------------------------------------------------------------
(* Articles.                                                                *)

\* Bound: a new article is filed in the first folder, with every tag; an edit moves it.
NewArticle(slug, status, now) ==
    [slug |-> slug, status |-> status,
     folder |-> CHOOSE f \in Present(folders) : \A g \in Present(folders) : f <= g,
     tags |-> Present(tags), date |-> IF status = "Published" THEN now ELSE None]

\* The tags and the folder are looked up first; a slug that is taken is a conflict.
CreateArticle(r) ==
    /\ Once(r)
    /\ \E a \in Article \ Stored, slug \in Slug, status \in Status :
         /\ Unknown(a) /\ SlugFree(a, slug)
         /\ articles' = [articles EXCEPT ![a] = NewArticle(slug, status, r)]
    /\ UNCHANGED <<folders, tags, votes, said>>

\* What an editor makes of an article: one of its fields is changed.
Edits(record) ==
    {[record EXCEPT !.slug = slug] : slug \in Slug \ {record.slug}}
    \cup {[record EXCEPT !.folder = f] : f \in Present(folders) \ {record.folder}}
    \cup {[record EXCEPT !.tags = own] : own \in SUBSET Present(tags) \ {record.tags}}
    \cup {[record EXCEPT !.status = status] : status \in Status \ {record.status}}

\* The editor's form is filled from an earlier answer and sent back whole.
OpenEditor(r) ==
    /\ Begin(r)
    /\ \E a \in Stored : \E form \in Edits(articles[a]) :
         Holds(r, "edited", articles[a].slug, form, None)
    /\ UNCHANGED <<articles, folders, tags, votes, said>>

\* Mutant: an article that is a draft again loses its date.
FirstDateOrNone(record, status, now) ==
    IF status = "Draft" THEN None ELSE IF record.date = None THEN now ELSE record.date

FirstDate(record, status, now) ==
    IF record.date = None /\ status = "Published" THEN now ELSE record.date

\* What the editor left is written over the row, except for the date.
Write(a, form, now) ==
    /\ form.tags \subseteq Present(tags) /\ SlugFree(a, form.slug)
    /\ articles' = [articles EXCEPT ![a] =
           [form EXCEPT !.date = FirstDate(articles[a], form.status, now)]]

\* The row is locked by the slug of the address.  It may be another article by then.
UpdateArticle(r) ==
    /\ Step(r, "edited")
    /\ \E a \in Stored : articles[a].slug = areq[r].on /\ Write(a, areq[r].to, r)
    /\ Commit(r)
    /\ UNCHANGED <<folders, tags, votes, said>>

\* A reaction that is being changed is waited for; then the reactions go with the article.
DeleteArticle(r) ==
    /\ Once(r)
    /\ \E a \in Stored :
         /\ \A q \in Request : areq[q].at = "react" => areq[q].on # a \/ areq[q].seen = None
         /\ articles' = [articles EXCEPT ![a] = None]
         /\ votes' = [votes EXCEPT ![a] = [v \in Voter |-> None]]
         /\ said' = [said EXCEPT ![a] = [v \in Voter |-> None]]
    /\ UNCHANGED <<folders, tags>>

\* set-draft and set-published read the row without a lock
LoadForStatus(r) ==
    /\ Begin(r)
    /\ \E a \in Stored, status \in Status : Holds(r, "status", a, status, articles[a])
    /\ UNCHANGED <<articles, folders, tags, votes, said>>

\* and write what differs: nothing, if the row already said so when it was read.
SaveStatus(r) ==
    /\ Step(r, "status")
    /\ LET a == areq[r].on  status == areq[r].to  seen == areq[r].seen
           date == FirstDate(seen, status, calls)
       IN  IF status = seen.status /\ date = seen.date THEN UNCHANGED articles
           ELSE /\ a \in Stored
                /\ articles' = [articles EXCEPT
                       ![a].status = IF status # seen.status THEN status ELSE @,
                       ![a].date   = IF date # seen.date THEN date ELSE @]
    /\ Commit(r)
    /\ UNCHANGED <<folders, tags, votes, said>>

-----------------------------------------------------------------------------
(* Tags and folders.                                                        *)

TagSlugFree(t, slug) == \A u \in Present(tags) \ {t} : tags[u] # slug

CreateTag(r) ==
    /\ Once(r)
    /\ \E t \in Tag \ Present(tags), slug \in TagSlug :
         Unknown(t) /\ TagSlugFree(t, slug) /\ tags' = [tags EXCEPT ![t] = slug]
    /\ UNCHANGED <<articles, folders, votes, said>>

LoadTag(r) ==
    /\ Begin(r)
    /\ \E t \in Present(tags), slug \in TagSlug : Holds(r, "tag", t, slug, tags[t])
    /\ UNCHANGED <<articles, folders, tags, votes, said>>

\* Mutant: the handler does not ask for the invalidation.
SaveTagOnly(r) ==
    /\ Step(r, "tag")
    /\ LET t == areq[r].on  slug == areq[r].to
       IN  IF slug = areq[r].seen THEN UNCHANGED tags
           ELSE t \in Present(tags) /\ TagSlugFree(t, slug) /\ tags' = [tags EXCEPT ![t] = slug]
    /\ areq' = [areq EXCEPT ![r] = Idle]
    /\ UNCHANGED <<articles, folders, votes, said>>

SaveTag(r) ==
    /\ Step(r, "tag")
    /\ LET t == areq[r].on  slug == areq[r].to
       IN  IF slug = areq[r].seen THEN UNCHANGED tags
           ELSE t \in Present(tags) /\ TagSlugFree(t, slug) /\ tags' = [tags EXCEPT ![t] = slug]
    /\ Commit(r)
    /\ UNCHANGED <<articles, folders, votes, said>>

\* Mutant: the links are left.
DeleteTagOnly(r) ==
    /\ Once(r)
    /\ \E t \in Present(tags) : tags' = [tags EXCEPT ![t] = None]
    /\ UNCHANGED <<articles, folders, votes, said>>

\* The links to articles go with the tag.
DeleteTag(r) ==
    /\ Once(r)
    /\ \E t \in Present(tags) :
         /\ tags' = [tags EXCEPT ![t] = None]
         /\ articles' = [a \in Article |->
                IF a \in Stored THEN [articles[a] EXCEPT !.tags = @ \ {t}] ELSE None]
    /\ UNCHANGED <<folders, votes, said>>

NextPriority == Max({0} \cup {folders[f] : f \in Present(folders)}) + 1

\* The key is free and the next priority is read
CheckFolder(r) ==
    /\ Begin(r)
    /\ \E f \in Folder \ Present(folders) : Holds(r, "folder", f, NextPriority, None)
    /\ UNCHANGED <<articles, folders, tags, votes, said>>

\* before the row is inserted: its priority may be another folder's by then, its key may not.
InsertFolder(r) ==
    /\ Step(r, "folder")
    /\ areq[r].on \notin Present(folders)
    /\ folders' = [folders EXCEPT ![areq[r].on] = areq[r].to]
    /\ Commit(r)
    /\ UNCHANGED <<articles, tags, votes, said>>

\* The order sent is checked to be one of all folders,
CheckFolderOrder(r) ==
    /\ Begin(r)
    /\ \E order \in SetToSeqs(Present(folders)) : Holds(r, "order", None, order, None)
    /\ UNCHANGED <<articles, folders, tags, votes, said>>

\* and one statement numbers them; a folder that came meanwhile keeps its number.
SaveFolderOrder(r) ==
    /\ Step(r, "order")
    /\ LET order == areq[r].to
       IN  folders' = [f \in Folder |->
               IF f \in Range(order) THEN CHOOSE n \in DOMAIN order : order[n] = f ELSE folders[f]]
    /\ Commit(r)
    /\ UNCHANGED <<articles, tags, votes, said>>

-----------------------------------------------------------------------------
(* Reactions.                                                               *)

FindPublished(r) ==
    /\ Begin(r)
    /\ \E a \in Public, v \in Voter, kind \in Reaction \cup {None} :
         Holds(r, "vote", a, [voter |-> v, kind |-> kind], None)
    /\ UNCHANGED <<articles, folders, tags, votes, said>>

\* Mutant: the reaction is read without a lock.
VoteUnlocked(r) == r \in Request

\* Nobody else holds the stored reaction.
VoteFree(r) == ~ \E q \in Request \ {r} :
    /\ areq[q].at = "react" /\ areq[q].seen # None
    /\ areq[q].on = areq[r].on /\ areq[q].to.voter = areq[r].to.voter

\* SELECT ... FOR UPDATE; without a reaction there is nothing to clear.
LockVote(r) ==
    /\ Step(r, "vote")
    /\ LET a == areq[r].on  v == areq[r].to.voter  kind == areq[r].to.kind
       IN  /\ votes[a][v] # None => VoteFree(r)
           /\ IF kind = None /\ votes[a][v] = None
              THEN /\ areq' = [areq EXCEPT ![r] = Idle]
                   /\ said' = [said EXCEPT ![a][v] = None]
              ELSE Holds(r, "react", a, areq[r].to, votes[a][v]) /\ UNCHANGED said
    /\ UNCHANGED <<articles, folders, tags, votes>>

\* The reaction is inserted, unless another request has just done so or the article is
\* gone; or it is changed or deleted, if it differs from what is asked for.
CommitVote(r) ==
    /\ Step(r, "react")
    /\ LET a == areq[r].on  v == areq[r].to.voter  kind == areq[r].to.kind  seen == areq[r].seen
       IN  /\ seen = None => a \in Stored /\ votes[a][v] = None
           /\ seen # None /\ seen # kind => votes[a][v] # None
           /\ votes' = IF seen = kind THEN votes ELSE [votes EXCEPT ![a][v] = kind]
           /\ said' = [said EXCEPT ![a][v] = kind]
    /\ areq' = [areq EXCEPT ![r] = Idle]
    /\ UNCHANGED <<articles, folders, tags>>

-----------------------------------------------------------------------------
Init ==
    /\ articles = Kept.articles /\ folders = Kept.folders /\ tags = Kept.tags
    /\ votes = Kept.votes /\ said = Kept.votes
    /\ areq = [r \in Request |-> Idle]

StartArticle(r) == CreateArticle(r) \/ OpenEditor(r) \/ DeleteArticle(r) \/ LoadForStatus(r)
StartTag(r)     == CreateTag(r) \/ LoadTag(r) \/ DeleteTag(r)
StartFolder(r)  == CheckFolder(r) \/ CheckFolderOrder(r)
Start(r)        == StartArticle(r) \/ StartTag(r) \/ StartFolder(r) \/ FindPublished(r)

Continue(r) ==
    \/ UpdateArticle(r) \/ SaveStatus(r) \/ SaveTag(r) \/ InsertFolder(r) \/ SaveFolderOrder(r)
    \/ LockVote(r) \/ CommitVote(r) \/ Abort(r)

Row == [slug : Slug, folder : Folder, tags : SUBSET Tag,
        status : Status, date : 0..MaxCalls \cup {None}]

\* Every reference of an article is to a stored row, its foreign keys see to that.
TypeOK ==
    /\ articles \in [Article -> Row \cup {None}]
    /\ \A a \in Stored : articles[a].folder \in Present(folders) /\ articles[a].tags \subseteq Present(tags)
    /\ folders \in [Folder -> 1..Cardinality(Folder) \cup {None}]
    /\ tags \in [Tag -> TagSlug \cup {None}]
    /\ votes \in [Article -> [Voter -> Reaction \cup {None}]]
    /\ \A r \in Request : areq[r].at \in
          {"idle", "edited", "status", "tag", "folder", "order", "vote", "react", "committed"}

\* A public article has the date it is listed by, whichever requests drafted, published
\* and edited it at the same time.
PublishedHasDate == \A a \in Public : articles[a].date # None

\* What is stored of a voter is what the last of his requests that succeeded asked for.
LastVoteStands == votes = said
=============================================================================
