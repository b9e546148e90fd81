--------------------------------- MODULE Site ---------------------------------
(***************************************************************************)
(* The public site: the content of one domain, the articles or the          *)
(* competency matrix, behind the response cache.                            *)
(*                                                                         *)
(* The handler of a request that changes the content adds an action to run  *)
(* after the commit: it deletes the domain's cached responses and enqueues  *)
(* a warm task.  Between the two, and between the reads of a response and    *)
(* its store, everything else may happen.                                   *)
(***************************************************************************)
EXTENDS Naturals, FiniteSets

CONSTANTS
    Article, ArticleSlug, Tag, TagSlug, Folder, Voter,                  \* of Articles
    Item, ItemSlug, Question, Sheet, Section, Subsection, DailyLimit,   \* of Matrix
    Filler, MaxFaults,                                                  \* of ResponseCache
    None,
    MaxCalls,                  \* bound on the requests that change content or enqueue a warm task
    KeptArticles, KeptMatrix,  \* the content at the start
    Address                    \* the cached addresses

VARIABLES
    articles, folders, tags, votes, said, areq,
    nodes, items, queue, quota, accepted, ending, mreq,
    entry, hand, op, task, asking, faults,
    calls,
    domain,   \* the one whose content changes; domains share only what a lost worker loses
    address   \* the cached address looked at, chosen with the first response for it

A == INSTANCE Articles WITH Slug <- ArticleSlug, Kept <- KeptArticles
M == INSTANCE Matrix WITH Slug <- ItemSlug, Kept <- KeptMatrix

ASSUME SiteAssumption ==
    /\ Folder \cup Sheet \cup Section \cup Subsection \subseteq Nat
    /\ IsFiniteSet(Folder) /\ IsFiniteSet(Sheet \cup Section \cup Subsection)
    /\ Sheet \cap Section = {} /\ Section \cap Subsection = {} /\ Subsection \cap Sheet = {}
    /\ {DailyLimit, MaxFaults, MaxCalls} \subseteq Nat /\ Question # {}
    /\ None \notin Nat \cup TagSlug \cup A!Row \cup A!Reaction \cup M!Row \cup M!Place
    /\ \A addr \in Address :
          \/ addr.domain = "articles" /\ addr.kind \in {"article", "list", "tagged", "tags", "tree"}
          \/ addr.domain = "matrix" /\ addr.kind \in {"sheets", "items", "item"}

\* The tables are kept as the operations leave them: references are to stored rows, what is
\* published has its date, and priorities are given out from 1.
ASSUME KeptArticlesAssumption ==
    LET kept == KeptArticles
        present(table) == {x \in DOMAIN table : table[x] # None}
    IN  /\ kept.articles \in [Article -> A!Row \cup {None}]
        /\ \A a \in present(kept.articles) :
              /\ kept.articles[a].folder \in present(kept.folders)
              /\ kept.articles[a].tags \subseteq present(kept.tags)
              /\ kept.articles[a].status = "Published" => kept.articles[a].date # None
        /\ kept.folders \in [Folder -> 1..Cardinality(present(kept.folders)) \cup {None}]
        /\ present(kept.folders) # {}
        /\ kept.tags \in [Tag -> TagSlug \cup {None}]
        /\ kept.votes \in [Article -> [Voter -> A!Reaction \cup {None}]]

ASSUME KeptMatrixAssumption ==
    LET kept == KeptMatrix
        present == {n \in M!Node : kept.nodes[n] # None}
    IN  /\ kept.nodes \in [M!Node -> M!Place \cup {None}]
        /\ \A n \in present :
              /\ kept.nodes[n].priority <= Cardinality(present)
              /\ n \in Section => kept.nodes[n].parent \in Sheet \cap present
              /\ n \in Subsection => kept.nodes[n].parent \in Section \cap present
        /\ Subsection \cap present # {}
        /\ kept.items \in [Item -> M!Row \cup {None}]
        /\ \A i \in Item : kept.items[i] # None =>
              /\ kept.items[i].sub \in present
              /\ kept.items[i].status = "Published" => kept.items[i].date # None
        /\ kept.queue \in [M!Queued -> Nat]

articleRows == <<articles, folders, tags, votes, said, areq>>
matrixRows  == <<nodes, items, queue, quota, accepted, ending, mreq>>

Request == 1..MaxCalls

View(addr) ==
    CASE addr = None -> None
      [] addr # None /\ domain = "articles" -> A!View(addr)
      [] addr # None /\ domain = "matrix"   -> M!View(addr)

Pending == \E r \in Request : areq[r].at = "committed" \/ mreq[r].at = "committed"

C == INSTANCE ResponseCache WITH view <- View(address), pending <- Pending

\* The same, looked at from another address.
CacheAt(addr) ==
    INSTANCE ResponseCache WITH address <- addr, view <- View(addr), pending <- Pending

cacheVars == <<entry, hand, op, task, asking, faults>>
vars == <<articleRows, matrixRows, cacheVars, calls, domain, address>>

-----------------------------------------------------------------------------
OnArticles == domain = "articles" /\ UNCHANGED <<matrixRows, cacheVars, domain, address>>
OnMatrix   == domain = "matrix" /\ UNCHANGED <<articleRows, cacheVars, domain, address>>

StartRequest(r)    == (OnArticles /\ A!Start(r)) \/ (OnMatrix /\ M!Start(r))
ContinueRequest(r) == (OnArticles /\ A!Continue(r)) \/ (OnMatrix /\ M!Continue(r))
EndDay == OnMatrix /\ M!LastSecond

\* The request ends with the action after its commit, done or not.
End(r) ==
    \/ /\ areq[r].at = "committed" /\ areq' = [areq EXCEPT ![r] = A!Idle]
       /\ UNCHANGED mreq
    \/ /\ mreq[r].at = "committed" /\ mreq' = [mreq EXCEPT ![r] = M!Idle]
       /\ UNCHANGED areq

RowsKept == UNCHANGED <<articles, folders, tags, votes, said,
                        nodes, items, queue, quota, accepted, ending>>

AfterCommit(r) ==
    /\ End(r) /\ (C!Invalidate \/ C!Miss)
    /\ RowsKept /\ UNCHANGED <<calls, domain, address>>

\* The first response or task decides which address of the domain is looked at.
Watched == IF address = None THEN {addr \in Address : addr.domain = domain} ELSE {address}
ContentKept == UNCHANGED <<articleRows, matrixRows, domain>>

Compute(f) ==
    /\ ContentKept /\ UNCHANGED calls
    /\ \E addr \in Watched :
         address' = addr /\ (CacheAt(addr)!Read(f) \/ CacheAt(addr)!StartWarm(f))

RunWarm(f) ==
    /\ ContentKept /\ UNCHANGED calls
    /\ \E addr \in Watched : address' = addr /\ CacheAt(addr)!RunManualWarm(f)

EnqueueWarm ==
    /\ ContentKept /\ UNCHANGED address
    /\ calls < MaxCalls /\ calls' = calls + 1
    /\ C!EnqueueManualWarm

OnCache == ContentKept /\ UNCHANGED <<calls, address>>
ContinueFill(f) == OnCache /\ C!Continue(f)
StopWorker(f)   == OnCache /\ C!StopWorker(f)
NotFound(f)     == OnCache /\ C!OperationNotFound(f)
Expire          == OnCache /\ C!Expire
ExpireOperation == OnCache /\ C!ExpireOperation
Clear           == OnCache /\ C!Clear
AnswerEnqueue   == OnCache /\ (C!FailToEnqueue \/ C!EndEnqueue)

Init ==
    /\ domain \in {"articles", "matrix"} /\ address = None
    /\ A!Init /\ M!Init /\ C!Init
    /\ calls = 0

Next ==
    \/ \E r \in Request : StartRequest(r) \/ ContinueRequest(r) \/ AfterCommit(r)
    \/ EndDay
    \/ \E f \in Filler : Compute(f) \/ RunWarm(f) \/ ContinueFill(f) \/ StopWorker(f) \/ NotFound(f)
    \/ EnqueueWarm \/ AnswerEnqueue \/ Expire \/ ExpireOperation \/ Clear

\* Valkey expires keys.  Nothing else has to happen: a request or a task may stop at any point.
Fairness == WF_vars(Expire) /\ WF_vars(ExpireOperation)

Spec == Init /\ [][Next]_vars /\ Fairness

-----------------------------------------------------------------------------
(* What the parts promise, of the whole.                                    *)

\* The variables of the three parts keep their types.
TypeOK == A!TypeOK /\ M!TypeOK /\ C!TypeOK

\* ResponseCache: what the cache serves differs from the content only for a reason.
StaleHasReason == C!StaleHasReason

\* ResponseCache: it does not differ for ever.
EventuallyFresh == C!EventuallyFresh

\* ResponseCache: the record of a manual warm does not say for ever that it runs.
WarmOperationEnds == C!WarmOperationEnds

\* Articles and Matrix: what is published has a date.
PublishedHasDate == A!PublishedHasDate /\ M!PublishedHasDate

\* Articles: reactions are the last ones set.
LastVoteStands == A!LastVoteStands

\* set-published checks a question and publishes it in two statements, and an edit in between
\* can take away what was checked: even so no cached answer shows a question that is not ready.
PublicShowsReady ==
    domain = "matrix" /\ entry # None => \A q \in M!QuestionsIn(address, entry.answer) : q.ready

\* Matrix: the daily limit holds.
SuggestionsWithinLimit == M!SuggestionsWithinLimit
=============================================================================
