---------------------------- MODULE Site_proofs ----------------------------
(***************************************************************************)
(* The public site, for any number of articles, questions, requests,       *)
(* responses and addresses.  First the content: what the tables say, and   *)
(* what a request knows of the rows it has read; then what the cache       *)
(* serves, and the promises of the whole.                                  *)
(***************************************************************************)
EXTENDS Site, Numbers_proofs, FiniteSetTheorems

-----------------------------------------------------------------------------
(* The invariant of the articles.                                           *)

\* What an editor's form, a change of status, a tag, a folder, an order and a reaction
\* that is under way know.  Rows they have read may have changed since.
EditFits(q) ==
    q.on \in ArticleSlug /\ q.to \in A!Row /\ q.to.folder \in A!Present(folders)

StatusFits(q) ==
    /\ q.on \in Article /\ q.to \in A!Status /\ q.seen \in A!Row
    /\ q.seen.status = "Published" => q.seen.date # None
    /\ articles[q.on] # None /\ q.seen.date # None => articles[q.on].date # None

TagFits(q) == q.on \in Tag /\ q.to \in TagSlug

FolderFits(q) == q.on \in Folder /\ q.to \in 1..(Cardinality(A!Present(folders)) + 1)

FolderOrderFits(q) ==
    \E n \in 0..Cardinality(A!Present(folders)) : q.to \in [1..n -> A!Present(folders)]

VoteFits(q) ==
    q.on \in Article /\ q.to.voter \in Voter /\ q.to.kind \in A!Reaction \cup {None}

ReactFits(q) ==
    /\ q.seen \in A!Reaction \cup {None}
    /\ q.seen # None \/ q.to.kind # None
    /\ q.seen # None => votes[q.on][q.to.voter] = q.seen

AFits(q) ==
    /\ q.at \in {"idle", "edited", "status", "tag", "folder", "order", "vote", "react", "committed"}
    /\ q.at = "edited" => EditFits(q)
    /\ q.at = "status" => StatusFits(q)
    /\ q.at = "tag"    => TagFits(q)
    /\ q.at = "folder" => FolderFits(q)
    /\ q.at = "order"  => FolderOrderFits(q)
    /\ q.at = "vote"   => VoteFits(q)
    /\ q.at = "react"  => VoteFits(q) /\ ReactFits(q)

ARequests == DOMAIN areq = Request /\ \A r \in Request : AFits(areq[r])

\* A stored reaction that is being changed is held by one request.
VotesHeld ==
    \A q, r \in Request :
       /\ areq[q].at = "react" /\ areq[q].seen # None
       /\ areq[r].at = "react" /\ areq[r].seen # None
       /\ areq[q].on = areq[r].on /\ areq[q].to.voter = areq[r].to.voter
       => q = r

ARows ==
    /\ articles \in [Article -> A!Row \cup {None}]
    /\ \A a \in A!Stored : /\ articles[a].folder \in A!Present(folders)
                           /\ articles[a].tags \subseteq A!Present(tags)
    /\ tags \in [Tag -> TagSlug \cup {None}]

FolderRows ==
    /\ folders \in [Folder -> 1..Cardinality(A!Present(folders)) \cup {None}]
    /\ A!Present(folders) # {}

VoteRows ==
    /\ votes \in [Article -> [Voter -> A!Reaction \cup {None}]]
    /\ votes = said

AInv == ARows /\ FolderRows /\ VoteRows /\ A!PublishedHasDate /\ ARequests /\ VotesHeld

\* What an edit, a change of status, a new node, an order and a suggestion that is under
\* way know.
FormFits(q) == q.on \in Item /\ q.to \in M!Row /\ q.to.sub \in M!Present

UpdateFits(q) ==
    /\ q.seen \in M!Row /\ q.to.date = q.seen.date
    /\ q.seen.status = "Published" => q.seen.date # None
    /\ items[q.on] # None /\ q.seen.date # None => items[q.on].date # None

NodeFits(q) ==
    /\ q.on \in M!Node /\ q.to \in M!Place
    /\ q.to.priority <= Cardinality(M!Present) + 1
    /\ q.on \in Section => q.to.parent \in Sheet \cap M!Present
    /\ q.on \in Subsection => q.to.parent \in Section \cap M!Present

OrderFits(q) == \E n \in 0..Cardinality(M!Present) : q.to \in [1..n -> M!Present]

MFits(q) ==
    /\ q.at \in {"idle", "edited", "update", "ready", "node", "order", "suggest", "insert", "committed"}
    /\ q.at = "edited" => FormFits(q)
    /\ q.at = "update" => FormFits(q) /\ UpdateFits(q)
    /\ q.at = "ready"  => q.on \in Item /\ q.to \in M!Status
    /\ q.at = "node"   => NodeFits(q)
    /\ q.at = "order"  => OrderFits(q)
    /\ q.at \in {"suggest", "insert"} => q.to \in M!Queued

MRequests == DOMAIN mreq = Request /\ \A r \in Request : MFits(mreq[r])

NodeRows ==
    /\ nodes \in [M!Node -> M!Place \cup {None}]
    /\ \A n \in M!Present :
          /\ nodes[n].priority <= Cardinality(M!Present)
          /\ n \in Section => nodes[n].parent \in Sheet \cap M!Present
          /\ n \in Subsection => nodes[n].parent \in Section \cap M!Present
    /\ Subsection \cap M!Present # {}

ItemRows ==
    /\ items \in [Item -> M!Row \cup {None}]
    /\ \A i \in M!Stored : items[i].sub \in M!Present

QueueRows == queue \in [M!Queued -> Nat]

\* The counter counts what is accepted, until the last second begins.
QuotaOK ==
    /\ quota \in Nat /\ accepted \in Nat /\ ending \in BOOLEAN
    /\ ending \/ (accepted <= quota /\ accepted <= DailyLimit)

MInv == NodeRows /\ ItemRows /\ QueueRows /\ QuotaOK /\ M!PublishedHasDate /\ MRequests

-----------------------------------------------------------------------------
(* Requests about articles.                                                 *)

\* A request that is over, or waits for the action after its commit, knows nothing.
LEMMA AnswerFits == AFits(A!Idle) /\ AFits([A!Idle EXCEPT !.at = "committed"])
BY DEF AFits, A!Idle

\* What a step leaves to the requests under way: the folders they have read, a date where
\* a change of status has seen one, and the reactions they hold.
FoldersStay ==
    /\ A!Present(folders) \subseteq A!Present(folders)'
    /\ Cardinality(A!Present(folders)) \in Nat /\ Cardinality(A!Present(folders)') \in Nat
    /\ Cardinality(A!Present(folders)) <= Cardinality(A!Present(folders)')

DateStays(q) ==
    q.at = "status" /\ articles'[q.on] # None =>
       articles[q.on] # None /\ (articles[q.on].date # None => articles'[q.on].date # None)

VoteStays(q) ==
    q.at = "react" /\ q.seen # None => votes'[q.on][q.to.voter] = votes[q.on][q.to.voter]

\* What a request knows then stays true.
LEMMA FitsKept ==
    ASSUME NEW q, AFits(q), FoldersStay, DateStays(q), VoteStays(q)
    PROVE  AFits(q)'
<1> USE DEF FoldersStay, DateStays, VoteStays
<1>1. EditFits(q) => EditFits(q)'
  BY DEF EditFits
<1>2. q.at = "status" /\ StatusFits(q) => StatusFits(q)'
  BY DEF StatusFits
<1>3. FolderFits(q) => FolderFits(q)'
  BY DEF FolderFits
<1>4. FolderOrderFits(q) => FolderOrderFits(q)'
  BY DEF FolderOrderFits
<1>5. q.at = "react" /\ ReactFits(q) => ReactFits(q)'
  BY DEF ReactFits
<1> QED BY <1>1, <1>2, <1>3, <1>4, <1>5 DEF AFits, TagFits, VoteFits

\* One request changes into q; what the others know stays true.
LEMMA ARequestsStep ==
    ASSUME ARequests, NEW r \in Request, NEW q, areq' = [areq EXCEPT ![r] = q], AFits(q)',
           FoldersStay, \A p \in Request \ {r} : DateStays(areq[p]) /\ VoteStays(areq[p])
    PROVE  ARequests'
<1>1. ASSUME NEW p \in Request \ {r}, NEW x, x = areq[p] PROVE AFits(x)'
  BY <1>1, FitsKept DEF ARequests
<1>2. \A p \in Request : areq'[p] = IF p = r THEN q ELSE areq[p]
  BY DEF ARequests
<1>3. ASSUME NEW p \in Request, NEW x, x = areq'[p] PROVE AFits(x)'
  BY <1>1, <1>2, <1>3
<1>4. \A p \in Request : AFits(areq[p])'
  <2> SUFFICES ASSUME NEW p \in Request PROVE AFits(areq[p])'
    OBVIOUS
  <2>1. PICK x : x = areq'[p]
    OBVIOUS
  <2>2. AFits(x)'
    BY <2>1, <1>3
  <2> QED BY <2>1, <2>2
<1>5. (DOMAIN areq = Request)'
  BY DEF ARequests
<1> QED BY <1>4, <1>5 DEF ARequests

\* Articles counts as this module does.
LEMMA SameCount == \A S : A!Cardinality(S) = Cardinality(S)
BY DEF A!Cardinality, Cardinality

\* The folders are counted.
LEMMA FolderCount ==
    ASSUME FolderRows
    PROVE  IsFiniteSet(A!Present(folders)) /\ Cardinality(A!Present(folders)) \in Nat
<1>1. A!Present(folders) \subseteq Folder
  BY DEF FolderRows, A!Present
<1> QED BY <1>1, SiteAssumption, FS_Subset, FS_CardinalityType

LEMMA FoldersKept == FolderRows /\ UNCHANGED folders => FoldersStay
BY FolderCount DEF FoldersStay, A!Present

\* A request that reads, or ends without a change.
LEMMA AReads ==
    ASSUME AInv, NEW r \in Request, NEW q, AFits(q), areq' = [areq EXCEPT ![r] = q],
           UNCHANGED <<articles, folders, tags, votes, said>>,
           q.at = "react" /\ q.seen # None =>
              \A p \in Request \ {r} : ~ (/\ areq[p].at = "react" /\ areq[p].seen # None
                                          /\ areq[p].on = q.on /\ areq[p].to.voter = q.to.voter)
    PROVE  AInv'
<1> USE DEF AInv
<1>1. A!Present(folders)' = A!Present(folders) /\ A!Present(tags)' = A!Present(tags)
  BY DEF A!Present
<1>2a. FoldersStay
  BY FoldersKept
<1>2b. \A p : DateStays(p) /\ VoteStays(p)
  BY DEF DateStays, VoteStays
<1>2. AFits(q)'
  BY <1>2a, <1>2b, FitsKept
<1>3. ARequests'
  BY <1>2, <1>2a, <1>2b, ARequestsStep
<1>4. ARows'
  BY <1>1 DEF ARows, A!Stored
<1>5. FolderRows' /\ VoteRows'
  BY <1>1 DEF FolderRows, VoteRows
<1>6. A!PublishedHasDate'
  BY DEF A!PublishedHasDate, A!Public, A!IsAvailable
<1>7. VotesHeld'
  <2>1. \A p \in Request : areq'[p] = IF p = r THEN q ELSE areq[p]
    BY DEF ARequests
  <2> QED BY <2>1 DEF VotesHeld
<1> QED BY <1>3, <1>4, <1>5, <1>6, <1>7

\* A committed change of articles or tags, which leaves dates where requests have seen one.
LEMMA AChanges ==
    ASSUME AInv, NEW r \in Request,
           areq' = [areq EXCEPT ![r] = [A!Idle EXCEPT !.at = "committed"]],
           UNCHANGED folders, ARows', VoteRows', A!PublishedHasDate',
           \A p \in Request \ {r} : DateStays(areq[p]) /\ VoteStays(areq[p])
    PROVE  AInv'
<1> USE DEF AInv
<1> DEFINE q == [A!Idle EXCEPT !.at = "committed"]
<1>1. A!Present(folders)' = A!Present(folders)
  BY DEF A!Present
<1>2. AFits(q)' /\ q.at = "committed"
  BY DEF AFits, A!Idle
<1>3. areq' = [areq EXCEPT ![r] = q]
  OBVIOUS
<1> HIDE DEF q
<1>4. ARequests'
  BY <1>2, <1>3, FoldersKept, ARequestsStep
<1>5. VotesHeld'
  <2>1. \A p \in Request : areq'[p] = IF p = r THEN q ELSE areq[p]
    BY <1>3 DEF ARequests
  <2> QED BY <1>2, <2>1 DEF VotesHeld
<1>6. FolderRows'
  BY <1>1 DEF FolderRows
<1> QED BY <1>4, <1>5, <1>6

\* A committed change of the folders, none of which goes away.
LEMMA AFolders ==
    ASSUME AInv, NEW r \in Request,
           areq' = [areq EXCEPT ![r] = [A!Idle EXCEPT !.at = "committed"]],
           UNCHANGED <<articles, tags, votes, said>>, FolderRows',
           A!Present(folders) \subseteq A!Present(folders)'
    PROVE  AInv'
<1> USE DEF AInv
<1> DEFINE q == [A!Idle EXCEPT !.at = "committed"]
<1>1. A!Present(tags)' = A!Present(tags)
  BY DEF A!Present
<1>2. AFits(q)' /\ q.at = "committed"
  BY DEF AFits, A!Idle
<1>3. areq' = [areq EXCEPT ![r] = q]
  OBVIOUS
<1> HIDE DEF q
<1>4. FoldersStay
  <2>1. A!Present(folders)' \subseteq Folder
    BY DEF FolderRows, A!Present
  <2>2. IsFiniteSet(A!Present(folders)')
    BY <2>1, SiteAssumption, FS_Subset
  <2> QED BY <2>2, FolderCount, FS_Subset, FS_CardinalityType DEF FoldersStay
<1>4a. \A p : DateStays(p) /\ VoteStays(p)
  BY DEF DateStays, VoteStays
<1>5. ARequests'
  BY <1>2, <1>3, <1>4, <1>4a, ARequestsStep
<1>6. VotesHeld'
  <2>1. \A p \in Request : areq'[p] = IF p = r THEN q ELSE areq[p]
    BY <1>3 DEF ARequests
  <2> QED BY <1>2, <2>1 DEF VotesHeld
<1>7. ARows'
  BY <1>1 DEF ARows, A!Stored
<1>8. VoteRows' /\ A!PublishedHasDate'
  BY DEF VoteRows, A!PublishedHasDate, A!Public, A!IsAvailable
<1> QED BY <1>5, <1>6, <1>7, <1>8
\* The reads and the ends of Articles.
LEMMA OpenEditorInv ==
    ASSUME AInv, NEW r \in Request, A!OpenEditor(r)
    PROVE  AInv'
<1>1. PICK a \in A!Stored : \E form \in A!Edits(articles[a]) :
         A!Holds(r, "edited", articles[a].slug, form, None)
  BY DEF A!OpenEditor
<1>2. PICK form \in A!Edits(articles[a]) : A!Holds(r, "edited", articles[a].slug, form, None)
  BY <1>1
<1>3. articles[a] \in A!Row /\ articles[a].folder \in A!Present(folders)
  BY DEF AInv, ARows, A!Stored
<1>4. A!Present(folders) \subseteq Folder /\ A!Present(tags) \subseteq Tag
  BY DEF AInv, ARows, FolderRows, A!Present
<1>5. form \in A!Row /\ form.folder \in A!Present(folders)
  BY <1>2, <1>3, <1>4 DEF A!Edits, A!Row, A!Status
<1>6. PICK q : q = [at |-> "edited", on |-> articles[a].slug, to |-> form, seen |-> None]
  OBVIOUS
<1>7. areq' = [areq EXCEPT ![r] = q]
  BY <1>2, <1>6 DEF A!Holds
<1>8. articles[a].slug \in ArticleSlug
  BY <1>3 DEF A!Row
<1>9. q.at = "edited" /\ q.on \in ArticleSlug /\ q.to = form
  BY <1>6, <1>8
<1>10. AFits(q)
  BY <1>5, <1>9 DEF AFits, EditFits
<1> QED BY <1>7, <1>9, <1>10, AReads DEF A!OpenEditor

LEMMA LoadForStatusInv ==
    ASSUME AInv, NEW r \in Request, A!LoadForStatus(r)
    PROVE  AInv'
<1>1. PICK a \in A!Stored, status \in A!Status : A!Holds(r, "status", a, status, articles[a])
  BY DEF A!LoadForStatus
<1>2. PICK q : q = [at |-> "status", on |-> a, to |-> status, seen |-> articles[a]]
  OBVIOUS
<1>3. areq' = [areq EXCEPT ![r] = q]
  BY <1>1, <1>2 DEF A!Holds
<1>4. q.at = "status" /\ q.on = a /\ q.to = status /\ q.seen = articles[a]
  BY <1>2
<1>5. a \in Article /\ articles[a] \in A!Row /\ articles[a] # None
  BY DEF AInv, ARows, A!Stored
<1>6. articles[a].status = "Published" => articles[a].date # None
  BY <1>5 DEF AInv, A!PublishedHasDate, A!Public, A!IsAvailable
<1>7. AFits(q)
  BY <1>4, <1>5, <1>6 DEF AFits, StatusFits
<1> QED BY <1>3, <1>4, <1>7, AReads DEF A!LoadForStatus

LEMMA LoadTagInv ==
    ASSUME AInv, NEW r \in Request, A!LoadTag(r)
    PROVE  AInv'
<1>1. PICK t \in A!Present(tags), slug \in TagSlug : A!Holds(r, "tag", t, slug, tags[t])
  BY DEF A!LoadTag
<1>2. PICK q : q = [at |-> "tag", on |-> t, to |-> slug, seen |-> tags[t]]
  OBVIOUS
<1>3. areq' = [areq EXCEPT ![r] = q]
  BY <1>1, <1>2 DEF A!Holds
<1>4. t \in Tag
  BY DEF AInv, ARows, A!Present
<1>5. q.at = "tag" /\ q.on \in Tag /\ q.to \in TagSlug
  BY <1>2, <1>4
<1>6. AFits(q)
  BY <1>5 DEF AFits, TagFits
<1> QED BY <1>3, <1>5, <1>6, AReads DEF A!LoadTag

\* The next priority of a folder is at most one more than there are folders.
LEMMA NextPriorityBound ==
    ASSUME AInv
    PROVE  A!NextPriority \in 1..(Cardinality(A!Present(folders)) + 1)
<1> DEFINE given == {0} \cup {folders[f] : f \in A!Present(folders)}
           n == Cardinality(A!Present(folders))
<1>1. n \in Nat
  BY FolderCount DEF AInv
<1>2. given \in SUBSET (0..n) /\ given # {}
  BY <1>1 DEF AInv, FolderRows, A!Present
<1>3. A!Max(given) \in given
  <2> HIDE DEF given, n
  <2>1. PICK x \in given : \A y \in given : x >= y
    BY <1>1, <1>2, GreatestNumber
  <2> QED BY <2>1 DEF A!Max
<1>4. A!NextPriority = A!Max(given) + 1
  BY DEF A!NextPriority
<1> HIDE DEF given, n
<1>5. A!Max(given) \in 0..n
  BY <1>2, <1>3
<1>6. A!NextPriority \in 1..(n + 1)
  BY <1>1, <1>4, <1>5
<1> QED BY <1>6 DEF n

LEMMA CheckFolderInv ==
    ASSUME AInv, NEW r \in Request, A!CheckFolder(r)
    PROVE  AInv'
<1>1. PICK f \in Folder : A!Holds(r, "folder", f, A!NextPriority, None)
  BY DEF A!CheckFolder
<1>2. PICK q : q = [at |-> "folder", on |-> f, to |-> A!NextPriority, seen |-> None]
  OBVIOUS
<1>3. areq' = [areq EXCEPT ![r] = q]
  BY <1>1, <1>2 DEF A!Holds
<1>4. q.at = "folder" /\ q.on \in Folder /\ q.to = A!NextPriority
  BY <1>2
<1>5. AFits(q)
  BY <1>4, NextPriorityBound DEF AFits, FolderFits
<1> QED BY <1>3, <1>4, <1>5, AReads DEF A!CheckFolder

LEMMA CheckFolderOrderInv ==
    ASSUME AInv, NEW r \in Request, A!CheckFolderOrder(r)
    PROVE  AInv'
<1>1. PICK order \in A!SetToSeqs(A!Present(folders)) : A!Holds(r, "order", None, order, None)
  BY DEF A!CheckFolderOrder
<1>2. PICK q : q = [at |-> "order", on |-> None, to |-> order, seen |-> None]
  OBVIOUS
<1>3. areq' = [areq EXCEPT ![r] = q]
  BY <1>1, <1>2 DEF A!Holds
<1>4. q.at = "order" /\ q.to = order
  BY <1>2
<1>5. order \in [1..Cardinality(A!Present(folders)) -> A!Present(folders)]
  BY SameCount DEF A!SetToSeqs
<1>6. Cardinality(A!Present(folders)) \in 0..Cardinality(A!Present(folders))
  BY FolderCount DEF AInv
<1>7. AFits(q)
  BY <1>4, <1>5, <1>6 DEF AFits, FolderOrderFits
<1> QED BY <1>3, <1>4, <1>7, AReads DEF A!CheckFolderOrder

LEMMA FindPublishedInv ==
    ASSUME AInv, NEW r \in Request, A!FindPublished(r)
    PROVE  AInv'
<1>1. PICK a \in A!Public, v \in Voter, kind \in A!Reaction \cup {None} :
         A!Holds(r, "vote", a, [voter |-> v, kind |-> kind], None)
  BY DEF A!FindPublished
<1>2. PICK q : q = [at |-> "vote", on |-> a, to |-> [voter |-> v, kind |-> kind], seen |-> None]
  OBVIOUS
<1>3. areq' = [areq EXCEPT ![r] = q]
  BY <1>1, <1>2 DEF A!Holds
<1>4. q.at = "vote" /\ q.on \in Article /\ q.to.voter \in Voter /\ q.to.kind \in A!Reaction \cup {None}
  BY <1>2 DEF A!Public
<1>5. AFits(q)
  BY <1>4 DEF AFits, VoteFits
<1> QED BY <1>3, <1>4, <1>5, AReads DEF A!FindPublished

\* Who finds a reaction holds it; who finds none to clear is done.
LEMMA LockVoteInv ==
    ASSUME AInv, NEW r \in Request, A!LockVote(r)
    PROVE  AInv'
<1> DEFINE a == areq[r].on  v == areq[r].to.voter  kind == areq[r].to.kind
<1>1. AFits(areq[r]) /\ areq[r].at = "vote"
  BY DEF AInv, ARequests, A!LockVote, A!Step
<1>2. a \in Article /\ v \in Voter /\ kind \in A!Reaction \cup {None}
  BY <1>1 DEF AFits, VoteFits
<1>3. CASE kind = None /\ votes[a][v] = None
  <2>1. areq' = [areq EXCEPT ![r] = A!Idle] /\ said' = [said EXCEPT ![a][v] = None]
    BY <1>3 DEF A!LockVote
  <2>2. said' = said
    BY <1>2, <1>3, <2>1 DEF AInv, VoteRows
  <2>3. AFits(A!Idle) /\ A!Idle.at = "idle"
    BY AnswerFits DEF A!Idle
  <2> QED BY <2>1, <2>2, <2>3, AReads DEF A!LockVote
<1>4. CASE ~ (kind = None /\ votes[a][v] = None)
  <2>1. A!Holds(r, "react", a, areq[r].to, votes[a][v]) /\ UNCHANGED said
    BY <1>4 DEF A!LockVote
  <2>2. PICK q : q = [at |-> "react", on |-> a, to |-> areq[r].to, seen |-> votes[a][v]]
    OBVIOUS
  <2>3. areq' = [areq EXCEPT ![r] = q]
    BY <2>1, <2>2 DEF A!Holds
  <2>4. q.at = "react" /\ q.on = a /\ q.to = areq[r].to /\ q.seen = votes[a][v]
    BY <2>2
  <2>5. votes[a][v] \in A!Reaction \cup {None}
    BY <1>2 DEF AInv, VoteRows
  <2>6. AFits(q)
    BY <1>2, <1>4, <2>4, <2>5 DEF AFits, VoteFits, ReactFits
  <2>7. votes[a][v] # None => A!VoteFree(r)
    BY DEF A!LockVote
  <2>8. q.seen # None => \A p \in Request \ {r} : ~ (/\ areq[p].at = "react" /\ areq[p].seen # None
                                          /\ areq[p].on = q.on /\ areq[p].to.voter = q.to.voter)
    BY <2>4, <2>7 DEF A!VoteFree, Request, A!Request
  <2> QED BY <2>1, <2>3, <2>6, <2>8, AReads DEF A!LockVote
<1> QED BY <1>3, <1>4

LEMMA AIdleInv ==
    ASSUME AInv, NEW r \in Request, areq' = [areq EXCEPT ![r] = A!Idle],
           UNCHANGED <<articles, folders, tags, votes, said>>
    PROVE  AInv'
<1>1. AFits(A!Idle) /\ A!Idle.at = "idle"
  BY AnswerFits DEF A!Idle
<1> QED BY <1>1, AReads

-----------------------------------------------------------------------------
(* The changes of Articles.                                                 *)

\* What a changed row must be.
LEMMA RowChanged ==
    ASSUME AInv, NEW a \in Article, NEW row, row # None, row \in A!Row,
           row.folder \in A!Present(folders), row.tags \subseteq A!Present(tags),
           row.status = "Published" => row.date # None,
           articles' = [articles EXCEPT ![a] = row], UNCHANGED <<folders, tags>>
    PROVE  ARows' /\ A!PublishedHasDate'
<1> USE DEF AInv
<1>1. \A b \in Article : articles'[b] = IF b = a THEN row ELSE articles[b]
  BY DEF ARows
<1>2. articles' \in [Article -> A!Row \cup {None}]
  BY DEF ARows
<1>3. ASSUME NEW b \in A!Stored'
      PROVE  articles'[b].folder \in A!Present(folders) /\ articles'[b].tags \subseteq A!Present(tags)
  BY <1>1, <1>3 DEF ARows, A!Stored
<1>4. A!PublishedHasDate'
  BY <1>1 DEF A!PublishedHasDate, A!Public, A!IsAvailable
<1>5. A!Present(folders)' = A!Present(folders) /\ A!Present(tags)' = A!Present(tags)
  BY DEF A!Present
<1> QED BY <1>2, <1>3, <1>4, <1>5 DEF ARows

LEMMA CreateArticleInv ==
    ASSUME AInv, NEW r \in Request, A!CreateArticle(r)
    PROVE  AInv'
<1>1. PICK a \in Article \ A!Stored, slug \in ArticleSlug, status \in A!Status :
         /\ A!Unknown(a)
         /\ articles' = [articles EXCEPT ![a] = A!NewArticle(slug, status, r)]
  BY DEF A!CreateArticle
<1>2. PICK row : row = A!NewArticle(slug, status, r)
  OBVIOUS
<1>3. r \in 0..MaxCalls /\ r # None
  BY SiteAssumption DEF Request
<1>4. row.folder \in A!Present(folders)
  <2>1. A!Present(folders) \subseteq Nat /\ A!Present(folders) # {}
    BY SiteAssumption DEF AInv, FolderRows, A!Present
  <2>2. \E f \in A!Present(folders) : \A g \in A!Present(folders) : f <= g
    BY <2>1, LeastNumber
  <2>3. row.folder = CHOOSE f \in A!Present(folders) : \A g \in A!Present(folders) : f <= g
    BY <1>2 DEF A!NewArticle
  <2> QED BY <2>2, <2>3
<1>5. A!Present(folders) \subseteq Folder /\ A!Present(tags) \subseteq Tag
  BY DEF AInv, ARows, FolderRows, A!Present
<1>6. row.tags = A!Present(tags) /\ row.status = status /\ (status = "Published" => row.date = r)
  BY <1>2 DEF A!NewArticle
<1>7. row \in A!Row
  BY <1>2, <1>3, <1>4, <1>5 DEF A!NewArticle, A!Row, A!Status
<1>8. row # None
  BY <1>7, SiteAssumption
<1>9. ARows' /\ A!PublishedHasDate'
  BY <1>1, <1>2, <1>3, <1>4, <1>6, <1>7, <1>8, RowChanged DEF A!CreateArticle
<1>10. VoteRows'
  BY DEF AInv, VoteRows, A!CreateArticle
<1>11. ASSUME NEW p \in Request \ {r} PROVE DateStays(areq[p]) /\ VoteStays(areq[p])
  <2>1. areq[p].on # a
    BY <1>1 DEF A!Unknown, Request, A!Request
  <2>2. areq[p].at = "status" => areq[p].on \in Article
    BY DEF AInv, ARequests, AFits, StatusFits
  <2>3. areq[p].at = "status" => articles'[areq[p].on] = articles[areq[p].on]
    BY <1>1, <2>1, <2>2 DEF AInv, ARows
  <2> QED BY <2>3 DEF DateStays, VoteStays, A!CreateArticle
<1> QED BY <1>9, <1>10, <1>11, AChanges DEF A!CreateArticle, A!Once, A!Commit

LEMMA UpdateArticleInv ==
    ASSUME AInv, NEW r \in Request, A!UpdateArticle(r)
    PROVE  AInv'
<1> DEFINE form == areq[r].to
<1>1. PICK a \in A!Stored : A!Write(a, form, r)
  BY DEF A!UpdateArticle
<1>2. form \in A!Row /\ form.folder \in A!Present(folders)
  BY DEF AInv, ARequests, AFits, EditFits, A!UpdateArticle, A!Step
<1>3. PICK date : date = A!FirstDate(articles[a], form.status, r)
  OBVIOUS
<1>4. PICK row : row = [form EXCEPT !.date = date]
  OBVIOUS
<1>5. articles' = [articles EXCEPT ![a] = row] /\ form.tags \subseteq A!Present(tags)
  BY <1>1, <1>3, <1>4 DEF A!Write
<1>6. r \in 0..MaxCalls /\ r # None
  BY SiteAssumption DEF Request
<1>7. a \in Article /\ articles[a] \in A!Row
  BY DEF AInv, ARows, A!Stored
<1>8. /\ date \in 0..MaxCalls \cup {None} /\ (articles[a].date # None => date # None)
      /\ form.status = "Published" => date # None
  BY <1>3, <1>6, <1>7 DEF A!FirstDate, A!Row
<1> HIDE DEF form
<1>9. /\ row \in A!Row /\ row.folder = form.folder /\ row.tags = form.tags
      /\ row.status = form.status /\ row.date = date
  BY <1>2, <1>4, <1>8 DEF A!Row
<1>10. row # None
  BY <1>9, SiteAssumption
<1>11. ARows' /\ A!PublishedHasDate'
  BY <1>2, <1>5, <1>7, <1>8, <1>9, <1>10, RowChanged DEF A!UpdateArticle
<1>12. VoteRows'
  BY DEF AInv, VoteRows, A!UpdateArticle
<1>13. ASSUME NEW p \in Request \ {r} PROVE DateStays(areq[p]) /\ VoteStays(areq[p])
  <2>1. areq[p].at = "status" => areq[p].on \in Article
    BY DEF AInv, ARequests, AFits, StatusFits
  <2>2. areq[p].at = "status" => articles'[areq[p].on] = IF areq[p].on = a THEN row ELSE articles[areq[p].on]
    BY <1>5, <2>1 DEF AInv, ARows
  <2> QED BY <1>8, <1>9, <2>2 DEF DateStays, VoteStays, A!UpdateArticle, A!Stored
<1> QED BY <1>11, <1>12, <1>13, AChanges DEF A!UpdateArticle, A!Commit

LEMMA DeleteArticleInv ==
    ASSUME AInv, NEW r \in Request, A!DeleteArticle(r)
    PROVE  AInv'
<1> USE DEF AInv
<1>1. PICK a \in A!Stored :
         /\ \A q \in A!Request : areq[q].at = "react" => areq[q].on # a \/ areq[q].seen = None
         /\ articles' = [articles EXCEPT ![a] = None]
         /\ votes' = [votes EXCEPT ![a] = [v \in Voter |-> None]]
         /\ said' = [said EXCEPT ![a] = [v \in Voter |-> None]]
  BY DEF A!DeleteArticle
<1>2. \A b \in Article : articles'[b] = IF b = a THEN None ELSE articles[b]
  BY <1>1 DEF ARows
<1>3. A!Present(folders)' = A!Present(folders) /\ A!Present(tags)' = A!Present(tags)
  BY DEF A!Present, A!DeleteArticle
<1>4. ARows'
  BY <1>1, <1>2, <1>3 DEF ARows, A!Stored, A!DeleteArticle
<1>5. A!PublishedHasDate'
  BY <1>2 DEF A!PublishedHasDate, A!Public, A!IsAvailable
<1>6. VoteRows'
  BY <1>1 DEF VoteRows
<1>7. ASSUME NEW p \in Request \ {r} PROVE DateStays(areq[p]) /\ VoteStays(areq[p])
  <2>1. areq[p].at = "status" => areq[p].on \in Article
    BY DEF ARequests, AFits, StatusFits
  <2>2. areq[p].at = "react" => areq[p].on \in Article
    BY DEF ARequests, AFits, VoteFits
  <2>3. areq[p].at = "react" /\ areq[p].seen # None => areq[p].on # a
    BY <1>1 DEF Request, A!Request
  <2>4. VoteStays(areq[p])
    BY <1>1, <2>2, <2>3 DEF VoteStays, VoteRows
  <2> QED BY <1>2, <2>1, <2>4 DEF DateStays
<1> QED BY <1>4, <1>5, <1>6, <1>7, AChanges DEF A!DeleteArticle, A!Once, A!Commit

LEMMA SaveStatusInv ==
    ASSUME AInv, NEW r \in Request, A!SaveStatus(r), calls \in 0..MaxCalls
    PROVE  AInv'
<1> DEFINE a == areq[r].on  status == areq[r].to  seen == areq[r].seen
<1>1. PICK date : date = A!FirstDate(seen, status, calls)
  OBVIOUS
<1>2. /\ a \in Article /\ status \in A!Status /\ seen \in A!Row
      /\ seen.status = "Published" => seen.date # None
      /\ articles[a] # None /\ seen.date # None => articles[a].date # None
  BY DEF AInv, ARequests, AFits, StatusFits, A!SaveStatus, A!Step
<1>3. areq' = [areq EXCEPT ![r] = [A!Idle EXCEPT !.at = "committed"]]
  BY DEF A!SaveStatus, A!Commit
<1>4. UNCHANGED <<folders, tags, votes, said>>
  BY DEF A!SaveStatus
<1>5. VoteRows'
  BY <1>4 DEF AInv, VoteRows
<1>6. calls # None /\ None \notin Nat
  BY SiteAssumption
<1>7. /\ date \in 0..MaxCalls \cup {None} /\ (date # seen.date => date # None)
      /\ status = "Published" => date # None
  BY <1>1, <1>2, <1>6 DEF A!FirstDate, A!Row
<1>8. CASE status = seen.status /\ date = seen.date
  <2>1. UNCHANGED articles
    BY <1>1, <1>8 DEF A!SaveStatus
  <2>2. ARows' /\ A!PublishedHasDate'
    BY <1>4, <2>1 DEF AInv, ARows, A!Stored, A!Present, A!PublishedHasDate, A!Public, A!IsAvailable
  <2>3. \A p : DateStays(p) /\ VoteStays(p)
    BY <1>4, <2>1 DEF DateStays, VoteStays
  <2> QED BY <1>3, <1>4, <1>5, <2>2, <2>3, AChanges
<1>9. CASE ~ (status = seen.status /\ date = seen.date)
  <2>1. /\ a \in A!Stored
        /\ articles' = [articles EXCEPT
               ![a].status = IF status # seen.status THEN status ELSE @,
               ![a].date   = IF date # seen.date THEN date ELSE @]
    BY <1>1, <1>9 DEF A!SaveStatus
  <2>2. PICK old : old = articles[a]
    OBVIOUS
  <2>3. PICK row : row = [[old EXCEPT !.status = IF status # seen.status THEN status ELSE old.status]
                             EXCEPT !.date = IF date # seen.date THEN date ELSE old.date]
    OBVIOUS
  <2>4. old \in A!Row /\ old.folder \in A!Present(folders) /\ old.tags \subseteq A!Present(tags)
    BY <2>1, <2>2 DEF AInv, ARows, A!Stored
  <2> HIDE DEF a, status, seen
  <2>5. articles' = [articles EXCEPT ![a] = row]
    BY <1>2, <2>1, <2>2, <2>3, <2>4 DEF AInv, ARows, A!Row
  <2>6. /\ row \in A!Row /\ row.folder = old.folder /\ row.tags = old.tags
        /\ row.status = IF status # seen.status THEN status ELSE old.status
        /\ row.date = IF date # seen.date THEN date ELSE old.date
    BY <1>2, <1>7, <2>3, <2>4 DEF A!Row
  <2>7. old.date # None => row.date # None
    BY <1>7, <2>6
  <2>8. old.status = "Published" => old.date # None
    BY <2>1, <2>2 DEF AInv, A!PublishedHasDate, A!Public, A!IsAvailable, A!Stored
  <2>9. row.status = "Published" => row.date # None
    <3>1. CASE date # seen.date
      BY <1>7, <2>6, <3>1
    <3>2. CASE date = seen.date
      <4>1. row.status = status /\ row.date = old.date
        BY <1>9, <2>6, <3>2
      <4>2. old # None
        BY <2>1, <2>2 DEF A!Stored
      <4> QED BY <1>2, <1>7, <2>2, <3>2, <4>1, <4>2
    <3> QED BY <3>1, <3>2
  <2>10. row # None
    BY <2>6, SiteAssumption
  <2>11. ARows' /\ A!PublishedHasDate'
    BY <1>2, <1>4, <2>4, <2>5, <2>6, <2>9, <2>10, RowChanged
  <2>12. ASSUME NEW p \in Request \ {r} PROVE DateStays(areq[p]) /\ VoteStays(areq[p])
    <3>1. areq[p].at = "status" => areq[p].on \in Article
      BY DEF AInv, ARequests, AFits, StatusFits
    <3>2. areq[p].at = "status" => articles'[areq[p].on] = IF areq[p].on = a THEN row ELSE articles[areq[p].on]
      BY <2>5, <3>1 DEF AInv, ARows
    <3> QED BY <1>4, <2>1, <2>2, <2>7, <3>2 DEF DateStays, VoteStays, A!Stored
  <2> QED BY <1>3, <1>4, <1>5, <2>11, <2>12, AChanges
<1> QED BY <1>8, <1>9

\* A step that leaves the articles as they are, and what their rows refer to in place.
LEMMA TagChanged ==
    ASSUME AInv, NEW r \in Request, NEW t \in Tag, NEW slug \in TagSlug,
           tags' = [tags EXCEPT ![t] = slug] \/ tags' = tags,
           areq' = [areq EXCEPT ![r] = [A!Idle EXCEPT !.at = "committed"]],
           UNCHANGED <<articles, folders, votes, said>>
    PROVE  AInv'
<1>1. A!Present(folders)' = A!Present(folders) /\ A!Present(tags) \subseteq A!Present(tags)'
  BY SiteAssumption DEF AInv, ARows, A!Present
<1>2. ARows'
  BY <1>1 DEF AInv, ARows, A!Stored
<1>3. VoteRows' /\ A!PublishedHasDate'
  BY DEF AInv, VoteRows, A!PublishedHasDate, A!Public, A!IsAvailable
<1>4. \A p : DateStays(p) /\ VoteStays(p)
  BY DEF DateStays, VoteStays
<1> QED BY <1>2, <1>3, <1>4, AChanges

LEMMA CreateTagInv ==
    ASSUME AInv, NEW r \in Request, A!CreateTag(r)
    PROVE  AInv'
BY TagChanged DEF A!CreateTag, A!Once, A!Commit

LEMMA SaveTagInv ==
    ASSUME AInv, NEW r \in Request, A!SaveTag(r)
    PROVE  AInv'
<1>1. areq[r].on \in Tag /\ areq[r].to \in TagSlug
  BY DEF AInv, ARequests, AFits, TagFits, A!SaveTag, A!Step
<1> QED BY <1>1, TagChanged DEF A!SaveTag, A!Commit

LEMMA DeleteTagInv ==
    ASSUME AInv, NEW r \in Request, A!DeleteTag(r)
    PROVE  AInv'
<1> USE DEF AInv
<1>1. PICK t \in A!Present(tags) :
         /\ tags' = [tags EXCEPT ![t] = None]
         /\ articles' = [a \in Article |->
                IF a \in A!Stored THEN [articles[a] EXCEPT !.tags = @ \ {t}] ELSE None]
  BY DEF A!DeleteTag
<1>2. ASSUME NEW a \in A!Stored
      PROVE  /\ articles'[a] \in A!Row /\ articles'[a] # None
             /\ articles'[a].folder = articles[a].folder /\ articles'[a].tags = articles[a].tags \ {t}
             /\ articles'[a].status = articles[a].status /\ articles'[a].date = articles[a].date
  <2>1. PICK row : row = articles[a]
    OBVIOUS
  <2>2. row \in A!Row
    BY <2>1 DEF ARows, A!Stored
  <2>3. a \in Article
    BY DEF A!Stored
  <2>4. articles'[a] = [row EXCEPT !.tags = row.tags \ {t}]
    BY <1>1, <2>1, <2>3
  <2>5. /\ articles'[a] \in A!Row
        /\ articles'[a].folder = row.folder /\ articles'[a].tags = row.tags \ {t}
        /\ articles'[a].status = row.status /\ articles'[a].date = row.date
    BY <2>2, <2>4 DEF A!Row
  <2>6. articles'[a] # None
    BY <2>5, SiteAssumption
  <2> QED BY <2>1, <2>5, <2>6
<1>3. \A a \in Article : a \notin A!Stored => articles'[a] = None
  BY <1>1
<1>4. A!Stored' = A!Stored
  BY <1>2, <1>3 DEF A!Stored
<1>5. A!Present(folders)' = A!Present(folders) /\ A!Present(tags)' = A!Present(tags) \ {t}
  BY <1>1 DEF ARows, A!Present, A!DeleteTag
<1>6. articles' \in [Article -> A!Row \cup {None}]
  BY <1>1, <1>2, <1>3
<1>7. tags' \in [Tag -> TagSlug \cup {None}]
  BY <1>1 DEF ARows
<1>8. ARows'
  BY <1>2, <1>4, <1>5, <1>6, <1>7 DEF ARows
<1>9. A!PublishedHasDate'
  BY <1>2, <1>3 DEF A!PublishedHasDate, A!Public, A!IsAvailable, A!Stored
<1>10. VoteRows'
  BY DEF VoteRows, A!DeleteTag
<1>11. ASSUME NEW p \in Request \ {r} PROVE DateStays(areq[p]) /\ VoteStays(areq[p])
  <2>1. areq[p].at = "status" => areq[p].on \in Article
    BY DEF ARequests, AFits, StatusFits
  <2> QED BY <1>2, <1>3, <2>1 DEF DateStays, VoteStays, A!Stored, A!DeleteTag
<1> QED BY <1>8, <1>9, <1>10, <1>11, AChanges DEF A!DeleteTag, A!Once, A!Commit

LEMMA InsertFolderInv ==
    ASSUME AInv, NEW r \in Request, A!InsertFolder(r)
    PROVE  AInv'
<1> DEFINE f == areq[r].on  n == Cardinality(A!Present(folders))
<1>1. f \in Folder /\ areq[r].to \in 1..(n + 1)
  BY DEF AInv, ARequests, AFits, FolderFits, A!InsertFolder, A!Step
<1>2. f \notin A!Present(folders) /\ folders' = [folders EXCEPT ![f] = areq[r].to]
  BY DEF A!InsertFolder
<1>3. FolderRows /\ IsFiniteSet(A!Present(folders)) /\ n \in Nat
  BY FolderCount DEF AInv
<1>4. areq[r].to # None
  BY <1>1, <1>3, SiteAssumption
<1>5. A!Present(folders)' = A!Present(folders) \cup {f}
  BY <1>1, <1>2, <1>3, <1>4 DEF FolderRows, A!Present
<1>6. Cardinality(A!Present(folders)') = n + 1
  BY <1>2, <1>3, <1>5, FS_AddElement
<1> HIDE DEF f, n
<1>7. folders' \in [Folder -> 1..(n + 1) \cup {None}]
  <2>1. folders \in [Folder -> 1..n \cup {None}]
    BY <1>3 DEF FolderRows, n
  <2> QED BY <1>1, <1>2, <1>3, <2>1
<1>8. FolderRows'
  BY <1>5, <1>6, <1>7 DEF FolderRows
<1> QED BY <1>5, <1>8, AFolders DEF A!InsertFolder, A!Commit

LEMMA SaveFolderOrderInv ==
    ASSUME AInv, NEW r \in Request, A!SaveFolderOrder(r)
    PROVE  AInv'
<1> DEFINE order == areq[r].to
<1>1. PICK n \in 0..Cardinality(A!Present(folders)) : order \in [1..n -> A!Present(folders)]
  BY DEF AInv, ARequests, AFits, FolderOrderFits, A!SaveFolderOrder, A!Step
<1>2. folders' = [f \in Folder |->
        IF f \in A!Range(order) THEN CHOOSE m \in DOMAIN order : order[m] = f ELSE folders[f]]
  BY DEF A!SaveFolderOrder
<1>3. FolderRows /\ Cardinality(A!Present(folders)) \in Nat
  BY FolderCount DEF AInv
<1> HIDE DEF order
<1>4. ASSUME NEW f \in A!Range(order)
      PROVE  f \in A!Present(folders) /\ (CHOOSE m \in DOMAIN order : order[m] = f) \in 1..n
  BY <1>1 DEF A!Range
<1>5. \A f \in Folder : /\ f \in A!Range(order) => folders'[f] \in 1..n /\ f \in A!Present(folders)
                        /\ f \notin A!Range(order) => folders'[f] = folders[f]
  BY <1>2, <1>4
<1>6. 1..n \subseteq 1..Cardinality(A!Present(folders)) /\ None \notin 1..n
  BY <1>1, <1>3, SiteAssumption
<1>7. DOMAIN folders' = Folder /\ DOMAIN folders = Folder
  BY <1>2, <1>3 DEF FolderRows
<1>8. A!Present(folders)' = A!Present(folders)
  BY <1>5, <1>6, <1>7 DEF A!Present
<1>9. folders' \in [Folder -> 1..Cardinality(A!Present(folders)) \cup {None}]
  BY <1>2, <1>3, <1>5, <1>6 DEF FolderRows
<1>10. FolderRows'
  BY <1>3, <1>8, <1>9 DEF FolderRows
<1> QED BY <1>8, <1>10, AFolders DEF A!SaveFolderOrder, A!Commit

\* Nobody else holds the reaction that is written.
LEMMA CommitVoteInv ==
    ASSUME AInv, NEW r \in Request, A!CommitVote(r)
    PROVE  AInv'
<1> DEFINE a == areq[r].on  v == areq[r].to.voter  kind == areq[r].to.kind  seen == areq[r].seen
<1> USE DEF AInv
<1>1. /\ a \in Article /\ v \in Voter /\ kind \in A!Reaction \cup {None}
      /\ seen \in A!Reaction \cup {None} /\ (seen # None \/ kind # None)
      /\ seen # None => votes[a][v] = seen
  BY DEF ARequests, AFits, VoteFits, ReactFits, A!CommitVote, A!Step
<1>2. /\ seen = None => votes[a][v] = None
      /\ votes' = IF seen = kind THEN votes ELSE [votes EXCEPT ![a][v] = kind]
      /\ said' = [said EXCEPT ![a][v] = kind]
      /\ areq[r].at = "react"
  BY DEF A!CommitVote, A!Step
<1>3. votes' = [votes EXCEPT ![a][v] = kind]
  BY <1>1, <1>2 DEF VoteRows
<1>4. VoteRows'
  <2>1. votes' = said'
    BY <1>2, <1>3 DEF VoteRows
  <2>2. [votes EXCEPT ![a][v] = kind] \in [Article -> [Voter -> A!Reaction \cup {None}]]
    <3> HIDE DEF a, v, kind
    <3> QED BY <1>1 DEF VoteRows
  <2> QED BY <1>3, <2>1, <2>2 DEF VoteRows
<1>5. areq' = [areq EXCEPT ![r] = A!Idle] /\ UNCHANGED <<articles, folders, tags>>
  BY DEF A!CommitVote
<1>6. ARows' /\ FolderRows' /\ A!PublishedHasDate'
  BY <1>5 DEF ARows, A!Stored, A!Present, FolderRows, A!PublishedHasDate, A!Public, A!IsAvailable
<1>7. ASSUME NEW p \in Request \ {r} PROVE DateStays(areq[p]) /\ VoteStays(areq[p])
  <2>1. CASE areq[p].at = "react" /\ areq[p].seen # None
    <3>1. AFits(areq[p])
      BY DEF ARequests
    <3>2. areq[p].on \in Article /\ areq[p].to.voter \in Voter /\ votes[areq[p].on][areq[p].to.voter] # None
      BY <2>1, <3>1 DEF AFits, VoteFits, ReactFits
    <3>3. areq[p].on # a \/ areq[p].to.voter # v
      <4> SUFFICES ASSUME areq[p].on = a, areq[p].to.voter = v PROVE FALSE
        OBVIOUS
      <4>1. seen # None
        BY <1>2, <3>2
      <4> QED BY <1>2, <2>1, <4>1 DEF VotesHeld
    <3>4. votes'[areq[p].on][areq[p].to.voter] = votes[areq[p].on][areq[p].to.voter]
      BY <1>1, <1>3, <3>2, <3>3 DEF VoteRows
    <3> QED BY <1>5, <3>4 DEF DateStays, VoteStays
  <2>2. CASE ~ (areq[p].at = "react" /\ areq[p].seen # None)
    BY <1>5, <2>2 DEF DateStays, VoteStays
  <2> QED BY <2>1, <2>2
<1>8. FoldersStay
  BY <1>5, FoldersKept
<1>9. AFits(A!Idle)' /\ A!Idle.at = "idle"
  BY AnswerFits DEF AFits, A!Idle
<1>10. ARequests'
  BY <1>5, <1>7, <1>8, <1>9, ARequestsStep
<1>11. VotesHeld'
  <2>1. \A p \in Request : areq'[p] = IF p = r THEN A!Idle ELSE areq[p]
    BY <1>5 DEF ARequests
  <2> QED BY <1>9, <2>1 DEF VotesHeld
<1> QED BY <1>4, <1>6, <1>10, <1>11

LEMMA AInit == A!Init => AInv
<1> SUFFICES ASSUME A!Init PROVE AInv
  OBVIOUS
<1>1. /\ articles = KeptArticles.articles /\ folders = KeptArticles.folders
      /\ tags = KeptArticles.tags /\ votes = KeptArticles.votes /\ said = votes
      /\ areq = [r \in Request |-> A!Idle]
  BY DEF A!Init, Request, A!Request
<1>2. ARows
  BY <1>1, KeptArticlesAssumption DEF ARows, A!Stored, A!Present
<1>3. FolderRows
  BY <1>1, KeptArticlesAssumption DEF FolderRows, A!Present
<1>4. VoteRows
  BY <1>1, KeptArticlesAssumption DEF VoteRows
<1>5. A!PublishedHasDate
  BY <1>1, KeptArticlesAssumption DEF A!PublishedHasDate, A!Public, A!IsAvailable
<1>6. ARequests
  BY <1>1, AnswerFits DEF ARequests
<1>7. VotesHeld
  <2>1. \A r \in Request : areq[r].at = "idle"
    BY <1>1 DEF A!Idle
  <2> QED BY <2>1 DEF VotesHeld
<1> QED BY <1>2, <1>3, <1>4, <1>5, <1>6, <1>7 DEF AInv

LEMMA AStep ==
    ASSUME AInv, NEW r \in Request, calls \in 0..MaxCalls, A!Start(r) \/ A!Continue(r)
    PROVE  AInv'
<1>1. CASE A!StartArticle(r)
  BY <1>1, CreateArticleInv, OpenEditorInv, DeleteArticleInv, LoadForStatusInv DEF A!StartArticle
<1>2. CASE A!StartTag(r)
  BY <1>2, CreateTagInv, LoadTagInv, DeleteTagInv DEF A!StartTag
<1>3. CASE A!StartFolder(r)
  BY <1>3, CheckFolderInv, CheckFolderOrderInv DEF A!StartFolder
<1>4. A!Abort(r) => AInv'
  BY AIdleInv DEF A!Abort
<1>5. CASE A!Continue(r)
  BY <1>4, <1>5, UpdateArticleInv, SaveStatusInv, SaveTagInv, InsertFolderInv,
     SaveFolderOrderInv, LockVoteInv, CommitVoteInv DEF A!Continue
<1> QED BY <1>1, <1>2, <1>3, <1>5, FindPublishedInv DEF A!Start

LEMMA AStay == AInv /\ UNCHANGED <<articles, folders, tags, votes, said, areq>> => AInv'
<1> SUFFICES ASSUME AInv, UNCHANGED <<articles, folders, tags, votes, said, areq>> PROVE AInv'
  OBVIOUS
<1>1. ARows' /\ FolderRows' /\ A!PublishedHasDate'
  BY DEF AInv, ARows, A!Stored, A!Present, FolderRows, A!PublishedHasDate, A!Public, A!IsAvailable
<1>2. VoteRows' /\ VotesHeld'
  BY DEF AInv, VoteRows, VotesHeld
<1>3. \A p : AFits(p) => AFits(p)'
  <2>1. FoldersStay
    BY FoldersKept DEF AInv
  <2>2. \A p : DateStays(p) /\ VoteStays(p)
    BY DEF DateStays, VoteStays
  <2> QED BY <2>1, <2>2, FitsKept
<1>4. ARequests'
  <2>1. ASSUME NEW p \in Request PROVE AFits(areq[p])'
    <3>1. PICK x : x = areq[p]
      OBVIOUS
    <3>2. AFits(x)' /\ x = areq'[p]
      BY <1>3, <3>1 DEF AInv, ARequests
    <3> QED BY <3>2
  <2> QED BY <2>1 DEF AInv, ARequests
<1> QED BY <1>1, <1>2, <1>4 DEF AInv

-----------------------------------------------------------------------------
(* Requests about the matrix.                                               *)

\* Matrix counts as this module does.
LEMMA SameCountM == \A S : M!Cardinality(S) = Cardinality(S)
BY DEF M!Cardinality, Cardinality

LEMMA AnswerFitsM == MFits(M!Idle) /\ MFits([M!Idle EXCEPT !.at = "committed"])
BY DEF MFits, M!Idle

\* What a step leaves to the requests under way: the rows of the structure they have read,
\* and a date where they have seen one.
NodesStay ==
    /\ M!Present \subseteq M!Present'
    /\ Cardinality(M!Present) \in Nat /\ Cardinality(M!Present') \in Nat
    /\ Cardinality(M!Present) <= Cardinality(M!Present')

ItemDateStays(q) ==
    q.at = "update" /\ items'[q.on] # None =>
       items[q.on] # None /\ (items[q.on].date # None => items'[q.on].date # None)

\* What a request knows then stays true.
LEMMA FitsKeptM ==
    ASSUME NEW q, MFits(q), NodesStay, ItemDateStays(q)
    PROVE  MFits(q)'
<1> USE DEF NodesStay, ItemDateStays
<1>1. FormFits(q) => FormFits(q)'
  BY DEF FormFits
<1>2. q.at = "update" /\ UpdateFits(q) => UpdateFits(q)'
  BY DEF UpdateFits
<1>3. NodeFits(q) => NodeFits(q)'
  <2> SUFFICES ASSUME NodeFits(q) PROVE NodeFits(q)'
    OBVIOUS
  <2>1. q.to.priority \in Nat
    BY DEF NodeFits, M!Place
  <2> QED BY <2>1 DEF NodeFits
<1>4. OrderFits(q) => OrderFits(q)'
  BY DEF OrderFits
<1> QED BY <1>1, <1>2, <1>3, <1>4 DEF MFits

LEMMA MRequestsStep ==
    ASSUME MRequests, NEW r \in Request, NEW q, mreq' = [mreq EXCEPT ![r] = q], MFits(q)',
           NodesStay, \A p \in Request \ {r} : ItemDateStays(mreq[p])
    PROVE  MRequests'
<1>1. ASSUME NEW p \in Request \ {r}, NEW x, x = mreq[p] PROVE MFits(x)'
  BY <1>1, FitsKeptM DEF MRequests
<1>2. \A p \in Request : mreq'[p] = IF p = r THEN q ELSE mreq[p]
  BY DEF MRequests
<1>3. ASSUME NEW p \in Request, NEW x, x = mreq'[p] PROVE MFits(x)'
  BY <1>1, <1>2, <1>3
<1>4. \A p \in Request : MFits(mreq[p])'
  <2> SUFFICES ASSUME NEW p \in Request PROVE MFits(mreq[p])'
    OBVIOUS
  <2>1. PICK x : x = mreq'[p]
    OBVIOUS
  <2>2. MFits(x)'
    BY <2>1, <1>3
  <2> QED BY <2>1, <2>2
<1>5. (DOMAIN mreq = Request)'
  BY DEF MRequests
<1> QED BY <1>4, <1>5 DEF MRequests

LEMMA NodeCount == IsFiniteSet(M!Present) /\ Cardinality(M!Present) \in Nat
<1>1. M!Present \subseteq Sheet \cup Section \cup Subsection
  BY DEF M!Present, M!Node
<1> QED BY <1>1, SiteAssumption, FS_Subset, FS_CardinalityType

LEMMA NodesKept == UNCHANGED nodes => NodesStay
BY NodeCount DEF NodesStay, M!Present

\* A request that reads, or ends without a change of the rows.
LEMMA MReads ==
    ASSUME MInv, NEW r \in Request, NEW q, MFits(q), mreq' = [mreq EXCEPT ![r] = q],
           UNCHANGED <<nodes, items>>, QueueRows', QuotaOK'
    PROVE  MInv'
<1> USE DEF MInv
<1>1. NodesStay
  BY NodesKept
<1>2. \A p : ItemDateStays(p)
  BY DEF ItemDateStays
<1>3. MFits(q)'
  BY <1>1, <1>2, FitsKeptM
<1>4. MRequests'
  BY <1>1, <1>2, <1>3, MRequestsStep
<1>5. NodeRows' /\ ItemRows' /\ M!PublishedHasDate'
  BY DEF NodeRows, ItemRows, M!Present, M!Stored, M!PublishedHasDate, M!IsPublished
<1> QED BY <1>4, <1>5

\* A change of the questions, which leaves dates where requests have seen one.
LEMMA MChanges ==
    ASSUME MInv, NEW r \in Request,
           mreq' = [mreq EXCEPT ![r] = [M!Idle EXCEPT !.at = "committed"]],
           UNCHANGED nodes, ItemRows', M!PublishedHasDate', QueueRows', QuotaOK',
           \A p \in Request \ {r} : ItemDateStays(mreq[p])
    PROVE  MInv'
<1> USE DEF MInv
<1> DEFINE q == [M!Idle EXCEPT !.at = "committed"]
<1>1. MFits(q)'
  BY DEF MFits, M!Idle
<1>2. mreq' = [mreq EXCEPT ![r] = q]
  OBVIOUS
<1> HIDE DEF q
<1>3. MRequests'
  BY <1>1, <1>2, NodesKept, MRequestsStep
<1>4. NodeRows'
  BY DEF NodeRows, M!Present
<1> QED BY <1>3, <1>4

\* A change of the structure, of which nothing goes away.
LEMMA MNodes ==
    ASSUME MInv, NEW r \in Request, NEW q, MFits(q)', mreq' = [mreq EXCEPT ![r] = q],
           UNCHANGED <<items, queue, quota, accepted, ending>>, NodeRows',
           M!Present \subseteq M!Present'
    PROVE  MInv'
<1> USE DEF MInv
<1>1. NodesStay
  <2>1. M!Present' \subseteq Sheet \cup Section \cup Subsection
    BY DEF M!Present, M!Node
  <2>2. IsFiniteSet(M!Present')
    BY <2>1, SiteAssumption, FS_Subset
  <2> QED BY <2>2, NodeCount, FS_Subset, FS_CardinalityType DEF NodesStay
<1>2. \A p : ItemDateStays(p)
  BY DEF ItemDateStays
<1>3. MRequests'
  BY <1>1, <1>2, MRequestsStep
<1>4. ItemRows' /\ M!PublishedHasDate' /\ QueueRows' /\ QuotaOK'
  BY DEF ItemRows, M!Stored, M!PublishedHasDate, M!IsPublished, QueueRows, QuotaOK
<1> QED BY <1>3, <1>4

\* The counter and the queue stay.
LEMMA CountsStay ==
    ASSUME MInv, UNCHANGED <<queue, quota, accepted, ending>>
    PROVE  QueueRows' /\ QuotaOK'
BY DEF MInv, QueueRows, QuotaOK

\* A stored question, as the requests read it.
LEMMA StoredItem ==
    ASSUME MInv, NEW i \in M!Stored
    PROVE  /\ i \in Item /\ items[i] \in M!Row /\ items[i] # None /\ items[i].sub \in M!Present
           /\ items[i].status = "Published" => items[i].date # None
BY DEF MInv, ItemRows, M!Stored, M!PublishedHasDate, M!IsPublished

LEMMA OpenItemInv ==
    ASSUME MInv, NEW r \in Request, M!OpenEditor(r)
    PROVE  MInv'
<1>1. PICK i \in M!Stored : \E form \in M!Edits(items[i]) : M!Holds(r, "edited", i, form, None)
  BY DEF M!OpenEditor
<1>2. PICK form \in M!Edits(items[i]) : M!Holds(r, "edited", i, form, None)
  BY <1>1
<1>3. PICK row : row = items[i]
  OBVIOUS
<1>4. row \in M!Row /\ row.sub \in M!Present /\ i \in Item
  BY <1>3, StoredItem
<1>5. form \in M!Row /\ form.sub \in M!Present
  BY <1>3, <1>4 DEF M!Edits, M!Row, M!Status
<1>6. PICK q : q = [at |-> "edited", on |-> i, to |-> form, seen |-> None]
  OBVIOUS
<1>7. mreq' = [mreq EXCEPT ![r] = q]
  BY <1>2, <1>6 DEF M!Holds
<1>8. q.at = "edited" /\ q.on = i /\ q.to = form
  BY <1>6
<1>9. MFits(q)
  BY <1>4, <1>5, <1>8 DEF MFits, FormFits
<1> QED BY <1>7, <1>9, CountsStay, MReads DEF M!OpenEditor

\* What a request is about to write of a row it has just read.
LEMMA HoldsUpdate ==
    ASSUME MInv, NEW r \in Request, NEW i \in M!Stored, NEW form \in M!Row,
           form.date = items[i].date, form.sub \in M!Present,
           M!Holds(r, "update", i, form, items[i]),
           UNCHANGED <<nodes, items, queue, quota, accepted, ending>>
    PROVE  MInv'
<1>1. PICK q : q = [at |-> "update", on |-> i, to |-> form, seen |-> items[i]]
  OBVIOUS
<1>2. mreq' = [mreq EXCEPT ![r] = q]
  BY <1>1 DEF M!Holds
<1>3. q.at = "update" /\ q.on = i /\ q.to = form /\ q.seen = items[i]
  BY <1>1
<1>4. MFits(q)
  BY <1>3, StoredItem DEF MFits, FormFits, UpdateFits
<1> QED BY <1>2, <1>4, CountsStay, MReads

LEMMA LoadForUpdateInv ==
    ASSUME MInv, NEW r \in Request, M!LoadForUpdate(r)
    PROVE  MInv'
<1> DEFINE i == mreq[r].on  form == mreq[r].to
<1>1. form \in M!Row /\ form.sub \in M!Present
  BY DEF MInv, MRequests, MFits, FormFits, M!LoadForUpdate, M!Step
<1>2. i \in M!Stored /\ M!Holds(r, "update", i, [form EXCEPT !.date = items[i].date], items[i])
  BY DEF M!LoadForUpdate
<1>3. items[i].date \in 0..MaxCalls \cup {None}
  BY <1>2, StoredItem DEF M!Row
<1> HIDE DEF i, form
<1>4. PICK new : new = [form EXCEPT !.date = items[i].date]
  OBVIOUS
<1>5. new \in M!Row /\ new.date = items[i].date /\ new.sub \in M!Present
  BY <1>1, <1>3, <1>4 DEF M!Row
<1> QED BY <1>2, <1>4, <1>5, HoldsUpdate DEF M!LoadForUpdate

\* What set-published and set-draft make of a row.
LEMMA StatusOf ==
    ASSUME MInv, NEW i \in M!Stored, NEW status \in M!Status
    PROVE  /\ [items[i] EXCEPT !.status = status] \in M!Row
           /\ [items[i] EXCEPT !.status = status].date = items[i].date
           /\ [items[i] EXCEPT !.status = status].sub \in M!Present
<1>1. PICK row : row = items[i]
  OBVIOUS
<1>2. row \in M!Row /\ row.sub \in M!Present
  BY <1>1, StoredItem
<1>3. PICK new : new = [row EXCEPT !.status = status]
  OBVIOUS
<1>4. new \in M!Row /\ new.date = row.date /\ new.sub = row.sub
  BY <1>2, <1>3 DEF M!Row
<1> QED BY <1>1, <1>2, <1>3, <1>4

LEMMA LoadItemStatusInv ==
    ASSUME MInv, NEW r \in Request, M!LoadForStatus(r)
    PROVE  MInv'
<1> DEFINE i == mreq[r].on  status == mreq[r].to
<1>1. status \in M!Status
  BY DEF MInv, MRequests, MFits, M!LoadForStatus, M!Step
<1>2. i \in M!Stored /\ M!Holds(r, "update", i, [items[i] EXCEPT !.status = status], items[i])
  BY DEF M!LoadForStatus
<1> HIDE DEF i, status
<1> QED BY <1>1, <1>2, StatusOf, HoldsUpdate DEF M!LoadForStatus

LEMMA LoadForDraftInv ==
    ASSUME MInv, NEW r \in Request, M!LoadForDraft(r)
    PROVE  MInv'
<1>1. PICK i \in M!Stored : M!Holds(r, "update", i, [items[i] EXCEPT !.status = "Draft"], items[i])
  BY DEF M!LoadForDraft
<1>2. "Draft" \in M!Status
  BY DEF M!Status
<1> QED BY <1>1, <1>2, StatusOf, HoldsUpdate DEF M!LoadForDraft

LEMMA CheckReadyInv ==
    ASSUME MInv, NEW r \in Request, M!CheckReady(r)
    PROVE  MInv'
<1>1. PICK i \in M!Stored : M!Holds(r, "ready", i, "Published", None)
  BY DEF M!CheckReady
<1>2. PICK q : q = [at |-> "ready", on |-> i, to |-> "Published", seen |-> None]
  OBVIOUS
<1>3. mreq' = [mreq EXCEPT ![r] = q]
  BY <1>1, <1>2 DEF M!Holds
<1>4. q.at = "ready" /\ q.on \in Item /\ q.to \in M!Status
  BY <1>2 DEF M!Stored, M!Status
<1>5. MFits(q)
  BY <1>4 DEF MFits
<1> QED BY <1>3, <1>5, CountsStay, MReads DEF M!CheckReady

\* What a changed question must be.
LEMMA ItemChanged ==
    ASSUME MInv, NEW i \in Item, NEW row \in M!Row, row.sub \in M!Present,
           row.status = "Published" => row.date # None,
           items' = [items EXCEPT ![i] = row], UNCHANGED nodes
    PROVE  ItemRows' /\ M!PublishedHasDate'
<1> USE DEF MInv
<1>1. \A j \in Item : items'[j] = IF j = i THEN row ELSE items[j]
  BY DEF ItemRows
<1>2. items' \in [Item -> M!Row \cup {None}]
  BY DEF ItemRows
<1>3. \A j \in M!Stored' : items'[j].sub \in M!Present
  BY <1>1 DEF ItemRows, M!Stored
<1>4. M!Present' = M!Present
  BY DEF M!Present
<1>5. M!PublishedHasDate'
  BY <1>1 DEF M!PublishedHasDate, M!IsPublished
<1> QED BY <1>2, <1>3, <1>4, <1>5 DEF ItemRows

\* A new question takes an identifier no request knows.
LEMMA InsertItemInv ==
    ASSUME MInv, NEW r \in Request, NEW i \in Item \ M!Stored, NEW text \in Question,
           M!Insert(r, i, text), M!Commit(r), UNCHANGED nodes, QueueRows', QuotaOK'
    PROVE  MInv'
<1>1. PICK slug \in ItemSlug, ready \in BOOLEAN, status \in M!Status :
        /\ M!Unknown(i)
        /\ items' = [items EXCEPT ![i] = M!FirstDate(M!NewItem(slug, text, ready, status), r)]
  BY DEF M!Insert
<1>2. PICK new : new = M!NewItem(slug, text, ready, status)
  OBVIOUS
<1>3. (CHOOSE n \in Subsection \cap M!Present : TRUE) \in Subsection \cap M!Present
  BY DEF MInv, NodeRows
<1>4. new \in M!Row /\ new.sub \in M!Present /\ new.date = None
  BY <1>1, <1>2, <1>3 DEF M!NewItem, M!Row
<1>5. PICK row : row = M!FirstDate(new, r)
  OBVIOUS
<1>6. r \in 0..MaxCalls /\ r # None
  BY SiteAssumption DEF Request
<1>7. row \in M!Row /\ row.sub = new.sub /\ (row.status = "Published" => row.date # None)
  <2>1. CASE new.status = "Published"
    <3>1. row = [new EXCEPT !.date = r]
      BY <1>4, <1>5, <2>1 DEF M!FirstDate
    <3> QED BY <1>4, <1>6, <3>1 DEF M!Row
  <2>2. CASE new.status # "Published"
    BY <1>4, <1>5, <2>2 DEF M!FirstDate
  <2> QED BY <2>1, <2>2
<1>8. items' = [items EXCEPT ![i] = row]
  BY <1>1, <1>2, <1>5
<1>9. ItemRows' /\ M!PublishedHasDate'
  BY <1>4, <1>7, <1>8, ItemChanged
<1>10. ASSUME NEW p \in Request \ {r} PROVE ItemDateStays(mreq[p])
  <2>1. mreq[p].on # i
    BY <1>1 DEF M!Unknown, Request, M!Request
  <2>2. mreq[p].at = "update" => mreq[p].on \in Item
    BY DEF MInv, MRequests, MFits, FormFits
  <2>3. mreq[p].at = "update" => items'[mreq[p].on] = items[mreq[p].on]
    BY <1>8, <2>1, <2>2 DEF MInv, ItemRows
  <2> QED BY <2>3 DEF ItemDateStays
<1> QED BY <1>9, <1>10, MChanges DEF M!Commit

LEMMA CreateItemInv ==
    ASSUME MInv, NEW r \in Request, M!CreateItem(r)
    PROVE  MInv'
<1>1. (CHOOSE q \in Question : TRUE) \in Question
  BY SiteAssumption
<1> QED BY <1>1, CountsStay, InsertItemInv DEF M!CreateItem, M!Once

LEMMA CreateItemFromQueueInv ==
    ASSUME MInv, NEW r \in Request, M!CreateItemFromQueue(r)
    PROVE  MInv'
<1>1. PICK i \in Item \ M!Stored, q \in M!Queued :
        queue[q] > 0 /\ M!Insert(r, i, q.text) /\ queue' = [queue EXCEPT ![q] = @ - 1]
  BY DEF M!CreateItemFromQueue
<1>2. QueueRows'
  BY <1>1 DEF MInv, QueueRows
<1>4. q.text \in Question
  BY DEF M!Queued
<1>3. QuotaOK'
  BY DEF MInv, QuotaOK, M!CreateItemFromQueue
<1> QED BY <1>1, <1>2, <1>3, <1>4, InsertItemInv DEF M!CreateItemFromQueue, M!Once

LEMMA DeleteItemInv ==
    ASSUME MInv, NEW r \in Request, M!DeleteItem(r)
    PROVE  MInv'
<1>1. PICK i \in M!Stored : items' = [items EXCEPT ![i] = None]
  BY DEF M!DeleteItem
<1>2. \A j \in Item : items'[j] = IF j = i THEN None ELSE items[j]
  BY <1>1 DEF MInv, ItemRows
<1>3. UNCHANGED nodes /\ QueueRows' /\ QuotaOK'
  BY CountsStay DEF M!DeleteItem
<1>4. ItemRows'
  BY <1>1, <1>2, <1>3 DEF MInv, ItemRows, M!Stored, M!Present
<1>5. M!PublishedHasDate'
  BY <1>2 DEF MInv, M!PublishedHasDate, M!IsPublished
<1>6. ASSUME NEW p \in Request \ {r} PROVE ItemDateStays(mreq[p])
  <2>1. mreq[p].at = "update" => mreq[p].on \in Item
    BY DEF MInv, MRequests, MFits, FormFits
  <2> QED BY <1>2, <2>1 DEF ItemDateStays
<1> QED BY <1>3, <1>4, <1>5, <1>6, MChanges DEF M!DeleteItem, M!Once, M!Commit

\* What is written over a row: each column that differs from the row as it was read.
LEMMA MergeFields ==
    ASSUME NEW row \in M!Row, NEW seen \in M!Row, NEW new \in M!Row
    PROVE  /\ M!Merge(row, seen, new) \in M!Row
           /\ M!Merge(row, seen, new).sub = IF new.sub # seen.sub THEN new.sub ELSE row.sub
           /\ M!Merge(row, seen, new).date = IF new.date # seen.date THEN new.date ELSE row.date
           /\ M!Merge(row, seen, new).status = IF new.status # seen.status THEN new.status ELSE row.status
<1> DEFINE Columns == {"slug", "text", "ready", "status", "date", "sub"}
<1>1. PICK m : m = M!Merge(row, seen, new)
  OBVIOUS
<1>2. DOMAIN row = Columns
  BY DEF M!Row
<1>3. m = [c \in Columns |-> IF new[c] # seen[c] THEN new[c] ELSE row[c]]
  BY <1>1, <1>2 DEF M!Merge
<1>4. /\ m.slug = IF new.slug # seen.slug THEN new.slug ELSE row.slug
      /\ m.text = IF new.text # seen.text THEN new.text ELSE row.text
      /\ m.ready = IF new.ready # seen.ready THEN new.ready ELSE row.ready
      /\ m.status = IF new.status # seen.status THEN new.status ELSE row.status
      /\ m.date = IF new.date # seen.date THEN new.date ELSE row.date
      /\ m.sub = IF new.sub # seen.sub THEN new.sub ELSE row.sub
  BY <1>3
<1>5. /\ m.slug \in ItemSlug /\ m.text \in Question /\ m.ready \in BOOLEAN
      /\ m.status \in M!Status /\ m.date \in 0..MaxCalls \cup {None} /\ m.sub \in Subsection
  BY <1>4 DEF M!Row
<1>6. m = [slug |-> m.slug, text |-> m.text, ready |-> m.ready, status |-> m.status,
           date |-> m.date, sub |-> m.sub]
  BY <1>3
<1>7. m \in M!Row
  BY <1>5, <1>6 DEF M!Row
<1> QED BY <1>1, <1>4, <1>7

LEMMA SaveItemInv ==
    ASSUME MInv, NEW r \in Request, M!SaveItem(r), calls \in 0..MaxCalls
    PROVE  MInv'
<1> DEFINE i == mreq[r].on  seen == mreq[r].seen  form == mreq[r].to
<1>1. /\ i \in Item /\ seen \in M!Row /\ form \in M!Row /\ form.sub \in M!Present
      /\ form.date = seen.date /\ (seen.status = "Published" => seen.date # None)
      /\ items[i] # None /\ seen.date # None => items[i].date # None
  BY DEF MInv, MRequests, MFits, FormFits, UpdateFits, M!SaveItem, M!Step
<1>2. PICK new : new = M!FirstDate(form, calls)
  OBVIOUS
<1>3. M!SaveRow(i, seen, new) /\ M!Commit(r) /\ UNCHANGED <<nodes, queue, quota, accepted, ending>>
  BY <1>2 DEF M!SaveItem
<1>4. QueueRows' /\ QuotaOK'
  BY <1>3, CountsStay
<1> HIDE DEF i, seen, form
<1>5. calls # None /\ None \notin Nat
  BY SiteAssumption
<1>6. /\ new \in M!Row /\ new.sub \in M!Present /\ (new.date # seen.date => new.date # None)
      /\ new.status = "Published" => new.date # None
  <2>1. CASE form.status = "Published" /\ form.date = None
    <3>1. new = [form EXCEPT !.date = calls]
      BY <1>2, <2>1 DEF M!FirstDate
    <3> QED BY <1>1, <1>5, <3>1 DEF M!Row
  <2>2. CASE ~ (form.status = "Published" /\ form.date = None)
    BY <1>1, <1>2, <2>2 DEF M!FirstDate
  <2> QED BY <2>1, <2>2
<1>7. CASE new = seen
  <2>1. UNCHANGED items
    BY <1>3, <1>7 DEF M!SaveRow
  <2>2. ItemRows' /\ M!PublishedHasDate'
    BY <1>3, <2>1 DEF MInv, ItemRows, M!Stored, M!Present, M!PublishedHasDate, M!IsPublished
  <2>3. \A p : ItemDateStays(p)
    BY <2>1 DEF ItemDateStays
  <2> QED BY <1>3, <1>4, <2>2, <2>3, MChanges DEF M!Commit
<1>8. CASE new # seen
  <2>1. i \in M!Stored /\ items' = [items EXCEPT ![i] = M!Merge(items[i], seen, new)]
    BY <1>3, <1>8 DEF M!SaveRow
  <2>2. PICK old : old = items[i]
    OBVIOUS
  <2>3. old \in M!Row /\ old # None /\ old.sub \in M!Present /\ (old.status = "Published" => old.date # None)
    BY <2>1, <2>2, StoredItem
  <2>4. PICK row : row = M!Merge(old, seen, new)
    OBVIOUS
  <2>5. /\ row \in M!Row /\ row.sub = IF new.sub # seen.sub THEN new.sub ELSE old.sub
        /\ row.date = IF new.date # seen.date THEN new.date ELSE old.date
        /\ row.status = IF new.status # seen.status THEN new.status ELSE old.status
    BY <1>1, <1>6, <2>3, <2>4, MergeFields
  <2>6. old.date # None => row.date # None
    BY <1>6, <2>5
  <2>7. row.status = "Published" => row.date # None
    BY <1>1, <1>6, <2>2, <2>3, <2>5
  <2>8. row.sub \in M!Present
    BY <1>6, <2>3, <2>5
  <2>9. items' = [items EXCEPT ![i] = row]
    BY <2>1, <2>2, <2>4
  <2>10. ItemRows' /\ M!PublishedHasDate'
    BY <1>1, <1>3, <2>5, <2>7, <2>8, <2>9, ItemChanged
  <2>11. ASSUME NEW p \in Request \ {r} PROVE ItemDateStays(mreq[p])
    <3>1. mreq[p].at = "update" => mreq[p].on \in Item
      BY DEF MInv, MRequests, MFits, FormFits
    <3>2. mreq[p].at = "update" => items'[mreq[p].on] = IF mreq[p].on = i THEN row ELSE items[mreq[p].on]
      BY <2>9, <3>1 DEF MInv, ItemRows
    <3> QED BY <2>2, <2>3, <2>6, <3>2 DEF ItemDateStays
  <2> QED BY <1>3, <1>4, <2>10, <2>11, MChanges DEF M!Commit
<1> QED BY <1>7, <1>8

-----------------------------------------------------------------------------
(* The structure.                                                           *)

\* The next priority among siblings is at most one more than there are rows.
LEMMA NextPriorityBoundM ==
    ASSUME MInv, NEW siblings \in SUBSET M!Present
    PROVE  M!NextPriority(siblings) \in 1..(Cardinality(M!Present) + 1)
<1> DEFINE given == {0} \cup {nodes[n].priority : n \in siblings}
           c == Cardinality(M!Present)
<1>1. c \in Nat
  BY NodeCount
<1>2. \A n \in siblings : nodes[n].priority \in 0..c
  BY <1>1 DEF MInv, NodeRows, M!Present, M!Place
<1>3. given \in SUBSET (0..c) /\ given # {}
  BY <1>1, <1>2
<1>4. M!Max(given) \in given
  <2> HIDE DEF given, c
  <2>1. PICK x \in given : \A y \in given : x >= y
    BY <1>1, <1>3, GreatestNumber
  <2> QED BY <2>1 DEF M!Max
<1>5. M!NextPriority(siblings) = M!Max(given) + 1
  BY DEF M!NextPriority
<1> HIDE DEF given, c
<1>6. M!Max(given) \in 0..c
  BY <1>3, <1>4
<1>7. M!NextPriority(siblings) \in 1..(c + 1)
  BY <1>1, <1>5, <1>6
<1> QED BY <1>7 DEF c

\* A place is left for a row that is not there.
LEMMA RoomForNode ==
    ASSUME NEW n \in M!Node \ M!Present
    PROVE  Cardinality(M!Present) + 1 <= M!Cardinality(M!Node) /\ M!Cardinality(M!Node) \in Nat
<1>1. IsFiniteSet(M!Node) /\ Cardinality(M!Node) \in Nat /\ M!Cardinality(M!Node) = Cardinality(M!Node)
  BY SiteAssumption, SameCountM, FS_CardinalityType, FS_Union DEF M!Node
<1>2. M!Present \cup {n} \subseteq M!Node
  BY DEF M!Present
<1>3. Cardinality(M!Present \cup {n}) = Cardinality(M!Present) + 1
  BY NodeCount, FS_AddElement
<1>4. Cardinality(M!Present \cup {n}) <= Cardinality(M!Node)
  BY <1>1, <1>2, FS_Subset
<1> QED BY <1>1, <1>3, <1>4

LEMMA CheckNodeInv ==
    ASSUME MInv, NEW r \in Request, M!CheckNode(r)
    PROVE  MInv'
<1>1. PICK n \in M!Node \ M!Present : \E parent \in M!Parents(n) :
         M!Holds(r, "node", n,
               [parent |-> parent,
                priority |-> M!NextPriority(M!Children(parent) \cap M!Kind(n))], None)
  BY DEF M!CheckNode
<1>2. PICK parent \in M!Parents(n) :
         M!Holds(r, "node", n,
               [parent |-> parent,
                priority |-> M!NextPriority(M!Children(parent) \cap M!Kind(n))], None)
  BY <1>1
<1>3. PICK k : k = M!NextPriority(M!Children(parent) \cap M!Kind(n))
  OBVIOUS
<1>4. k \in 1..(Cardinality(M!Present) + 1)
  <2>1. M!Children(parent) \cap M!Kind(n) \in SUBSET M!Present
    BY DEF M!Children
  <2> QED BY <1>3, <2>1, NextPriorityBoundM
<1>5. k \in 1..M!Cardinality(M!Node) /\ k <= Cardinality(M!Present) + 1
  BY <1>4, NodeCount, RoomForNode
<1>6. /\ parent \in Sheet \cup Section \cup {None}
      /\ n \in Section => parent \in Sheet \cap M!Present
      /\ n \in Subsection => parent \in Section \cap M!Present
  <2>1. n \in Sheet \/ n \in Section \/ n \in Subsection
    BY DEF M!Node
  <2>2. n \in Sheet => M!Parents(n) = {None} /\ n \notin Section /\ n \notin Subsection
    BY SiteAssumption DEF M!Parents
  <2>3. n \in Section => M!Parents(n) = Sheet \cap M!Present /\ n \notin Subsection
    BY SiteAssumption DEF M!Parents
  <2>4. n \in Subsection => M!Parents(n) = Section \cap M!Present
    BY SiteAssumption DEF M!Parents
  <2> QED BY <2>1, <2>2, <2>3, <2>4
<1>7. PICK place : place = [parent |-> parent, priority |-> k]
  OBVIOUS
<1>8. place \in M!Place /\ place.parent = parent /\ place.priority = k
  BY <1>5, <1>6, <1>7 DEF M!Place
<1>9. PICK q : q = [at |-> "node", on |-> n, to |-> place, seen |-> None]
  OBVIOUS
<1>10. mreq' = [mreq EXCEPT ![r] = q]
  BY <1>2, <1>3, <1>7, <1>9 DEF M!Holds
<1>11. q.at = "node" /\ q.on = n /\ q.to = place
  BY <1>9
<1>12. MFits(q)
  BY <1>5, <1>6, <1>8, <1>11 DEF MFits, NodeFits
<1> QED BY <1>10, <1>12, CountsStay, MReads DEF M!CheckNode

LEMMA InsertNodeInv ==
    ASSUME MInv, NEW r \in Request, M!InsertNode(r)
    PROVE  MInv'
<1> DEFINE n == mreq[r].on  place == mreq[r].to
<1>1. /\ n \in M!Node /\ place \in M!Place /\ place.priority <= Cardinality(M!Present) + 1
      /\ n \in Section => place.parent \in Sheet \cap M!Present
      /\ n \in Subsection => place.parent \in Section \cap M!Present
  BY DEF MInv, MRequests, MFits, NodeFits, M!InsertNode, M!Step
<1>2. n \notin M!Present /\ nodes' = [nodes EXCEPT ![n] = place]
  BY DEF M!InsertNode
<1> HIDE DEF n, place
<1>3. place # None
  BY <1>1, SiteAssumption
<1>4. nodes \in [M!Node -> M!Place \cup {None}]
  BY DEF MInv, NodeRows
<1>5. M!Present' = M!Present \cup {n}
  BY <1>1, <1>2, <1>3, <1>4 DEF M!Present
<1>6. Cardinality(M!Present') = Cardinality(M!Present) + 1 /\ Cardinality(M!Present) \in Nat
  BY <1>2, <1>5, NodeCount, FS_AddElement
<1>7. \A m \in M!Node : nodes'[m] = IF m = n THEN place ELSE nodes[m]
  BY <1>2, <1>4
<1>8. ASSUME NEW m \in M!Present'
      PROVE  /\ nodes'[m].priority <= Cardinality(M!Present')
             /\ m \in Section => nodes'[m].parent \in Sheet \cap M!Present'
             /\ m \in Subsection => nodes'[m].parent \in Section \cap M!Present'
  <2>1. CASE m = n
    BY <1>1, <1>5, <1>6, <1>7, <2>1
  <2>2. CASE m # n
    <3>1. m \in M!Present /\ m \in M!Node
      BY <1>5, <2>2 DEF M!Present
    <3>2. nodes'[m] = nodes[m] /\ nodes[m] \in M!Place
      BY <1>4, <1>7, <2>2, <3>1 DEF M!Present
    <3>3. nodes[m].priority \in Nat
      BY <3>2 DEF M!Place
    <3>4. /\ nodes[m].priority <= Cardinality(M!Present)
          /\ m \in Section => nodes[m].parent \in Sheet \cap M!Present
          /\ m \in Subsection => nodes[m].parent \in Section \cap M!Present
      BY <3>1 DEF MInv, NodeRows
    <3> QED BY <1>5, <1>6, <3>2, <3>3, <3>4
  <2> QED BY <2>1, <2>2
<1>9. nodes' \in [M!Node -> M!Place \cup {None}]
  BY <1>1, <1>2, <1>4
<1>10. NodeRows'
  BY <1>5, <1>8, <1>9 DEF MInv, NodeRows
<1>11. MFits(M!Idle)'
  BY DEF MFits, M!Idle
<1> QED BY <1>5, <1>10, <1>11, MNodes DEF M!InsertNode

LEMMA CheckOrderInv ==
    ASSUME MInv, NEW r \in Request, M!CheckOrder(r)
    PROVE  MInv'
<1>1. PICK siblings \in M!Siblings : \E order \in M!SetToSeqs(siblings) :
         M!Holds(r, "order", None, order, None)
  BY DEF M!CheckOrder
<1>2. PICK order \in M!SetToSeqs(siblings) : M!Holds(r, "order", None, order, None)
  BY <1>1
<1>3. siblings \subseteq M!Present
  BY DEF M!Siblings, M!Children
<1>4. Cardinality(siblings) \in 0..Cardinality(M!Present)
  BY <1>3, NodeCount, FS_Subset, FS_CardinalityType
<1>5. order \in [1..Cardinality(siblings) -> siblings]
  BY SameCountM DEF M!SetToSeqs
<1>6. order \in [1..Cardinality(siblings) -> M!Present]
  BY <1>3, <1>5
<1>7. PICK q : q = [at |-> "order", on |-> None, to |-> order, seen |-> None]
  OBVIOUS
<1>8. mreq' = [mreq EXCEPT ![r] = q]
  BY <1>2, <1>7 DEF M!Holds
<1>9. q.at = "order" /\ q.to = order
  BY <1>7
<1>10. MFits(q)
  BY <1>4, <1>6, <1>9 DEF MFits, OrderFits
<1> QED BY <1>8, <1>10, CountsStay, MReads DEF M!CheckOrder

\* An order changes priorities and nothing else.
LEMMA NumberedNodes ==
    ASSUME MInv, NEW order, OrderFits([to |-> order]), nodes' = M!Numbered(order)
    PROVE  NodeRows' /\ M!Present' = M!Present
<1>1. PICK c \in 0..Cardinality(M!Present) : order \in [1..c -> M!Present]
  BY DEF OrderFits
<1>2. /\ nodes \in [M!Node -> M!Place \cup {None}] /\ Cardinality(M!Present) \in Nat
      /\ M!Present \subseteq M!Node
  BY NodeCount DEF MInv, NodeRows, M!Present
<1>3. Cardinality(M!Present) <= M!Cardinality(M!Node) /\ M!Cardinality(M!Node) \in Nat
  <2>1. IsFiniteSet(M!Node) /\ M!Cardinality(M!Node) = Cardinality(M!Node)
    BY SiteAssumption, SameCountM, FS_Union DEF M!Node
  <2> QED BY <1>2, <2>1, FS_Subset, FS_CardinalityType
<1>4. ASSUME NEW n \in M!Range(order)
      PROVE  n \in M!Present /\ (CHOOSE k \in DOMAIN order : order[k] = n) \in 1..c
  BY <1>1 DEF M!Range
<1>5. \A n \in M!Node : nodes'[n] =
        IF n \in M!Range(order) THEN [nodes[n] EXCEPT !.priority = CHOOSE k \in DOMAIN order : order[k] = n]
        ELSE nodes[n]
  BY DEF M!Numbered
<1>6. ASSUME NEW n \in M!Range(order)
      PROVE  /\ nodes'[n] \in M!Place /\ nodes'[n].parent = nodes[n].parent
             /\ nodes'[n].priority <= Cardinality(M!Present)
  <2>1. PICK place : place = nodes[n]
    OBVIOUS
  <2>2. PICK k : k = CHOOSE j \in DOMAIN order : order[j] = n
    OBVIOUS
  <2>3. k \in 1..c /\ n \in M!Node /\ place \in M!Place
    BY <1>2, <1>4, <2>1, <2>2 DEF M!Present
  <2>4. nodes'[n] = [place EXCEPT !.priority = k]
    BY <1>5, <2>1, <2>2, <2>3
  <2>5. k \in 1..M!Cardinality(M!Node) /\ k <= Cardinality(M!Present)
    BY <1>1, <1>2, <1>3, <2>3
  <2> QED BY <2>1, <2>3, <2>4, <2>5 DEF M!Place
<1>7. \A n \in M!Node : n \notin M!Range(order) => nodes'[n] = nodes[n]
  BY <1>5
<1>8. \A n \in M!Range(order) : nodes'[n] # None
  BY <1>6, SiteAssumption
<1>9. M!Present' = M!Present
  BY <1>4, <1>7, <1>8 DEF M!Present
<1>10. nodes' \in [M!Node -> M!Place \cup {None}]
  <2>1. nodes' = [n \in M!Node |-> nodes'[n]]
    BY DEF M!Numbered
  <2>2. \A n \in M!Node : nodes'[n] \in M!Place \cup {None}
    BY <1>2, <1>6, <1>7
  <2> QED BY <2>1, <2>2
<1>11. ASSUME NEW n \in M!Present
       PROVE  nodes'[n].priority <= Cardinality(M!Present) /\ nodes'[n].parent = nodes[n].parent
  BY <1>2, <1>6, <1>7 DEF MInv, NodeRows
<1>12. NodeRows'
  BY <1>9, <1>10, <1>11 DEF MInv, NodeRows
<1> QED BY <1>9, <1>12

LEMMA SaveOrderInv ==
    ASSUME MInv, NEW r \in Request, M!SaveOrder(r)
    PROVE  MInv'
<1>1. PICK order : order = mreq[r].to
  OBVIOUS
<1>2. OrderFits([to |-> order])
  BY <1>1 DEF MInv, MRequests, MFits, OrderFits, M!SaveOrder, M!Step
<1>3. nodes' = M!Numbered(order)
  BY <1>1 DEF M!SaveOrder
<1>4. NodeRows' /\ M!Present' = M!Present
  BY <1>2, <1>3, NumberedNodes
<1> DEFINE q == [M!Idle EXCEPT !.at = "committed"]
<1>5. MFits(q)'
  BY DEF MFits, M!Idle
<1>6. mreq' = [mreq EXCEPT ![r] = q]
  BY DEF M!SaveOrder, M!Commit
<1> HIDE DEF q
<1> QED BY <1>4, <1>5, <1>6, MNodes DEF M!SaveOrder

-----------------------------------------------------------------------------
(* Suggestions and the queue.                                               *)

LEMMA CheckSuggestionInv ==
    ASSUME MInv, NEW r \in Request, M!CheckSuggestion(r)
    PROVE  MInv'
<1>1. PICK asked \in M!Queued : M!Holds(r, "suggest", None, asked, None)
  BY DEF M!CheckSuggestion
<1>2. PICK q : q = [at |-> "suggest", on |-> None, to |-> asked, seen |-> None]
  OBVIOUS
<1>3. mreq' = [mreq EXCEPT ![r] = q]
  BY <1>1, <1>2 DEF M!Holds
<1>4. q.at = "suggest" /\ q.to \in M!Queued
  BY <1>2
<1>5. MFits(q)
  BY <1>4 DEF MFits
<1> QED BY <1>3, <1>5, CountsStay, MReads DEF M!CheckSuggestion

\* The request that counts takes the counter's new value with it.
LEMMA ConsumeQuotaInv ==
    ASSUME MInv, NEW r \in Request, M!ConsumeQuota(r)
    PROVE  MInv'
<1>1. QueueRows' /\ UNCHANGED <<nodes, items>>
  BY DEF MInv, QueueRows, M!ConsumeQuota
<1>2. DailyLimit \in Nat
  BY SiteAssumption
<1>3. CASE M!Allowed
  <2>1. M!Holds(r, "insert", None, mreq[r].to, None) /\ accepted' = accepted + 1
    BY <1>3 DEF M!ConsumeQuota
  <2>2. PICK q : q = [at |-> "insert", on |-> None, to |-> mreq[r].to, seen |-> None]
    OBVIOUS
  <2>3. mreq' = [mreq EXCEPT ![r] = q]
    BY <2>1, <2>2 DEF M!Holds
  <2>4. mreq[r].to \in M!Queued
    BY DEF MInv, MRequests, MFits, M!ConsumeQuota, M!Step
  <2>5. q.at = "insert" /\ q.to \in M!Queued
    BY <2>2, <2>4
  <2>6. MFits(q)
    BY <2>5 DEF MFits
  <2>7. QuotaOK'
    BY <1>2, <1>3, <2>1 DEF MInv, QuotaOK, M!Allowed, M!Increment, M!ConsumeQuota
  <2> QED BY <1>1, <2>3, <2>6, <2>7, MReads
<1>4. CASE ~ M!Allowed
  <2>1. mreq' = [mreq EXCEPT ![r] = M!Idle] /\ UNCHANGED accepted
    BY <1>4 DEF M!ConsumeQuota
  <2>2. QuotaOK'
    BY <1>2, <2>1 DEF MInv, QuotaOK, M!Increment, M!ConsumeQuota
  <2> QED BY <1>1, <2>1, <2>2, AnswerFitsM, MReads
<1> QED BY <1>3, <1>4

LEMMA MIdleInv ==
    ASSUME MInv, NEW r \in Request, mreq' = [mreq EXCEPT ![r] = M!Idle],
           UNCHANGED <<nodes, items>>, QueueRows', QuotaOK'
    PROVE  MInv'
BY AnswerFitsM, MReads

LEMMA InsertSuggestionInv ==
    ASSUME MInv, NEW r \in Request, M!InsertSuggestion(r)
    PROVE  MInv'
<1>1. QueueRows'
  <2>1. PICK q : q = mreq[r].to
    OBVIOUS
  <2>2. q \in M!Queued
    BY <2>1 DEF MInv, MRequests, MFits, M!InsertSuggestion, M!Step
  <2>3. queue' = [queue EXCEPT ![q] = @ + 1]
    BY <2>1 DEF M!InsertSuggestion, M!Enqueue
  <2> QED BY <2>2, <2>3 DEF MInv, QueueRows
<1>2. QuotaOK'
  BY DEF MInv, QuotaOK, M!InsertSuggestion
<1> QED BY <1>1, <1>2, MIdleInv DEF M!InsertSuggestion

\* No request changes.
LEMMA MStay ==
    ASSUME MInv, UNCHANGED <<nodes, items, mreq>>, QueueRows', QuotaOK'
    PROVE  MInv'
<1>1. NodeRows' /\ ItemRows' /\ M!PublishedHasDate'
  BY DEF MInv, NodeRows, ItemRows, M!Present, M!Stored, M!PublishedHasDate, M!IsPublished
<1>2. \A p : MFits(p) => MFits(p)'
  <2>1. \A p : ItemDateStays(p)
    BY DEF ItemDateStays
  <2> QED BY <2>1, NodesKept, FitsKeptM
<1>3. MRequests'
  <2>1. ASSUME NEW p \in Request PROVE MFits(mreq[p])'
    <3>1. PICK x : x = mreq[p]
      OBVIOUS
    <3>2. MFits(x)' /\ x = mreq'[p]
      BY <1>2, <3>1 DEF MInv, MRequests
    <3> QED BY <3>2
  <2> QED BY <2>1 DEF MInv, MRequests
<1> QED BY <1>1, <1>3 DEF MInv

LEMMA LastSecondInv ==
    ASSUME MInv, M!LastSecond
    PROVE  MInv'
<1>1. QueueRows' /\ UNCHANGED <<nodes, items, mreq>>
  BY DEF MInv, QueueRows, M!LastSecond
<1>2. QuotaOK'
  BY DEF MInv, QuotaOK, M!LastSecond
<1> QED BY <1>1, <1>2, MStay

LEMMA ImportQuestionsInv ==
    ASSUME MInv, NEW r \in Request, M!ImportQuestions(r)
    PROVE  MInv'
<1>1. QueueRows'
  BY DEF MInv, QueueRows, M!ImportQuestions, M!Enqueue
<1>2. QuotaOK'
  BY DEF MInv, QuotaOK, M!ImportQuestions
<1> QED BY <1>1, <1>2, MStay DEF M!ImportQuestions

LEMMA DeleteQueuedInv ==
    ASSUME MInv, NEW r \in Request, M!DeleteQueued(r)
    PROVE  MInv'
<1>1. QueueRows'
  BY DEF MInv, QueueRows, M!DeleteQueued
<1>2. QuotaOK'
  BY DEF MInv, QuotaOK, M!DeleteQueued
<1> QED BY <1>1, <1>2, MStay DEF M!DeleteQueued

-----------------------------------------------------------------------------
LEMMA MInit == M!Init => MInv
<1> SUFFICES ASSUME M!Init PROVE MInv
  OBVIOUS
<1>1. /\ nodes = KeptMatrix.nodes /\ items = KeptMatrix.items /\ queue = KeptMatrix.queue
      /\ quota = 0 /\ accepted = 0 /\ ending = FALSE
      /\ mreq = [r \in Request |-> M!Idle]
  BY DEF M!Init, Request, M!Request
<1>2. NodeRows
  BY <1>1, KeptMatrixAssumption DEF NodeRows, M!Present
<1>3. ItemRows
  BY <1>1, KeptMatrixAssumption DEF ItemRows, M!Stored, M!Present
<1>4. QueueRows /\ QuotaOK
  <2>1. DailyLimit \in Nat
    BY SiteAssumption
  <2>2. quota \in Nat /\ accepted \in Nat /\ accepted <= quota /\ accepted <= DailyLimit
    BY <1>1, <2>1
  <2>3. ending \in BOOLEAN
    BY <1>1, Zenon
  <2>4. QuotaOK
    BY <2>2, <2>3 DEF QuotaOK
  <2>5. KeptMatrix.queue \in [M!Queued -> Nat]
    BY KeptMatrixAssumption
  <2> QED BY <1>1, <2>4, <2>5 DEF QueueRows
<1>5. M!PublishedHasDate
  BY <1>1, KeptMatrixAssumption DEF M!PublishedHasDate, M!IsPublished
<1>6. MRequests
  BY <1>1, AnswerFitsM DEF MRequests
<1> QED BY <1>2, <1>3, <1>4, <1>5, <1>6 DEF MInv

LEMMA MStep ==
    ASSUME MInv, NEW r \in Request, calls \in 0..MaxCalls, M!Start(r) \/ M!Continue(r)
    PROVE  MInv'
<1>1. CASE M!StartItem(r)
  BY <1>1, CreateItemInv, CreateItemFromQueueInv, OpenItemInv, DeleteItemInv, CheckReadyInv,
     LoadForDraftInv DEF M!StartItem
<1>2. CASE M!StartStructure(r)
  BY <1>2, CheckNodeInv, CheckOrderInv DEF M!StartStructure
<1>3. CASE M!StartQueue(r)
  BY <1>3, CheckSuggestionInv, ImportQuestionsInv, DeleteQueuedInv DEF M!StartQueue
<1>4. M!Abort(r) => MInv'
  BY MIdleInv, CountsStay DEF M!Abort
<1>5. CASE M!Continue(r)
  BY <1>4, <1>5, LoadForUpdateInv, SaveItemInv, LoadItemStatusInv, InsertNodeInv, SaveOrderInv,
     ConsumeQuotaInv, InsertSuggestionInv DEF M!Continue
<1> QED BY <1>1, <1>2, <1>3, <1>5 DEF M!Start

-----------------------------------------------------------------------------
(* The invariant.                                                           *)

\* A response, stored or in hand, says what its address shows, or is late, or is about to
\* be invalidated; and it shows no question that was not ready.
CopyOK(c) ==
    c # None =>
       /\ c = [answer |-> c.answer, late |-> c.late]
       /\ c.answer # View(address) => c.late \/ Pending
       /\ domain = "matrix" => \A q \in M!QuestionsIn(address, c.answer) : q.ready

\* Nothing is in hand before an address is looked at.
HandOK(h) ==
    /\ h = [job |-> h.job, at |-> h.at, copy |-> h.copy]
    /\ h.job \in C!Job \cup {None} /\ h.at \in {"idle", "store", "details", "write"}
    /\ CopyOK(h.copy)
    /\ address = None => h.copy = None

AddressOK ==
    /\ domain \in {"articles", "matrix"} /\ calls \in 0..MaxCalls
    /\ address # None => address \in Address /\ address.domain = domain
    /\ address = None => entry = None

OperationOK ==
    /\ op \in C!Status \cup {None} /\ task \in BOOLEAN
    /\ asking \in {"sent", "lost", None} /\ faults \in 0..MaxFaults

HandsOK == DOMAIN hand = Filler /\ \A f \in Filler : HandOK(hand[f])

CInv == AddressOK /\ OperationOK /\ CopyOK(entry) /\ HandsOK

IInv == AInv /\ MInv /\ CInv

-----------------------------------------------------------------------------
(* What a request does to what the public addresses show.                   *)

\* A step of a request about articles either is a commit, after which the invalidation is
\* to come, or leaves what is shown as it is.
LEMMA ArticlesQuiet ==
    ASSUME AInv, NEW r \in Request, A!Start(r) \/ A!Continue(r)
    PROVE  /\ areq[r].at # "committed" /\ \A p \in Request \ {r} : areq'[p] = areq[p]
           /\ areq'[r].at = "committed" \/ UNCHANGED <<articles, folders, tags>>
           /\ calls' \in {r, calls}
<1> DEFINE Good == /\ areq[r].at # "committed" /\ \A p \in Request \ {r} : areq'[p] = areq[p]
                   /\ areq'[r].at = "committed" \/ UNCHANGED <<articles, folders, tags>>
                   /\ calls' \in {r, calls}
<1>1. DOMAIN areq = Request
  BY DEF AInv, ARequests
<1>2. A!Begin(r) => areq[r].at # "committed" /\ calls' = r
  BY DEF A!Begin, A!Idle
<1>3. A!Commit(r) => areq'[r].at = "committed" /\ \A p \in Request \ {r} : areq'[p] = areq[p]
  BY <1>1 DEF A!Commit, A!Idle
<1>4. \A at, on, to, seen : A!Holds(r, at, on, to, seen) => \A p \in Request \ {r} : areq'[p] = areq[p]
  BY <1>1 DEF A!Holds
<1>5. CASE A!StartArticle(r)
  BY <1>2, <1>3, <1>4, <1>5
     DEF A!StartArticle, A!CreateArticle, A!OpenEditor, A!DeleteArticle, A!LoadForStatus, A!Once
<1>6. CASE A!StartTag(r)
  BY <1>2, <1>3, <1>4, <1>6 DEF A!StartTag, A!CreateTag, A!LoadTag, A!DeleteTag, A!Once
<1>7. CASE A!StartFolder(r) \/ A!FindPublished(r)
  BY <1>2, <1>4, <1>7 DEF A!StartFolder, A!CheckFolder, A!CheckFolderOrder, A!FindPublished
<1>8. CASE A!UpdateArticle(r) \/ A!SaveStatus(r) \/ A!SaveTag(r) \/ A!InsertFolder(r) \/ A!SaveFolderOrder(r)
  BY <1>3, <1>8 DEF A!UpdateArticle, A!SaveStatus, A!SaveTag, A!InsertFolder, A!SaveFolderOrder, A!Step
<1>9. CASE A!LockVote(r) \/ A!CommitVote(r) \/ A!Abort(r)
  BY <1>1, <1>4, <1>9 DEF A!LockVote, A!CommitVote, A!Abort, A!Step
<1> QED BY <1>5, <1>6, <1>7, <1>8, <1>9 DEF A!Start, A!Continue

\* So does a step about the matrix, but for a new row of the structure, under which nothing
\* is filed yet.
LEMMA MatrixQuiet ==
    ASSUME MInv, NEW r \in Request, M!Start(r) \/ M!Continue(r)
    PROVE  /\ mreq[r].at # "committed" /\ \A p \in Request \ {r} : mreq'[p] = mreq[p]
           /\ mreq'[r].at = "committed" \/ UNCHANGED <<nodes, items>> \/ M!InsertNode(r)
           /\ calls' \in {r, calls}
<1>1. DOMAIN mreq = Request
  BY DEF MInv, MRequests
<1>2. M!Begin(r) => mreq[r].at # "committed" /\ calls' = r
  BY DEF M!Begin, M!Idle
<1>3. M!Commit(r) => mreq'[r].at = "committed" /\ \A p \in Request \ {r} : mreq'[p] = mreq[p]
  BY <1>1 DEF M!Commit, M!Idle
<1>4. \A at, on, to, seen : M!Holds(r, at, on, to, seen) => \A p \in Request \ {r} : mreq'[p] = mreq[p]
  BY <1>1 DEF M!Holds
<1>5. CASE M!StartItem(r)
  BY <1>2, <1>3, <1>4, <1>5 DEF M!StartItem, M!CreateItem, M!CreateItemFromQueue, M!OpenEditor,
     M!DeleteItem, M!CheckReady, M!LoadForDraft, M!Once
<1>6. CASE M!StartStructure(r) \/ M!StartQueue(r)
  BY <1>2, <1>4, <1>6 DEF M!StartStructure, M!StartQueue, M!CheckNode, M!CheckOrder,
     M!CheckSuggestion, M!ImportQuestions, M!DeleteQueued
<1>7. CASE M!LoadForUpdate(r) \/ M!SaveItem(r) \/ M!LoadForStatus(r) \/ M!SaveOrder(r)
  BY <1>3, <1>4, <1>7 DEF M!LoadForUpdate, M!SaveItem, M!LoadForStatus, M!SaveOrder, M!Step
<1>8. CASE M!InsertNode(r) \/ M!ConsumeQuota(r) \/ M!InsertSuggestion(r) \/ M!Abort(r)
  BY <1>1, <1>4, <1>8 DEF M!InsertNode, M!ConsumeQuota, M!InsertSuggestion, M!Abort, M!Step
<1> QED BY <1>5, <1>6, <1>7, <1>8 DEF M!Start, M!Continue

\* An order of siblings looks at their priorities only.
LEMMA SameOrder ==
    ASSUME NEW S, \A n \in S : nodes'[n] = nodes[n]
    PROVE  M!InOrder(S)' = M!InOrder(S)
<1>1. [n \in S |-> nodes'[n].priority] = [n \in S |-> nodes[n].priority]
  OBVIOUS
<1> QED BY <1>1 DEF M!InOrder

\* The rows above a question are stored.
LEMMA ChainPresent ==
    ASSUME MInv, NEW i \in M!Stored
    PROVE  /\ items[i].sub \in M!Present
           /\ nodes[items[i].sub].parent \in M!Present
           /\ M!SheetOf(i) \in M!Present
<1>1. items[i].sub \in Subsection \cap M!Present
  BY StoredItem DEF M!Row
<1>2. nodes[items[i].sub].parent \in Section \cap M!Present
  BY <1>1 DEF MInv, NodeRows
<1>3. nodes[nodes[items[i].sub].parent].parent \in Sheet \cap M!Present
  BY <1>2 DEF MInv, NodeRows
<1> QED BY <1>1, <1>2, <1>3 DEF M!SheetOf

\* The order of subsections by their sections depends on the rows of both.
LEMMA SameStructure ==
    ASSUME MInv, UNCHANGED items, \A n \in M!Present : nodes'[n] = nodes[n],
           NEW shown \in SUBSET M!Stored
    PROVE  M!InStructure(shown)' = M!InStructure(shown)
<1>1. PICK subs : subs = {items[i].sub : i \in shown}
  OBVIOUS
<1>2. \A n \in subs : n \in M!Present /\ nodes[n].parent \in M!Present /\ nodes'[n] = nodes[n]
  BY <1>1, ChainPresent
<1>3. PICK above : above = {nodes[n].parent : n \in subs}
  OBVIOUS
<1>4. above = {nodes'[n].parent : n \in subs}
  BY <1>2, <1>3
<1>5. \A n \in above : nodes'[n] = nodes[n]
  BY <1>2, <1>3
<1>6. PICK sections : sections = M!InOrder(above)
  OBVIOUS
<1>7. M!InOrder(above)' = sections
  BY <1>5, <1>6, SameOrder
<1>8. ASSUME NEW section
      PROVE  M!InOrder({n \in subs : nodes[n].parent = section})' = M!InOrder({n \in subs : nodes[n].parent = section})
  <2>1. PICK S : S = {n \in subs : nodes[n].parent = section}
    OBVIOUS
  <2>2. S = {n \in subs : nodes'[n].parent = section} /\ \A n \in S : nodes'[n] = nodes[n]
    BY <1>2, <2>1
  <2>3. M!InOrder(S)' = M!InOrder(S)
    BY <2>2, SameOrder
  <2> QED BY <2>1, <2>2, <2>3
<1>9. PICK groups : groups = [k \in DOMAIN sections |->
                                 M!InOrder({n \in subs : nodes[n].parent = sections[k]})]
  OBVIOUS
<1>10. groups = [k \in DOMAIN sections |-> M!InOrder({n \in subs : nodes[n].parent = sections[k]})']
  BY <1>8, <1>9
<1>11. PICK listed : listed = M!FlattenSeq(groups)
  OBVIOUS
<1>12. M!InStructure(shown) =
         [k \in DOMAIN listed |-> {M!Shown(i) : i \in {j \in shown : items[j].sub = listed[k]}}]
  BY <1>1, <1>3, <1>6, <1>9, <1>11 DEF M!InStructure
<1>13. M!InStructure(shown)' =
         [k \in DOMAIN listed |-> {M!Shown(i)' : i \in {j \in shown : items'[j].sub = listed[k]}}]
  <2>1. subs = {items'[i].sub : i \in shown}
    BY <1>1
  <2>2. sections = M!InOrder({nodes[n].parent : n \in subs})'
    BY <1>4, <1>7
  <2> QED BY <2>1, <2>2, <1>10, <1>11 DEF M!InStructure
<1>14. \A i : M!Shown(i)' = M!Shown(i)
  BY DEF M!Shown
<1> QED BY <1>12, <1>13, <1>14

\* What is shown of the matrix depends on the questions and on the rows above them.
LEMMA SameMatrix ==
    ASSUME MInv, UNCHANGED items, \A n \in M!Present : nodes'[n] = nodes[n], NEW addr
    PROVE  M!View(addr)' = M!View(addr)
<1>1. ASSUME NEW i \in M!Stored
      PROVE  /\ nodes'[items[i].sub] = nodes[items[i].sub]
             /\ nodes'[nodes[items[i].sub].parent] = nodes[nodes[items[i].sub].parent]
             /\ nodes'[M!SheetOf(i)] = nodes[M!SheetOf(i)]
  BY <1>1, ChainPresent
<1>2. \A i \in M!Stored : M!SheetOf(i)' = M!SheetOf(i)
  BY <1>1 DEF M!SheetOf
<1>3. \A i : /\ M!IsPublished(i)' = M!IsPublished(i) /\ M!IsAvailable(i)' = M!IsAvailable(i)
             /\ M!Shown(i)' = M!Shown(i)
  BY DEF M!IsPublished, M!IsAvailable, M!IsReady, M!Shown
<1>4. \A i \in Item : M!IsPublished(i) => i \in M!Stored
  BY DEF M!IsPublished, M!Stored
<1>5. M!Sheets' = M!Sheets
  <2> DEFINE sheets == {M!SheetOf(i) : i \in {j \in Item : M!IsPublished(j)}}
  <2>1. sheets' = sheets
    BY <1>2, <1>3, <1>4
  <2>2. sheets \subseteq M!Present
    BY <1>4, ChainPresent
  <2>3. \A n \in sheets : nodes'[n] = nodes[n]
    BY <2>2
  <2> HIDE DEF sheets
  <2>4. M!InOrder(sheets)' = M!InOrder(sheets)
    <3>1. PICK S : S = sheets
      OBVIOUS
    <3>2. M!InOrder(S)' = M!InOrder(S)
      BY <2>3, <3>1, SameOrder
    <3> QED BY <2>1, <3>1, <3>2
  <2> QED BY <2>4 DEF M!Sheets, sheets
<1>6. ASSUME NEW sheet PROVE M!OnlyAvailable(sheet)' = M!OnlyAvailable(sheet)
  BY <1>2, <1>3, <1>4 DEF M!OnlyAvailable, M!IsAvailable
<1>7. ASSUME NEW shown \in SUBSET M!Stored PROVE M!InStructure(shown)' = M!InStructure(shown)
  BY <1>7, SameStructure
<1>8. ASSUME NEW slug PROVE M!Detail(slug)' = M!Detail(slug)
  BY <1>3 DEF M!Detail
<1>9. M!InStructure(M!OnlyAvailable(addr.arg))' = M!InStructure(M!OnlyAvailable(addr.arg))
  <2>1. PICK shown : shown = M!OnlyAvailable(addr.arg)
    OBVIOUS
  <2>2. shown \in SUBSET M!Stored
    BY <1>4, <2>1 DEF M!OnlyAvailable, M!IsAvailable
  <2>3. M!InStructure(shown)' = M!InStructure(shown)
    BY <1>7, <2>2
  <2>4. M!OnlyAvailable(addr.arg)' = shown
    BY <1>6, <2>1
  <2> QED BY <2>1, <2>3, <2>4
<1> QED BY <1>5, <1>8, <1>9 DEF M!View

-----------------------------------------------------------------------------
(* What the cache holds.                                                    *)

\* An answer shows questions that are ready.
LEMMA AnswerReady ==
    ASSUME NEW addr \in Address, addr.domain = "matrix", M!View(addr) # None,
           NEW q \in M!QuestionsIn(addr, M!View(addr))
    PROVE  q.ready
<1>1. addr.kind \in {"sheets", "items", "item"}
  BY SiteAssumption
<1>2. CASE addr.kind = "sheets"
  BY <1>2 DEF M!QuestionsIn
<1>3. CASE addr.kind = "items"
  <2>1. PICK shown : shown = M!OnlyAvailable(addr.arg)
    OBVIOUS
  <2>2. PICK answer : answer = M!InStructure(shown)
    OBVIOUS
  <2>3. q \in UNION M!Range(answer)
    BY <1>3, <2>1, <2>2 DEF M!QuestionsIn, M!View
  <2>4. PICK k \in DOMAIN answer : q \in answer[k]
    BY <2>3 DEF M!Range
  <2>5. PICK i \in shown : q = M!Shown(i)
    BY <2>2, <2>4 DEF M!InStructure
  <2> QED BY <2>1, <2>5 DEF M!OnlyAvailable, M!IsAvailable, M!IsReady, M!Shown
<1>4. CASE addr.kind = "item"
  <2>1. q \in M!Detail(addr.arg) /\ M!Detail(addr.arg) # None
    BY <1>4 DEF M!QuestionsIn, M!View
  <2>2. PICK i \in Item : M!IsAvailable(i) /\ q = M!Shown(i)
    BY <2>1 DEF M!Detail
  <2> QED BY <2>2 DEF M!IsAvailable, M!IsReady, M!Shown
<1> QED BY <1>1, <1>2, <1>3, <1>4

\* A copy stays good while the answer stays, or the change is marked by a commit.
LEMMA CopyKept ==
    ASSUME NEW c, CopyOK(c), UNCHANGED <<domain, address>>,
           Pending' \/ (~ Pending /\ View(address)' = View(address))
    PROVE  CopyOK(c)'
<1>1. (c.answer # View(address) => c.late \/ Pending) => (c.answer # View(address)' => c.late \/ Pending')
  OBVIOUS
<1> QED BY <1>1 DEF CopyOK

\* So it does when nothing is committed.
LEMMA CacheKept ==
    ASSUME CInv, UNCHANGED <<cacheVars, domain, address>>, calls' \in 0..MaxCalls,
           Pending' \/ (~ Pending /\ View(address)' = View(address))
    PROVE  CInv'
<1>1. entry' = entry /\ hand' = hand /\ op' = op /\ task' = task /\ asking' = asking /\ faults' = faults
      /\ domain' = domain /\ address' = address
  BY DEF cacheVars
<1>2. AddressOK'
  BY <1>1 DEF CInv, AddressOK
<1>3. OperationOK'
  BY <1>1 DEF CInv, OperationOK, C!Status
<1>4. \A c : CopyOK(c) => CopyOK(c)'
  BY <1>1, CopyKept
<1>5. CopyOK(entry)'
  <2>1. PICK c : c = entry
    OBVIOUS
  <2>2. CopyOK(c)' /\ c = entry'
    BY <1>1, <1>4, <2>1 DEF CInv
  <2> QED BY <2>2
<1>6. \A h : HandOK(h) => HandOK(h)'
  BY <1>1, <1>4 DEF HandOK, C!Job
<1>7. HandsOK'
  <2>1. ASSUME NEW f \in Filler PROVE HandOK(hand[f])'
    <3>1. PICK h : h = hand[f]
      OBVIOUS
    <3>2. HandOK(h)' /\ h = hand'[f]
      BY <1>1, <1>6, <3>1 DEF CInv, HandsOK
    <3> QED BY <3>2
  <2> QED BY <1>1, <2>1 DEF CInv, HandsOK
<1> QED BY <1>2, <1>3, <1>5, <1>7 DEF CInv

\* The answers to the articles' addresses are made of articles, folders and tags.
LEMMA SameArticles ==
    ASSUME UNCHANGED <<articles, folders, tags>>, NEW addr
    PROVE  A!View(addr)' = A!View(addr)
BY DEF A!View, A!Detail, A!Public, A!IsAvailable, A!Shown, A!TagSlugs, A!TaggedWith, A!TagsInUse,
       A!Tree, A!Precedes, A!Present

\* A request about articles leaves the cache consistent.
LEMMA ArticlesCache ==
    ASSUME AInv, CInv, NEW r \in Request, OnArticles, A!Start(r) \/ A!Continue(r)
    PROVE  CInv'
<1>1. /\ areq[r].at # "committed" /\ \A p \in Request \ {r} : areq'[p] = areq[p]
      /\ areq'[r].at = "committed" \/ UNCHANGED <<articles, folders, tags>>
      /\ calls' \in {r, calls}
  BY ArticlesQuiet
<1>2. domain = "articles" /\ UNCHANGED <<matrixRows, cacheVars, domain, address>> /\ mreq' = mreq
  BY DEF OnArticles, matrixRows
<1>3. calls' \in 0..MaxCalls
  BY <1>1 DEF CInv, AddressOK, Request
<1>4. Pending => Pending'
  BY <1>1, <1>2 DEF Pending
<1>5. areq'[r].at = "committed" => Pending'
  BY DEF Pending
<1>6. UNCHANGED <<articles, folders, tags>> => View(address)' = View(address)
  <2> SUFFICES ASSUME UNCHANGED <<articles, folders, tags>> PROVE View(address)' = View(address)
    OBVIOUS
  <2>1. PICK addr : addr = address
    OBVIOUS
  <2>2. A!View(addr)' = A!View(addr)
    BY SameArticles
  <2> QED BY <1>2, <2>1, <2>2 DEF View
<1> QED BY <1>1, <1>2, <1>3, <1>4, <1>5, <1>6, CacheKept

\* So does one about the matrix.
LEMMA MatrixCache ==
    ASSUME MInv, CInv, NEW r \in Request, OnMatrix, M!Start(r) \/ M!Continue(r)
    PROVE  CInv'
<1>1. /\ mreq[r].at # "committed" /\ \A p \in Request \ {r} : mreq'[p] = mreq[p]
      /\ mreq'[r].at = "committed" \/ UNCHANGED <<nodes, items>> \/ M!InsertNode(r)
      /\ calls' \in {r, calls}
  BY MatrixQuiet
<1>2. domain = "matrix" /\ UNCHANGED <<articleRows, cacheVars, domain, address>> /\ areq' = areq
  BY DEF OnMatrix, articleRows
<1>3. calls' \in 0..MaxCalls
  BY <1>1 DEF CInv, AddressOK, Request
<1>4. Pending => Pending'
  BY <1>1, <1>2 DEF Pending
<1>5. mreq'[r].at = "committed" => Pending'
  BY DEF Pending
<1>6. M!InsertNode(r) => UNCHANGED items /\ \A n \in M!Present : nodes'[n] = nodes[n]
  BY DEF MInv, NodeRows, M!InsertNode, M!Present
<1>7. UNCHANGED <<nodes, items>> \/ M!InsertNode(r) => View(address)' = View(address)
  <2> SUFFICES ASSUME UNCHANGED <<nodes, items>> \/ M!InsertNode(r) PROVE View(address)' = View(address)
    OBVIOUS
  <2>1. PICK addr : addr = address
    OBVIOUS
  <2>2. M!View(addr)' = M!View(addr)
    BY <1>6, SameMatrix
  <2> QED BY <1>2, <2>1, <2>2 DEF View
<1> QED BY <1>1, <1>2, <1>3, <1>4, <1>5, <1>7, CacheKept

LEMMA ContentStays ==
    ASSUME ContentKept
    PROVE  (\A addr : View(addr)' = View(addr)) /\ Pending' = Pending
<1>1. /\ UNCHANGED <<articles, folders, tags, areq>> /\ UNCHANGED <<nodes, items, mreq>> /\ UNCHANGED domain
  BY DEF ContentKept, articleRows, matrixRows
<1>2. ASSUME NEW addr PROVE M!View(addr)' = M!View(addr)
  BY <1>1 DEF M!View, M!Sheets, M!InOrder, M!SheetOf, M!InStructure, M!OnlyAvailable, M!Detail,
     M!IsAvailable, M!IsPublished, M!IsReady, M!Shown
<1>3. ASSUME NEW addr PROVE View(addr)' = View(addr)
  BY <1>1, <1>2, SameArticles DEF View
<1>4. Pending' = Pending
  BY <1>1 DEF Pending
<1> QED BY <1>3, <1>4

\* A response or a task takes or gives back what it has computed; the first of them chooses
\* the address.
LEMMA FillStep ==
    ASSUME CInv, ContentKept, UNCHANGED calls, OperationOK',
           \/ address' = address
           \/ address = None /\ address' \in Address /\ address'.domain = domain,
           NEW f \in Filler, NEW h, hand' = [hand EXCEPT ![f] = h], HandOK(h)',
           entry' = entry \/ entry' = hand[f].copy
    PROVE  CInv'
<1> USE DEF CInv
<1>1. UNCHANGED domain /\ Pending' = Pending /\ \A addr : View(addr)' = View(addr)
  BY ContentStays DEF ContentKept
<1>2. \A g \in Filler : hand'[g] = IF g = f THEN h ELSE hand[g]
  BY DEF HandsOK
<1>3. address = None => entry = None /\ \A g \in Filler : hand[g].copy = None
  BY DEF AddressOK, HandsOK, HandOK
<1>4. AddressOK'
  BY <1>1, <1>3 DEF AddressOK
<1>5. ASSUME NEW c, CopyOK(c), address = None => c = None PROVE CopyOK(c)'
  <2>1. CASE address' = address
    <3>1. View(address)' = View(address)
      <4>1. PICK addr : addr = address
        OBVIOUS
      <4>2. View(addr)' = View(addr)
        BY <1>1
      <4> QED BY <2>1, <4>1, <4>2
    <3> QED BY <1>1, <1>5, <2>1, <3>1 DEF CopyOK
  <2>2. CASE address = None
    BY <1>5, <2>2 DEF CopyOK
  <2> QED BY <2>1, <2>2
<1>6. CopyOK(entry)'
  <2>1. PICK c : c = entry'
    OBVIOUS
  <2>2. CopyOK(c) /\ (address = None => c = None)
    BY <1>3, <2>1 DEF HandsOK, HandOK
  <2>3. CopyOK(c)'
    BY <1>5, <2>2
  <2> QED BY <2>1, <2>3
<1>7. ASSUME NEW g \in Filler PROVE HandOK(hand[g])'
  <2>1. PICK x : x = hand'[g]
    OBVIOUS
  <2>2. CASE g = f
    BY <1>2, <2>2
  <2>3. CASE g # f
    <3>1. x = hand[g] /\ HandOK(x) /\ (address = None => x.copy = None)
      BY <1>2, <2>1, <2>3 DEF HandsOK, HandOK
    <3>2. PICK c : c = x.copy
      OBVIOUS
    <3>3. CopyOK(c)
      BY <3>1, <3>2 DEF HandOK
    <3>4. CopyOK(c)'
      BY <1>5, <3>1, <3>2, <3>3
    <3>5. address' = None => x.copy = None
      BY <3>1
    <3>6. HandOK(x)'
      BY <3>1, <3>2, <3>4, <3>5 DEF HandOK, C!Job
    <3> QED BY <2>1, <3>6
  <2> QED BY <2>2, <2>3
<1>8. HandsOK'
  BY <1>7 DEF HandsOK
<1> QED BY <1>4, <1>6, <1>8

\* A hand that holds nothing.
LEMMA EmptyHand ==
    ASSUME NEW h, h = [job |-> h.job, at |-> h.at, copy |-> None],
           h.job \in C!Job \cup {None}, h.at \in {"idle", "store", "details", "write"}
    PROVE  HandOK(h)'
BY DEF HandOK, CopyOK, C!Job

\* A hand that holds the present answer.
LEMMA FreshHand ==
    ASSUME CInv, ContentKept, NEW addr \in Address, addr.domain = domain, address' = addr,
           View(addr) # None, NEW h,
           h = [job |-> h.job, at |-> h.at, copy |-> C!Copy(View(addr))],
           h.job \in C!Job \cup {None}, h.at \in {"idle", "store", "details", "write"}
    PROVE  HandOK(h)'
<1>1. PICK c : c = C!Copy(View(addr))
  OBVIOUS
<1>2. c = [answer |-> c.answer, late |-> c.late] /\ c.answer = View(addr)
  BY <1>1 DEF C!Copy
<1>3. View(address)' = View(addr) /\ UNCHANGED domain
  <2>1. View(addr)' = View(addr)
    BY ContentStays
  <2> QED BY <2>1 DEF ContentKept
<1>4. domain = "matrix" => \A q \in M!QuestionsIn(addr, c.answer) : q.ready
  <2> SUFFICES ASSUME domain = "matrix" PROVE \A q \in M!QuestionsIn(addr, c.answer) : q.ready
    OBVIOUS
  <2>1. View(addr) = M!View(addr)
    BY DEF View
  <2> QED BY <1>2, <2>1, AnswerReady
<1>5. M!QuestionsIn(address, c.answer)' = M!QuestionsIn(addr, c.answer)
  BY DEF M!QuestionsIn
<1>6. CopyOK(c)'
  BY <1>2, <1>3, <1>4, <1>5 DEF CopyOK
<1>7. addr # None
  BY DEF View
<1> QED BY <1>1, <1>6, <1>7 DEF HandOK, C!Job

LEMMA OperationStays ==
    ASSUME CInv, UNCHANGED <<op, task, asking, faults>>
    PROVE  OperationOK'
BY DEF CInv, OperationOK, C!Status

\* The address looked at is one of the domain whose content changes.
LEMMA WatchedAddress ==
    ASSUME CInv, NEW addr \in Watched, address' = addr
    PROVE  /\ addr \in Address /\ addr.domain = domain
           /\ \/ address' = address
              \/ address = None /\ address' \in Address /\ address'.domain = domain
BY DEF CInv, AddressOK, Watched

LEMMA ComputeInv ==
    ASSUME CInv, NEW f \in Filler, Compute(f)
    PROVE  CInv'
<1>1. PICK addr \in Watched :
        address' = addr /\ (CacheAt(addr)!Read(f) \/ CacheAt(addr)!StartWarm(f))
  BY DEF Compute
<1>2. ContentKept /\ UNCHANGED calls
  BY DEF Compute
<1>3. PICK h : /\ h = [job |-> h.job, at |-> h.at, copy |-> C!Copy(View(addr))]
               /\ h.job \in C!Job \cup {None} /\ h.at \in {"idle", "store", "details", "write"}
               /\ hand' = [hand EXCEPT ![f] = h]
  <2>1. CASE CacheAt(addr)!Read(f)
    <3>1. hand' = [hand EXCEPT ![f] = [job |-> "read", at |-> "store", copy |-> C!Copy(View(addr))]]
      BY <2>1 DEF CacheAt!Read, CacheAt!Copy, C!Copy
    <3>2. PICK h : h = [job |-> "read", at |-> "store", copy |-> C!Copy(View(addr))]
      OBVIOUS
    <3>3. h = [job |-> h.job, at |-> h.at, copy |-> C!Copy(View(addr))] /\ h.job = "read" /\ h.at = "store"
      BY <3>2
    <3> QED BY <3>1, <3>2, <3>3 DEF C!Job
  <2>2. CASE CacheAt(addr)!StartWarm(f)
    <3>1. PICK at : at = CacheAt(addr)!Collecting
      OBVIOUS
    <3>2. hand' = [hand EXCEPT ![f] = [job |-> "warm", at |-> at, copy |-> C!Copy(View(addr))]]
      BY <2>2, <3>1 DEF CacheAt!StartWarm, CacheAt!Copy, C!Copy
    <3>3. at \in {"details", "write"}
      BY <3>1 DEF CacheAt!Collecting
    <3>4. PICK h : h = [job |-> "warm", at |-> at, copy |-> C!Copy(View(addr))]
      OBVIOUS
    <3>5. h = [job |-> h.job, at |-> h.at, copy |-> C!Copy(View(addr))] /\ h.job = "warm" /\ h.at = at
      BY <3>4
    <3> QED BY <3>2, <3>3, <3>4, <3>5 DEF C!Job
  <2> QED BY <1>1, <2>1, <2>2
<1>4. View(addr) # None /\ UNCHANGED <<entry, op, task, asking, faults>>
  BY <1>1 DEF CacheAt!Read, CacheAt!StartWarm
<1>5. HandOK(h)'
  BY <1>1, <1>2, <1>3, <1>4, WatchedAddress, FreshHand
<1> QED BY <1>1, <1>2, <1>3, <1>4, <1>5, WatchedAddress, OperationStays, FillStep

LEMMA RunWarmInv ==
    ASSUME CInv, NEW f \in Filler, RunWarm(f)
    PROVE  CInv'
<1>1. PICK addr \in Watched : address' = addr /\ CacheAt(addr)!RunManualWarm(f)
  BY DEF RunWarm
<1>2. ContentKept /\ UNCHANGED calls
  BY DEF RunWarm
<1>3. PICK at : at = CacheAt(addr)!Collecting
  OBVIOUS
<1>4. at \in {"details", "write"}
  BY <1>3 DEF CacheAt!Collecting
<1>5. PICK c : c = IF CacheAt(addr)!IsWarmed /\ View(addr) # None THEN C!Copy(View(addr)) ELSE None
  OBVIOUS
<1>6. PICK h : h = [job |-> "manual", at |-> at, copy |-> c]
  OBVIOUS
<1>7. hand' = [hand EXCEPT ![f] = h]
  BY <1>1, <1>3, <1>5, <1>6 DEF CacheAt!RunManualWarm, CacheAt!Copy, C!Copy
<1>8. h = [job |-> h.job, at |-> h.at, copy |-> c] /\ h.job = "manual" /\ h.at = at
  BY <1>6
<1>9. h.job \in C!Job \cup {None} /\ h.at \in {"idle", "store", "details", "write"}
  BY <1>4, <1>8 DEF C!Job
<1>10. HandOK(h)'
  <2>1. CASE View(addr) # None /\ c = C!Copy(View(addr))
    BY <1>1, <1>2, <1>8, <1>9, <2>1, WatchedAddress, FreshHand
  <2>2. CASE c = None
    BY <1>8, <1>9, <2>2, EmptyHand
  <2> QED BY <1>5, <2>1, <2>2
<1>11. UNCHANGED entry /\ op' = "running" /\ task' = FALSE /\ UNCHANGED <<asking, faults>>
  BY <1>1 DEF CacheAt!RunManualWarm
<1>12. OperationOK'
  BY <1>11 DEF CInv, OperationOK, C!Status
<1> QED BY <1>1, <1>2, <1>7, <1>10, <1>11, <1>12, WatchedAddress, FillStep

\* A job that ends.
LEMMA IdleHand == HandOK(C!Idle)'
<1>1. PICK h : h = C!Idle
  OBVIOUS
<1>2. h = [job |-> h.job, at |-> h.at, copy |-> None] /\ h.job = None /\ h.at = "idle"
  BY <1>1 DEF C!Idle
<1>3. HandOK(h)'
  BY <1>2, EmptyHand
<1> QED BY <1>1, <1>3

LEMMA ContinueFillInv ==
    ASSUME CInv, NEW f \in Filler, ContinueFill(f)
    PROVE  CInv'
<1>1. ContentKept /\ UNCHANGED calls /\ address' = address
  BY DEF ContinueFill, OnCache
<1>2. CASE C!StoreRead(f)
  <2>1. hand' = [hand EXCEPT ![f] = C!Idle] /\ entry' = hand[f].copy /\ OperationOK'
    BY <1>2, OperationStays DEF C!StoreRead
  <2> QED BY <1>1, <2>1, IdleHand, FillStep
<1>3. CASE C!ReadDetails(f)
  <2>1. PICK x : x = hand[f]
    OBVIOUS
  <2>2. HandOK(x)
    BY <2>1 DEF CInv, HandsOK
  <2>3. PICK c : c = IF x.copy # None THEN C!Copy(View(address)) ELSE None
    OBVIOUS
  <2>4. PICK h : h = [job |-> x.job, at |-> "write", copy |-> c]
    OBVIOUS
  <2>5. hand' = [hand EXCEPT ![f].at = "write",
                             ![f].copy = IF @ # None THEN C!Copy(View(address)) ELSE @]
    BY <1>3 DEF C!ReadDetails
  <2>6. x = [job |-> x.job, at |-> x.at, copy |-> x.copy] /\ DOMAIN hand = Filler
    BY <2>2 DEF HandOK, CInv, HandsOK
  <2>7. hand' = [hand EXCEPT ![f] = h]
    <3>1. PICK y : y = [x EXCEPT !.at = "write"]
      OBVIOUS
    <3>2. y = [job |-> x.job, at |-> "write", copy |-> x.copy] /\ y.copy = x.copy
      BY <2>6, <3>1
    <3>3. PICK z : z = [y EXCEPT !.copy = c]
      OBVIOUS
    <3>4. z = h
      BY <2>4, <3>2, <3>3
    <3>5. PICK middle : middle = [hand EXCEPT ![f].at = "write"]
      OBVIOUS
    <3>6. middle = [hand EXCEPT ![f] = y] /\ middle[f] = y
      BY <2>1, <2>6, <3>1, <3>5
    <3>7. hand' = [middle EXCEPT ![f].copy = IF @ # None THEN C!Copy(View(address)) ELSE @]
      BY <2>5, <3>5
    <3>8. hand' = [middle EXCEPT ![f] = z]
      BY <2>3, <3>2, <3>3, <3>6, <3>7
    <3> QED BY <2>6, <3>4, <3>6, <3>8
  <2>8. h = [job |-> h.job, at |-> h.at, copy |-> c] /\ h.job = x.job /\ h.at = "write"
    BY <2>4
  <2>9. h.job \in C!Job \cup {None} /\ h.at \in {"idle", "store", "details", "write"}
    BY <2>2, <2>8 DEF HandOK
  <2>10. HandOK(h)'
    <3>1. CASE x.copy # None
      <4>1. View(address) # None
        BY <1>3, <2>1, <3>1 DEF C!ReadDetails
      <4>2. address # None
        BY <2>2, <3>1 DEF HandOK
      <4>3. address \in Address /\ address.domain = domain
        BY <4>2 DEF CInv, AddressOK
      <4>4. PICK addr : addr = address
        OBVIOUS
      <4>5. c = C!Copy(View(addr))
        BY <2>3, <3>1, <4>4
      <4> QED BY <1>1, <2>8, <2>9, <4>1, <4>3, <4>4, <4>5, FreshHand
    <3>2. CASE x.copy = None
      BY <2>3, <2>8, <2>9, <3>2, EmptyHand
    <3> QED BY <3>1, <3>2
  <2>11. UNCHANGED entry /\ OperationOK'
    BY <1>3, OperationStays DEF C!ReadDetails
  <2> QED BY <1>1, <2>7, <2>10, <2>11, FillStep
<1>4. CASE C!WriteTarget(f)
  <2>1. /\ hand' = [hand EXCEPT ![f] = C!Idle] /\ (entry' = entry \/ entry' = hand[f].copy)
        /\ op' \in {op, "succeeded"} /\ UNCHANGED <<task, asking, faults>>
    BY <1>4 DEF C!WriteTarget
  <2>2. OperationOK'
    BY <2>1 DEF CInv, OperationOK, C!Status
  <2> QED BY <1>1, <2>1, <2>2, IdleHand, FillStep
<1>5. CASE C!FailWarm(f)
  <2>1. /\ hand' = [hand EXCEPT ![f] = C!Idle] /\ entry' = entry
        /\ op' \in {op, "failed"} /\ UNCHANGED <<task, asking, faults>>
    BY <1>5 DEF C!FailWarm
  <2>2. OperationOK'
    BY <2>1 DEF CInv, OperationOK, C!Status
  <2> QED BY <1>1, <2>1, <2>2, IdleHand, FillStep
<1> QED BY <1>2, <1>3, <1>4, <1>5 DEF ContinueFill, C!Continue

LEMMA StopWorkerInv ==
    ASSUME CInv, NEW f \in Filler, StopWorker(f)
    PROVE  CInv'
<1>1. ContentKept /\ UNCHANGED calls /\ address' = address
  BY DEF StopWorker, OnCache
<1>2. /\ hand' = [hand EXCEPT ![f] = C!Idle] /\ entry' = entry
      /\ faults < MaxFaults /\ faults' = faults + 1 /\ task' \in BOOLEAN /\ UNCHANGED <<op, asking>>
  BY DEF StopWorker, C!StopWorker
<1>3. OperationOK'
  <2>1. MaxFaults \in Nat /\ faults \in 0..MaxFaults
    BY SiteAssumption DEF CInv, OperationOK
  <2>2. faults' \in 0..MaxFaults
    BY <1>2, <2>1
  <2> QED BY <1>2, <2>2 DEF CInv, OperationOK, C!Status
<1> QED BY <1>1, <1>2, <1>3, IdleHand, FillStep

\* The entry goes away, or nothing but the record of the operation changes.
LEMMA EntryStep ==
    ASSUME CInv, ContentKept, UNCHANGED <<address, hand>>, calls' \in 0..MaxCalls,
           entry' \in {entry, None}, OperationOK'
    PROVE  CInv'
<1> USE DEF CInv
<1>1. UNCHANGED domain /\ Pending' = Pending /\ View(address)' = View(address)
  <2>1. PICK addr : addr = address
    OBVIOUS
  <2>2. View(addr)' = View(addr)
    BY ContentStays
  <2> QED BY <2>1, <2>2, ContentStays DEF ContentKept
<1>2. \A c : CopyOK(c) => CopyOK(c)'
  BY <1>1, CopyKept
<1>3. AddressOK'
  BY <1>1 DEF AddressOK
<1>4. CopyOK(entry)'
  <2>1. PICK c : c = entry'
    OBVIOUS
  <2>2. CopyOK(c)
    BY <2>1 DEF CopyOK
  <2> QED BY <1>2, <2>1, <2>2
<1>5. \A h : HandOK(h) => HandOK(h)'
  BY <1>2 DEF HandOK, C!Job
<1>6. HandsOK'
  <2>1. ASSUME NEW f \in Filler PROVE HandOK(hand[f])'
    <3>1. PICK h : h = hand[f]
      OBVIOUS
    <3>2. HandOK(h)' /\ h = hand'[f]
      BY <1>5, <3>1 DEF HandsOK
    <3> QED BY <3>2
  <2> QED BY <2>1 DEF HandsOK
<1> QED BY <1>3, <1>4, <1>6

\* A copy that is marked late keeps what it says, and needs no other reason.
LEMMA LateOK ==
    ASSUME NEW c, CopyOK(c), UNCHANGED <<domain, address>>
    PROVE  CopyOK(C!Late(c))'
<1>1. CASE c = None
  BY <1>1 DEF CopyOK, C!Late
<1>2. CASE c # None
  <2>1. PICK d : d = [c EXCEPT !.late = TRUE]
    OBVIOUS
  <2>2. d = [answer |-> d.answer, late |-> d.late] /\ d.answer = c.answer /\ d.late = TRUE
    BY <1>2, <2>1 DEF CopyOK
  <2>3. domain' = "matrix" => \A q \in M!QuestionsIn(address', d.answer) : q.ready
    BY <1>2, <2>2 DEF CopyOK, M!QuestionsIn
  <2>4. CopyOK(d)'
    BY <2>2, <2>3 DEF CopyOK, M!QuestionsIn
  <2>5. C!Late(c) = d
    BY <1>2, <2>1 DEF C!Late
  <2> QED BY <2>4, <2>5 DEF CopyOK, C!Late, M!QuestionsIn
<1> QED BY <1>1, <1>2

\* The invalidation, done or lost, marks what it does not delete.
LEMMA AfterCommitCache ==
    ASSUME CInv, NEW r \in Request, AfterCommit(r)
    PROVE  CInv'
<1> USE DEF CInv
<1>1. /\ UNCHANGED <<calls, domain, address>> /\ entry' \in {None, C!Late(entry)}
      /\ hand' = [f \in Filler |-> [hand[f] EXCEPT !.copy = C!Late(@)]]
      /\ UNCHANGED <<op, task, asking>> /\ faults' \in 0..MaxFaults
  <2>1. CASE C!Invalidate
    BY <2>1 DEF AfterCommit, C!Invalidate, OperationOK
  <2>2. CASE C!Miss
    <3>1. MaxFaults \in Nat /\ faults \in 0..MaxFaults
      BY SiteAssumption DEF OperationOK
    <3>2. faults < MaxFaults /\ faults' = faults + 1
      BY <2>2 DEF C!Miss
    <3>3. faults' \in 0..MaxFaults
      BY <3>1, <3>2
    <3> QED BY <2>2, <3>3 DEF AfterCommit, C!Miss
  <2> QED BY <2>1, <2>2 DEF AfterCommit
<1>2. AddressOK'
  BY <1>1 DEF AddressOK, C!Late
<1>3. OperationOK'
  BY <1>1 DEF OperationOK, C!Status
<1>4. CopyOK(entry)'
  <2>1. PICK c : c = entry
    OBVIOUS
  <2>2. CopyOK(C!Late(c))' /\ CopyOK(None)'
    BY <1>1, <2>1, LateOK DEF CopyOK
  <2>3. PICK d : d = C!Late(c)
    OBVIOUS
  <2>4. CopyOK(d)'
    BY <2>2, <2>3 DEF C!Late
  <2> QED BY <1>1, <2>1, <2>2, <2>3, <2>4
<1>5. ASSUME NEW f \in Filler PROVE HandOK(hand[f])'
  <2>1. PICK x : x = hand[f]
    OBVIOUS
  <2>2. HandOK(x)
    BY <2>1 DEF HandsOK
  <2>3. PICK c : c = x.copy
    OBVIOUS
  <2>4. PICK d : d = C!Late(c)
    OBVIOUS
  <2>5. CopyOK(d)'
    <3>1. CopyOK(c)
      BY <2>2, <2>3 DEF HandOK
    <3>2. CopyOK(C!Late(c))'
      BY <1>1, <3>1, LateOK
    <3> QED BY <2>4, <3>2 DEF C!Late
  <2>6. PICK h : h = [x EXCEPT !.copy = d]
    OBVIOUS
  <2>7. /\ h = [job |-> h.job, at |-> h.at, copy |-> h.copy]
        /\ h.job = x.job /\ h.at = x.at /\ h.copy = d
    BY <2>2, <2>6 DEF HandOK
  <2>8. address' = None => d = None
    BY <1>1, <2>2, <2>3, <2>4 DEF HandOK, C!Late
  <2>9. HandOK(h)'
    BY <2>2, <2>5, <2>7, <2>8 DEF HandOK, C!Job
  <2>10. hand'[f] = h
    BY <1>1, <2>1, <2>3, <2>4, <2>6
  <2> QED BY <2>9, <2>10
<1>6. HandsOK'
  BY <1>1, <1>5 DEF HandsOK
<1> QED BY <1>2, <1>3, <1>4, <1>6

-----------------------------------------------------------------------------
(* Every step.                                                              *)

LEMMA InitInv == Init => IInv
<1> SUFFICES ASSUME Init PROVE IInv
  OBVIOUS
<1>1. AInv /\ MInv
  BY AInit, MInit DEF Init
<1>2. /\ domain \in {"articles", "matrix"} /\ address = None /\ calls = 0 /\ entry = None
      /\ hand = [f \in Filler |-> C!Idle]
      /\ op = None /\ task = FALSE /\ asking = None /\ faults = 0
  BY DEF Init, C!Init
<1>3. AddressOK
  BY <1>2, SiteAssumption DEF AddressOK
<1>4. OperationOK
  <2>1. task \in BOOLEAN
    BY <1>2, Zenon
  <2>2. MaxFaults \in Nat
    BY SiteAssumption
  <2> QED BY <1>2, <2>1, <2>2 DEF OperationOK
<1>5. HandOK(C!Idle)
  <2>1. PICK h : h = C!Idle
    OBVIOUS
  <2>2. h = [job |-> h.job, at |-> h.at, copy |-> h.copy] /\ h.copy = None /\ h.job = None /\ h.at = "idle"
    BY <2>1 DEF C!Idle
  <2>3. HandOK(h)
    BY <2>2 DEF HandOK, CopyOK
  <2> QED BY <2>1, <2>3
<1>6. HandsOK /\ CopyOK(entry)
  BY <1>2, <1>5 DEF HandsOK, CopyOK
<1> QED BY <1>1, <1>3, <1>4, <1>6 DEF IInv, CInv

\* The rows are left as they are.
LEMMA ContentKeptInv ==
    ASSUME AInv, MInv, ContentKept
    PROVE  AInv' /\ MInv'
<1>1. UNCHANGED <<articles, folders, tags, votes, said, areq>>
  BY DEF ContentKept, articleRows
<1>2. UNCHANGED <<nodes, items, queue, quota, accepted, ending, mreq>>
  BY DEF ContentKept, matrixRows
<1>3. QueueRows' /\ QuotaOK'
  BY <1>2, CountsStay
<1> QED BY <1>1, <1>2, <1>3, AStay, MStay

LEMMA RequestInv ==
    ASSUME IInv, NEW r \in Request, StartRequest(r) \/ ContinueRequest(r)
    PROVE  IInv'
<1> USE DEF IInv
<1>1. calls \in 0..MaxCalls
  BY DEF CInv, AddressOK
<1>2. CASE OnArticles /\ (A!Start(r) \/ A!Continue(r))
  <2>1. AInv'
    BY <1>1, <1>2, AStep
  <2>2. UNCHANGED <<nodes, items, queue, quota, accepted, ending, mreq>>
    BY <1>2 DEF OnArticles, matrixRows
  <2>3. MInv'
    BY <2>2, CountsStay, MStay
  <2> QED BY <1>2, <2>1, <2>3, ArticlesCache
<1>3. CASE OnMatrix /\ (M!Start(r) \/ M!Continue(r))
  <2>1. MInv'
    BY <1>1, <1>3, MStep
  <2>2. UNCHANGED <<articles, folders, tags, votes, said, areq>>
    BY <1>3 DEF OnMatrix, articleRows
  <2> QED BY <1>3, <2>1, <2>2, AStay, MatrixCache
<1> QED BY <1>2, <1>3 DEF StartRequest, ContinueRequest

LEMMA EndDayInv ==
    ASSUME IInv, EndDay
    PROVE  IInv'
<1> USE DEF IInv
<1>1. /\ OnMatrix /\ M!LastSecond /\ UNCHANGED <<nodes, items, mreq, calls>>
      /\ UNCHANGED <<articles, folders, tags, votes, said, areq>>
  BY DEF EndDay, OnMatrix, articleRows, M!LastSecond
<1>2. Pending' = Pending
  BY <1>1 DEF Pending
<1>3. View(address)' = View(address)
  <2>1. PICK addr : addr = address
    OBVIOUS
  <2>2. M!View(addr)' = M!View(addr)
    BY <1>1, SameMatrix
  <2> QED BY <1>1, <2>1, <2>2 DEF View, OnMatrix
<1>4. CInv'
  <2>1. calls' \in 0..MaxCalls /\ UNCHANGED <<cacheVars, domain, address>>
    BY <1>1 DEF CInv, AddressOK, OnMatrix
  <2> QED BY <1>2, <1>3, <2>1, CacheKept
<1> QED BY <1>1, <1>4, LastSecondInv, AStay

LEMMA AfterCommitInv ==
    ASSUME IInv, NEW r \in Request, AfterCommit(r)
    PROVE  IInv'
<1> USE DEF IInv
<1>1. UNCHANGED <<articles, folders, tags, votes, said>> /\ UNCHANGED <<nodes, items, queue, quota, accepted, ending>>
  BY DEF AfterCommit, RowsKept
<1>2. QueueRows' /\ QuotaOK'
  BY <1>1, CountsStay
<1>3. CASE areq' = [areq EXCEPT ![r] = A!Idle] /\ UNCHANGED mreq
  BY <1>1, <1>2, <1>3, AIdleInv, MStay, AfterCommitCache
<1>4. CASE mreq' = [mreq EXCEPT ![r] = M!Idle] /\ UNCHANGED areq
  BY <1>1, <1>2, <1>4, AStay, MIdleInv, AfterCommitCache
<1> QED BY <1>3, <1>4 DEF AfterCommit, End

LEMMA CacheInv ==
    ASSUME IInv, \/ \E f \in Filler : NotFound(f)
                 \/ EnqueueWarm \/ AnswerEnqueue \/ Expire \/ ExpireOperation \/ Clear
    PROVE  IInv'
<1> USE DEF IInv
<1>1. ContentKept /\ UNCHANGED address
  BY DEF NotFound, EnqueueWarm, AnswerEnqueue, Expire, ExpireOperation, Clear, OnCache
<1>2. UNCHANGED hand /\ entry' \in {entry, None}
  BY DEF NotFound, EnqueueWarm, AnswerEnqueue, Expire, ExpireOperation, Clear, C!OperationNotFound,
     C!EnqueueManualWarm, C!FailToEnqueue, C!EndEnqueue, C!Expire, C!ExpireOperation, C!Clear
<1>3. calls' \in 0..MaxCalls
  <2>1. MaxCalls \in Nat /\ calls \in 0..MaxCalls
    BY SiteAssumption DEF CInv, AddressOK
  <2>2. calls' = calls \/ (calls < MaxCalls /\ calls' = calls + 1)
    BY DEF NotFound, EnqueueWarm, AnswerEnqueue, Expire, ExpireOperation, Clear, OnCache
  <2> QED BY <2>1, <2>2
<1>4. OperationOK'
  <2>1. UNCHANGED faults /\ asking' \in {asking, None, "sent", "lost"}
        /\ op' \in {op, None, "queued", "failed"}
    BY DEF NotFound, EnqueueWarm, AnswerEnqueue, Expire, ExpireOperation, Clear, C!OperationNotFound,
       C!EnqueueManualWarm, C!FailToEnqueue, C!EndEnqueue, C!Expire, C!ExpireOperation, C!Clear
  <2>2. task' \in BOOLEAN
    <3>1. CASE EnqueueWarm
      BY <3>1, Zenon DEF EnqueueWarm, C!EnqueueManualWarm
    <3>2. CASE (\E f \in Filler : NotFound(f)) \/ AnswerEnqueue \/ Expire \/ ExpireOperation \/ Clear
      <4>1. task' = FALSE \/ task' = task
        BY <3>2 DEF NotFound, AnswerEnqueue, Expire, ExpireOperation, Clear, C!OperationNotFound,
           C!FailToEnqueue, C!EndEnqueue, C!Expire, C!ExpireOperation, C!Clear
      <4>2. task \in BOOLEAN
        BY DEF CInv, OperationOK
      <4> QED BY <4>1, <4>2, Zenon
    <3> QED BY <3>1, <3>2
  <2> QED BY <2>1, <2>2 DEF CInv, OperationOK, C!Status
<1> QED BY <1>1, <1>2, <1>3, <1>4, ContentKeptInv, EntryStep

LEMMA NextInv == IInv /\ [Next]_vars => IInv'
<1> SUFFICES ASSUME IInv, [Next]_vars PROVE IInv'
  OBVIOUS
<1>1. CASE UNCHANGED vars
  <2>1. ContentKept /\ UNCHANGED <<cacheVars, calls, address>>
    BY <1>1 DEF vars, ContentKept
  <2>2. calls' \in 0..MaxCalls /\ UNCHANGED <<hand, entry>> /\ OperationOK'
    BY <2>1, OperationStays DEF IInv, CInv, AddressOK, cacheVars
  <2> QED BY <2>1, <2>2, ContentKeptInv, EntryStep DEF IInv
<1>2. ASSUME NEW r \in Request, StartRequest(r) \/ ContinueRequest(r) \/ AfterCommit(r) PROVE IInv'
  BY <1>2, RequestInv, AfterCommitInv
<1>3. ASSUME NEW f \in Filler, Compute(f) \/ RunWarm(f) \/ ContinueFill(f) \/ StopWorker(f) PROVE IInv'
  <2>1. CInv'
    BY <1>3, ComputeInv, RunWarmInv, ContinueFillInv, StopWorkerInv DEF IInv
  <2>2. ContentKept
    BY <1>3 DEF Compute, RunWarm, ContinueFill, StopWorker, OnCache
  <2> QED BY <2>1, <2>2, ContentKeptInv DEF IInv
<1> QED BY <1>1, <1>2, <1>3, EndDayInv, CacheInv DEF Next

-----------------------------------------------------------------------------
(* The theorems.                                                            *)

\* The tables are as the operations leave them, the requests know what they have read, and
\* the cache holds answers that were right when they were computed.
THEOREM SiteInvariant == Spec => []IInv
<1> QED BY InitInv, NextInv, PTL DEF Spec

\* The variables keep their types and the foreign keys hold, among them that no priority is
\* greater than the number of rows there can be: InsertFolder and InsertNode give out the next one.
THEOREM TypeInvariant == Spec => []TypeOK
<1>1. IInv => TypeOK
  <2> SUFFICES ASSUME IInv PROVE TypeOK
    OBVIOUS
  <2> USE DEF IInv
  <2>1. A!TypeOK
    <3>1. A!Present(folders) \subseteq Folder /\ DOMAIN folders = Folder
      BY DEF AInv, FolderRows, A!Present
    <3>2. /\ Cardinality(A!Present(folders)) \in Nat /\ A!Cardinality(Folder) \in Nat
          /\ Cardinality(A!Present(folders)) <= A!Cardinality(Folder)
      BY <3>1, SiteAssumption, SameCount, FS_Subset, FS_CardinalityType
    <3>3. folders \in [Folder -> 1..A!Cardinality(Folder) \cup {None}]
      BY <3>2 DEF AInv, FolderRows
    <3> QED BY <3>3 DEF A!TypeOK, AInv, ARows, VoteRows, ARequests, AFits, Request, A!Request
  <2>2. M!TypeOK
    BY DEF M!TypeOK, MInv, NodeRows, ItemRows, QueueRows, QuotaOK, MRequests, MFits, Request, M!Request
  <2>3. C!TypeOK
    BY DEF C!TypeOK, CInv, OperationOK, HandsOK, HandOK
  <2> QED BY <2>1, <2>2, <2>3 DEF TypeOK
<1> QED BY <1>1, SiteInvariant, PTL

\* What is published has a date, whichever status changes and edits overlapped: a save that
\* leaves the date out has read a row that had one, and no operation takes it away.
THEOREM DatesHold == Spec => []PublishedHasDate
<1>1. IInv => PublishedHasDate
  BY DEF IInv, AInv, MInv, PublishedHasDate
<1> QED BY <1>1, SiteInvariant, PTL

\* The stored reaction is the last one set with success: who reads one under a lock keeps it.
THEOREM VotesStand == Spec => []LastVoteStands
<1>1. IInv => LastVoteStands
  BY DEF IInv, AInv, VoteRows, LastVoteStands, A!LastVoteStands
<1> QED BY <1>1, SiteInvariant, PTL

\* No more suggestions are accepted than the day allows, before its last second begins.
THEOREM LimitHolds == Spec => []SuggestionsWithinLimit
<1>1. IInv => SuggestionsWithinLimit
  BY DEF IInv, MInv, QuotaOK, SuggestionsWithinLimit, M!SuggestionsWithinLimit
<1> QED BY <1>1, SiteInvariant, PTL

\* A response that is not what its address shows is late, or its invalidation is to come:
\* every operation that changes what an address shows is followed by one.
THEOREM StaleForReason == Spec => []StaleHasReason
<1>1. IInv => StaleHasReason
  BY DEF IInv, CInv, CopyOK, StaleHasReason, C!StaleHasReason
<1> QED BY <1>1, SiteInvariant, PTL

\* The cache shows no question that was not ready when the answer was computed.
THEOREM ReadyOnly == Spec => []PublicShowsReady
<1>1. IInv => PublicShowsReady
  BY DEF IInv, CInv, CopyOK, PublicShowsReady
<1> QED BY <1>1, SiteInvariant, PTL
=============================================================================
