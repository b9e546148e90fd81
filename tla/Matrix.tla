-------------------------------- MODULE Matrix --------------------------------
(***************************************************************************)
(* The competency matrix: sheets of sections of subsections, the questions  *)
(* filed under them, and the suggestions of anonymous visitors, under       *)
(* concurrent requests.  What agents do with the queue is MatrixQueue.      *)
(*                                                                         *)
(* As in Articles, an operation is one action for each statement whose       *)
(* result another request can change before the next one uses it.           *)
(***************************************************************************)
EXTENDS SequencesExt

CONSTANTS
    Item, Slug, Question, None,
    Sheet, Section, Subsection,  \* identifiers: numbers, which order siblings of equal priority
    DailyLimit,  \* suggestions of one client in a day
    MaxCalls,    \* bound on the requests of a behaviour
    Kept         \* what the tables hold at the start

Node == Sheet \cup Section \cup Subsection

VARIABLES
    nodes,     \* [parent, priority] of the rows of the structure, None where there is none
    items,     \* the rows, None where there is none
    queue,     \* how often a question is queued for a sheet
    quota,     \* the counter of the client's suggestions today
    accepted,  \* the suggestions it has counted as allowed today
    ending,    \* the last second of the day has begun
    mreq,      \* the requests
    calls      \* the number of the last request, of the clock too

matrixVars == <<nodes, items, queue, quota, accepted, ending, mreq, calls>>

Status  == {"Draft", "Published"}
\* A row of the queue; the sheet is None if it names none or a text that is no sheet's key.
Queued  == [sheet : Sheet \cup {None}, text : Question]
Request == 1..MaxCalls

Idle == [at |-> "idle", on |-> None, to |-> None, seen |-> None]

Stored  == {i \in Item : items[i] # None}
Present == {n \in Node : nodes[n] # None}
Children(parent) == {n \in Present : nodes[n].parent = parent}

-----------------------------------------------------------------------------
(* What the public addresses of the domain show.                            *)

IsReady(i)     == items[i].ready
IsPublished(i) == items[i] # None /\ items[i].status = "Published"
IsAvailable(i) == IsPublished(i) /\ IsReady(i)

SheetOf(i) == nodes[nodes[items[i].sub].parent].parent

\* By priority, and by identifier where that is the same.
SortedBy(priority) ==
    LET precedes(m, n) == priority[m] < priority[n] \/ (priority[m] = priority[n] /\ m < n)
    IN  SetToSortSeq(DOMAIN priority, precedes)
InOrder(siblings) == SortedBy([n \in siblings |-> nodes[n].priority])

Shown(i) == [slug |-> items[i].slug, text |-> items[i].text, ready |-> items[i].ready, sub |-> items[i].sub]

\* A sheet is listed if it has a published question, whether or not it can be shown.
Sheets == InOrder({SheetOf(i) : i \in {j \in Item : IsPublished(j)}})

\* Mutant: what is published is shown.
AllPublished(sheet) == {i \in Item : IsPublished(i) /\ SheetOf(i) = sheet}

OnlyAvailable(sheet) == {i \in Item : IsAvailable(i) /\ SheetOf(i) = sheet}

\* The questions of a sheet by the order of its sections and of their subsections.
InStructure(shown) ==
    LET sectionOf(n) == nodes[n].parent
        subs == {items[i].sub : i \in shown}
        sections == InOrder({sectionOf(n) : n \in subs})
        listed == FlattenSeq([k \in DOMAIN sections |-> InOrder({n \in subs : sectionOf(n) = sections[k]})])
    IN  [k \in DOMAIN listed |-> {Shown(i) : i \in {j \in shown : items[j].sub = listed[k]}}]

Detail(slug) ==
    LET named == {i \in Item : IsAvailable(i) /\ items[i].slug = slug}
    IN  IF named = {} THEN None ELSE {Shown(i) : i \in named}

\* What the handler of an address answers; None is 404.
View(address) ==
    CASE address.kind = "sheets" -> Sheets
      [] address.kind = "items"  -> InStructure(OnlyAvailable(address.arg))
      [] address.kind = "item"   -> Detail(address.arg)

\* The questions an answer shows.
QuestionsIn(address, answer) ==
    CASE address.kind = "sheets" -> {}
      [] address.kind = "items"  -> UNION Range(answer)
      [] address.kind = "item"   -> answer

-----------------------------------------------------------------------------
(* Requests.                                                                *)

Begin(r) == r = calls + 1 /\ mreq[r] = Idle /\ calls' = r
Holds(r, at, on, to, seen) ==
    mreq' = [mreq EXCEPT ![r] = [at |-> at, on |-> on, to |-> to, seen |-> seen]]
Commit(r) == mreq' = [mreq EXCEPT ![r] = [Idle EXCEPT !.at = "committed"]]
Once(r) == Begin(r) /\ Commit(r)
Step(r, at) == mreq[r].at = at /\ UNCHANGED calls

\* A refusal, an error of the database, or a lost connection.
Abort(r) ==
    /\ mreq[r].at \notin {"idle", "committed"}
    /\ mreq' = [mreq EXCEPT ![r] = Idle]
    /\ UNCHANGED <<nodes, items, queue, quota, accepted, ending, calls>>

-----------------------------------------------------------------------------
(* Questions of the matrix.                                                 *)

SlugFree(i, slug) == \A j \in Stored \ {i} : items[j].slug # slug
Unknown(i) == \A r \in Request : mreq[r].on # i

\* _ensure_first_published_at
FirstDate(record, now) ==
    IF record.status = "Published" /\ record.date = None THEN [record EXCEPT !.date = now] ELSE record

\* Bound: a new question is filed in one subsection; an edit moves it.
NewItem(slug, text, ready, status) ==
    [slug |-> slug, text |-> text, ready |-> ready, status |-> status, date |-> None,
     sub |-> CHOOSE n \in Subsection \cap Present : TRUE]

\* A question that is to be public at once must be ready.
Insert(r, i, text) ==
    \E slug \in Slug, ready \in BOOLEAN, status \in Status :
        /\ Unknown(i) /\ SlugFree(i, slug)
        /\ status = "Published" => ready
        /\ items' = [items EXCEPT ![i] = FirstDate(NewItem(slug, text, ready, status), r)]

\* Bound: a new question has one text; an edit changes it.
CreateItem(r) ==
    /\ Once(r)
    /\ \E i \in Item \ Stored : Insert(r, i, CHOOSE q \in Question : TRUE)
    /\ UNCHANGED <<nodes, queue, quota, accepted, ending>>

\* The queued question is locked and deleted in the same transaction.
CreateItemFromQueue(r) ==
    /\ Once(r)
    /\ \E i \in Item \ Stored, q \in {e \in Queued : queue[e] > 0} :
         Insert(r, i, q.text) /\ queue' = [queue EXCEPT ![q] = @ - 1]
    /\ UNCHANGED <<nodes, quota, accepted, ending>>

\* What an editor makes of a question: one of its fields is changed.
Edits(record) ==
    {[record EXCEPT !.slug = slug] : slug \in Slug \ {record.slug}}
    \cup {[record EXCEPT !.text = text] : text \in Question \ {record.text}}
    \cup {[record EXCEPT !.ready = ~ @]}
    \cup {[record EXCEPT !.sub = n] : n \in (Subsection \cap Present) \ {record.sub}}
    \cup {[record EXCEPT !.status = status] : status \in Status \ {record.status}}

\* The editor's form is filled from an earlier answer and sent back whole.
OpenEditor(r) ==
    /\ Begin(r)
    /\ \E i \in Stored : \E form \in Edits(items[i]) : Holds(r, "edited", i, form, None)
    /\ UNCHANGED <<nodes, items, queue, quota, accepted, ending>>

\* The form is checked and the row is read, without a lock,
LoadForUpdate(r) ==
    /\ Step(r, "edited")
    /\ LET i == mreq[r].on  form == mreq[r].to
       IN  /\ i \in Stored
           /\ form.status = "Published" => form.ready
           /\ Holds(r, "update", i, [form EXCEPT !.date = items[i].date], items[i])
    /\ UNCHANGED <<nodes, items, queue, quota, accepted, ending>>

\* What differs from the row as it was read is written.
Merge(row, seen, new) == [c \in DOMAIN row |-> IF new[c] # seen[c] THEN new[c] ELSE row[c]]

SaveRow(i, seen, new) ==
    IF new = seen THEN UNCHANGED items
    ELSE i \in Stored /\ SlugFree(i, new.slug) /\ items' = [items EXCEPT ![i] = Merge(items[i], seen, new)]

SaveItem(r) ==
    /\ Step(r, "update")
    /\ SaveRow(mreq[r].on, mreq[r].seen, FirstDate(mreq[r].to, calls))
    /\ Commit(r)
    /\ UNCHANGED <<nodes, queue, quota, accepted, ending>>

DeleteItem(r) ==
    /\ Once(r)
    /\ \E i \in Stored : items' = [items EXCEPT ![i] = None]
    /\ UNCHANGED <<nodes, queue, quota, accepted, ending>>

\* set-published reads the question to check that it is ready,
CheckReady(r) ==
    /\ Begin(r)
    /\ \E i \in Stored : IsReady(i) /\ Holds(r, "ready", i, "Published", None)
    /\ UNCHANGED <<nodes, items, queue, quota, accepted, ending>>

\* then the row that it changes,
LoadForStatus(r) ==
    /\ Step(r, "ready")
    /\ LET i == mreq[r].on
       IN  i \in Stored /\ Holds(r, "update", i, [items[i] EXCEPT !.status = mreq[r].to], items[i])
    /\ UNCHANGED <<nodes, items, queue, quota, accepted, ending>>

\* as set-draft does at once.
LoadForDraft(r) ==
    /\ Begin(r)
    /\ \E i \in Stored : Holds(r, "update", i, [items[i] EXCEPT !.status = "Draft"], items[i])
    /\ UNCHANGED <<nodes, items, queue, quota, accepted, ending>>

-----------------------------------------------------------------------------
(* Structure.                                                               *)

Kind(n) == CASE n \in Sheet -> Sheet [] n \in Section -> Section [] n \in Subsection -> Subsection
Parents(n) ==
    CASE n \in Sheet -> {None}
      [] n \in Section -> Sheet \cap Present
      [] n \in Subsection -> Section \cap Present

NextPriority(siblings) == Max({0} \cup {nodes[n].priority : n \in siblings}) + 1

\* The name is free among its siblings and the next priority is read
CheckNode(r) ==
    /\ Begin(r)
    /\ \E n \in Node \ Present : \E parent \in Parents(n) :
         Holds(r, "node", n,
               [parent |-> parent, priority |-> NextPriority(Children(parent) \cap Kind(n))], None)
    /\ UNCHANGED <<nodes, items, queue, quota, accepted, ending>>

\* before the row is inserted: its priority may be a sibling's by then, its name may not.
\* Nothing is invalidated, for nothing is filed under it yet.
InsertNode(r) ==
    /\ Step(r, "node")
    /\ mreq[r].on \notin Present
    /\ nodes' = [nodes EXCEPT ![mreq[r].on] = mreq[r].to]
    /\ mreq' = [mreq EXCEPT ![r] = Idle]
    /\ UNCHANGED <<items, queue, quota, accepted, ending>>

Siblings == {Sheet \cap Present}
    \cup {Children(n) : n \in (Sheet \cup Section) \cap Present}

\* The order sent is checked to be one of all siblings,
CheckOrder(r) ==
    /\ Begin(r)
    /\ \E siblings \in Siblings : \E order \in SetToSeqs(siblings) :
         Cardinality(siblings) > 1 /\ Holds(r, "order", None, order, None)
    /\ UNCHANGED <<nodes, items, queue, quota, accepted, ending>>

\* and one statement numbers them; a sibling that came meanwhile keeps its number.
Numbered(order) ==
    [n \in Node |->
        IF n \in Range(order)
        THEN [nodes[n] EXCEPT !.priority = CHOOSE k \in DOMAIN order : order[k] = n]
        ELSE nodes[n]]

SaveOrder(r) ==
    /\ Step(r, "order")
    /\ nodes' = Numbered(mreq[r].to)
    /\ Commit(r)
    /\ UNCHANGED <<items, queue, quota, accepted, ending>>

-----------------------------------------------------------------------------
(* Suggestions.                                                             *)

\* The question is queued for this very sheet, or in its matrix.
Asked(q) == queue[q] > 0 \/ \E i \in Stored : SheetOf(i) = q.sheet /\ items[i].text = q.text

\* The sheet is listed and the question is not there yet,
CheckSuggestion(r) ==
    /\ Begin(r)
    /\ \E q \in Queued : q.sheet \in Range(Sheets) /\ ~ Asked(q) /\ Holds(r, "suggest", None, q, None)
    /\ UNCHANGED <<nodes, items, queue, quota, accepted, ending>>

\* INCR; the first increment sets a time to live of whole seconds until midnight, which in
\* the last second is none at all: the counter is gone at once.
Increment == IF ending /\ quota = 0 THEN 0 ELSE quota + 1

\* Mutant: the counter before the increment is compared.
AllowedBefore == quota <= DailyLimit

Allowed == quota + 1 <= DailyLimit

\* then the client's counter allows it,
ConsumeQuota(r) ==
    /\ Step(r, "suggest")
    /\ quota' = Increment
    /\ IF Allowed
       THEN Holds(r, "insert", None, mreq[r].to, None) /\ accepted' = accepted + 1
       ELSE mreq' = [mreq EXCEPT ![r] = Idle] /\ UNCHANGED accepted
    /\ UNCHANGED <<nodes, items, queue, ending>>

Enqueue(q) == queue' = [queue EXCEPT ![q] = @ + 1]

\* and it is inserted; another request may have inserted the same question.
InsertSuggestion(r) ==
    /\ Step(r, "insert")
    /\ Enqueue(mreq[r].to)
    /\ mreq' = [mreq EXCEPT ![r] = Idle]
    /\ UNCHANGED <<nodes, items, quota, accepted, ending>>

\* The counter lives until midnight, less the fraction of a second it was set with.  Only a
\* request that is about to count can tell.
LastSecond ==
    /\ ~ ending /\ ending' = TRUE
    /\ \E r \in Request : mreq[r].at = "suggest"
    /\ quota' \in {0, quota}
    /\ UNCHANGED <<nodes, items, queue, accepted, mreq, calls>>

\* An administrator's list of questions is queued without any check.
ImportQuestions(r) ==
    /\ Begin(r)
    /\ \E q \in Queued : Enqueue(q)
    /\ UNCHANGED <<nodes, items, quota, accepted, ending, mreq>>

DeleteQueued(r) ==
    /\ Begin(r)
    /\ \E q \in Queued : queue[q] > 0 /\ queue' = [queue EXCEPT ![q] = @ - 1]
    /\ UNCHANGED <<nodes, items, quota, accepted, ending, mreq>>

-----------------------------------------------------------------------------
Init ==
    /\ nodes = Kept.nodes /\ items = Kept.items /\ queue = Kept.queue
    /\ quota = 0 /\ accepted = 0 /\ ending = FALSE
    /\ mreq = [r \in Request |-> Idle]

StartItem(r) ==
    \/ CreateItem(r) \/ CreateItemFromQueue(r) \/ OpenEditor(r) \/ DeleteItem(r)
    \/ CheckReady(r) \/ LoadForDraft(r)
StartStructure(r) == CheckNode(r) \/ CheckOrder(r)
StartQueue(r)     == CheckSuggestion(r) \/ ImportQuestions(r) \/ DeleteQueued(r)
Start(r)          == StartItem(r) \/ StartStructure(r) \/ StartQueue(r)

Continue(r) ==
    \/ LoadForUpdate(r) \/ SaveItem(r) \/ LoadForStatus(r) \/ InsertNode(r) \/ SaveOrder(r)
    \/ ConsumeQuota(r) \/ InsertSuggestion(r) \/ Abort(r)

Row == [slug : Slug, text : Question, ready : BOOLEAN, status : Status,
        date : 0..MaxCalls \cup {None}, sub : Subsection]

Place == [parent : Sheet \cup Section \cup {None}, priority : 1..Cardinality(Node)]

TypeOK ==
    /\ nodes \in [Node -> Place \cup {None}]
    /\ items \in [Item -> Row \cup {None}]
    /\ \A i \in Stored : items[i].sub \in Present
    /\ queue \in [Queued -> Nat] /\ quota \in Nat /\ accepted \in Nat /\ ending \in BOOLEAN
    /\ \A r \in Request : mreq[r].at \in
          {"idle", "edited", "update", "ready", "node", "order", "suggest", "insert", "committed"}

\* A public question has a date, whichever requests drafted, published and edited it at
\* the same time.
PublishedHasDate == \A i \in Item : IsPublished(i) => items[i].date # None

\* No client has more suggestions accepted than the limit of the day, however many it sends
\* at once; except in the day's last second.
SuggestionsWithinLimit == ending \/ accepted <= DailyLimit
=============================================================================
