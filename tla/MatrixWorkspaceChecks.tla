----------------------- MODULE MatrixWorkspaceChecks -----------------------
(* MatrixWorkspace on every pair, and on larger tables, of items that differ *)
(* in each column the list looks at.                                        *)
EXTENDS RowOrder

List == INSTANCE MatrixWorkspace WITH DayLength <- 2

\* Two sheets; the second section of the first has a subsection that comes first in its order.
Node(id, priority, name) == [id |-> id, priority |-> priority, name |-> name]
Branch(sheet, section, subsection) == [sheet |-> sheet, section |-> section, subsection |-> subsection]
BranchOf == <<Branch(Node(1, 2, 1), Node(1, 1, 2), Node(1, 2, 1)),
              Branch(Node(1, 2, 1), Node(2, 2, 1), Node(2, 1, 1)),
              Branch(Node(2, 1, 2), Node(3, 1, 1), Node(3, 1, 2))>>

Written == [f \in List!TextField |-> "text"]
Listed(id, branch, question, grade, frequency, status, published, texts, words) ==
    [id |-> id, sheet |-> BranchOf[branch].sheet, section |-> BranchOf[branch].section,
     subsection |-> BranchOf[branch].subsection, question |-> question, grade |-> grade,
     frequency |-> frequency, status |-> status, published |-> published, texts |-> texts, words |-> words]

\* Rows for each column to be NULL, equal and different in; 7 is blank to the server only.
Row == {Listed(1, 1, 1, 1, "often", "Published", 0, Written, {"a"}),
        Listed(2, 1, 1, 1, "often", "Published", 0, Written, {"a", "b"}),
        Listed(3, 2, 2, NoValue, NoValue, "Draft", NoValue, [Written EXCEPT !["answerRu"] = ""], {"b"}),
        Listed(4, 2, 1, 5, "constantly", "Draft", 1, Written, {}),
        Listed(5, 3, 2, 2, "neverSeen", "Published", 2, [Written EXCEPT !["slug"] = "spaces"], {"a"}),
        Listed(6, 3, 1, NoValue, "rarely", "Published", 3, Written, {"b"}),
        Listed(7, 1, 2, 2, NoValue, "Published", 1, [Written EXCEPT !["answerEn"] = "lines"], {})}
Tables == {t \in SUBSET Row : Cardinality(t) <= 2 \/ Cardinality(t) >= 6}

NoFilter == [sheets |-> {}, sections |-> {}, sectionNames |-> {}, subsections |-> {}, subsectionNames |-> {},
             grades |-> {}, frequencies |-> {}, statuses |-> {}, from |-> NoValue, to |-> NoValue,
             search |-> NoValue, missing |-> NoValue, sort |-> "section", page |-> 1, size |-> 2]
Filters == {NoFilter, [NoFilter EXCEPT !.sheets = {1}], [NoFilter EXCEPT !.statuses = {"Published"}],
            [NoFilter EXCEPT !.grades = {1, 2}, !.frequencies = {"often", "neverSeen"}],
            [NoFilter EXCEPT !.sectionNames = {1}, !.subsections = {2, 3}],
            [NoFilter EXCEPT !.from = 0, !.to = 0], [NoFilter EXCEPT !.to = 1],
            [NoFilter EXCEPT !.search = "b"], [NoFilter EXCEPT !.missing = "yes"],
            [NoFilter EXCEPT !.missing = "no"]}

\* No write between the statements of a request, nor between the requests for the pages.
Still(table) == [listed |-> table, counted |-> table, summarised |-> table]
StillMenus(table) == [menu \in {"sheets", "grades", "frequencies", "sections", "subsections", "statuses"} |-> table]

Pages(table, filters, sort, size) ==
    [n \in 1..((Cardinality(table) \div size) + 2) |->
        List!Workspace(Still(table), [filters EXCEPT !.sort = sort, !.page = n, !.size = size])]
Ids(page) == {page.values[i].id : i \in DOMAIN page.values}

\* The pages of a list that nobody changes partition it, in every order: each row that the filters
\* let through is on exactly one page, all pages but the last are full, totalPages is the number of
\* the pages that are not empty and totalCount the number of the rows on them.
ASSUME PagesPartitionTheList ==
    \A table \in Tables, filters \in {NoFilter, [NoFilter EXCEPT !.missing = "no"]},
       sort \in List!Sort, size \in {1, 2, 3} :
        LET pages == Pages(table, filters, sort, size)
            found == {item.id : item \in List!Filtered(table, filters)}
        IN  /\ UNION {Ids(pages[n]) : n \in DOMAIN pages} = found
            /\ \A n, m \in DOMAIN pages : n # m => Ids(pages[n]) \cap Ids(pages[m]) = {}
            /\ \A n \in DOMAIN pages : /\ pages[n].totalCount = Cardinality(found)
                                       /\ n < pages[n].totalPages => Len(pages[n].values) = size
                                       /\ pages[n].values # <<>> <=> n <= pages[n].totalPages

\* No order leaves two rows in a place that the database may choose, else a row could be on two
\* pages or on none.
ASSUME OrdersAreTotal ==
    \A sort \in List!Sort, a, b \in Row :
        a # b => (List!Before(List!Ordering(a, sort), List!Ordering(b, sort))
                    <=> ~List!Before(List!Ordering(b, sort), List!Ordering(a, sort)))

\* What the newest and oldest orders promise of two rows: unpublished ones come last in both, and
\* of two published ones the dates decide.
ASSUME DatesOrderTheList ==
    \A a, b \in Row :
        LET Newer == List!Before(List!Ordering(a, "newest"), List!Ordering(b, "newest"))
            Older == List!Before(List!Ordering(a, "oldest"), List!Ordering(b, "oldest"))
        IN  /\ a.published # NoValue /\ b.published = NoValue => Newer /\ Older
            /\ a.published # NoValue /\ b.published # NoValue /\ a.published > b.published => Newer /\ ~Older

\* Both ends of a range of dates are whole days.
ASSUME DatesAreWholeDays ==
    \A from \in 0..1, to \in 0..1 :
        List!Filtered(Row, [NoFilter EXCEPT !.from = from, !.to = to])
            = {item \in Row : item.published # NoValue /\ item.published \div 2 \in from..to}

\* Each count above the list is the number of rows the administrator finds, in the table the
\* counts were read from, when he narrows the filters to what the count is about.
ASSUME CountsAreLists ==
    \A table \in Tables, filters \in Filters :
        LET Found(statuses, missing) ==
                Cardinality({item \in List!Filtered(table, filters) :
                    item \in List!Filtered(table, [NoFilter EXCEPT !.statuses = statuses, !.missing = missing])})
            counts == List!Workspace(Still(table), filters).summary
        IN  /\ counts.total = List!Workspace(Still(table), filters).totalCount
            /\ counts.draft = Found({"Draft"}, NoValue)
            /\ counts.missingDraft = Found({"Draft"}, "yes")
            /\ counts.dangerousPublished = Found({"Published"}, "yes")
            /\ counts.readyPublished = Found({"Published"}, "no")
            /\ counts.total = counts.draft + counts.dangerousPublished + counts.readyPublished

\* An answer may disagree with itself: a question deleted after the rows were read is on the page
\* and in no count, one published before the summary is a draft on the page and counted ready.
ASSUME AnswerMayDisagreeWithItself ==
    LET before    == {item \in Row : item.id \in {1, 4}}
        deleted   == {item \in Row : item.id = 1}
        published == deleted \cup {[item EXCEPT !.status = "Published"] : item \in {i \in Row : i.id = 4}}
        late      == List!Workspace([listed |-> before, counted |-> deleted, summarised |-> deleted], NoFilter)
        later     == List!Workspace([listed |-> before, counted |-> before, summarised |-> published],
                                    [NoFilter EXCEPT !.statuses = {"Draft"}])
    IN  /\ Len(late.values) = 2 /\ late.totalCount = 1
        /\ Len(later.values) = 1 /\ later.totalCount = 1 /\ later.summary.total = 0

\* An item counted ready is available to the readers of the site, and the missing fields the
\* list shows are those the filter found, but for a text that is blank and not only spaces:
\* that one the database takes for written.
ASSUME ReadyIsAvailable ==
    \A item \in Row :
        LET odd == \E f \in List!TextField : item.texts[f] = "lines"
        IN  /\ ~odd => List!MissingConditions(item) = List!MissingPublicationFields(item)
            /\ odd => List!MissingConditions(item) # List!MissingPublicationFields(item)
            /\ item.status = "Published" => ((~List!MissingCondition(item) <=> List!IsAvailable(item)) <=> ~odd)

\* Choosing any value a menu offers finds something, and every item is found under some value of
\* each menu or has none.
ASSUME MenusOfferWhatThereIs ==
    \A table \in Tables :
        LET menu == List!FilterOptions(StillMenus(table))
            Finds(filters) == List!Filtered(table, filters) # {}
            Offered(seq) == {seq[i] : i \in DOMAIN seq}
            sections == UNION {Offered(menu.sheets[i].sections) : i \in DOMAIN menu.sheets}
        IN  /\ \A i \in DOMAIN menu.sheets : Finds([NoFilter EXCEPT !.sheets = {menu.sheets[i].id}])
            /\ \A s \in sections : /\ Finds([NoFilter EXCEPT !.sections = {s.id}])
                                   /\ \A u \in Offered(s.subsections) :
                                        Finds([NoFilter EXCEPT !.sections = {s.id}, !.subsections = {u}])
            /\ \A g \in Offered(menu.grades) : Finds([NoFilter EXCEPT !.grades = {g}])
            /\ \A f \in Offered(menu.frequencies) : Finds([NoFilter EXCEPT !.frequencies = {f}])
            /\ {item.id : item \in table} =
                UNION {{item.id : item \in List!Filtered(table, [NoFilter EXCEPT !.sections = {s.id},
                                                                  !.subsections = Offered(s.subsections)])} :
                       s \in sections}
=============================================================================
